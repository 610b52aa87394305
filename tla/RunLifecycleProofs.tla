-------------------------- MODULE RunLifecycleProofs --------------------------
(***************************************************************************)
(* Theorems about RunLifecycle, for every number of Runs and claims, every *)
(* refund cap and every range of budgets.                                  *)
(*                                                                         *)
(* The inductive invariant IInv joins the checked invariants with three    *)
(* facts they rest on: rows beyond `births` are blank, only an ended Run   *)
(* has an author, and both are stated row by row (RowOK), so that a step   *)
(* need only be followed on the row or the two rows it writes.  BInv adds  *)
(* what the grants of the rows say of the budget.                          *)
(***************************************************************************)
EXTENDS RunLifecycle, FiniteSetTheorems, TLAPS

-----------------------------------------------------------------------------
(***************************************************************************)
(* The inductive invariant.                                                *)
(***************************************************************************)

\* Everything IInv says of one row alone.
RowOK(row) ==
    /\ row.lease => row.status \in Claimed /\ row.token = row.gen
    /\ row.author # 0 => /\ row.author = row.gen
                         /\ row.status \in {"SUCCEEDED", "FAILED", "TIMED_OUT"}
    /\ row.status = "WAITING_INBOX" => row.asking \in row.questions
    /\ row.cancel # "none" => row.status \notin {"SUCCEEDED", "LOST"}

RowsOK == \A n \in Runs : RowOK(run[n])

Unborn == \A n \in Runs : n > births => run[n] = NoRun

IInv == TypeOK /\ RowsOK /\ OneOpenRun /\ Unborn /\ DoingHasOpenRun

\* What a step may never do to an ended Run.
KeepsEnds == \A n \in Runs : run[n].status \in Terminal => run'[n].status = run[n].status

\* The variables no row depends on keep their types.
OthersTyped ==
    /\ taskMax \in MinBudget..MaxBudget
    /\ peak \in MinBudget..MaxBudget
    /\ capped \in 0..ExternalCap
    /\ uncapped \in 0..MaxUncapped
    /\ orphans \subseteq Runs
    /\ expired \subseteq Runs \X Gens

-----------------------------------------------------------------------------
(***************************************************************************)
(* The rows the handlers build are rows of table Run.                      *)
(***************************************************************************)

\* The status sets, spelled out.
LEMMA Statuses ==
    /\ Claimed = {"CLAIMED", "RUNNING"}
    /\ Active = {"CLAIMED", "RUNNING", "WAITING_INBOX"}
    /\ Open = {"QUEUED", "CLAIMED", "RUNNING", "WAITING_INBOX"}
    /\ Terminal = {"SUCCEEDED", "FAILED", "TIMED_OUT", "CANCELLED", "LOST"}
    /\ RunStatus = {"NONE"} \union Open \union Terminal
    /\ SessionStatus = {"NONE", "REQUESTED", "PROVISIONING", "RUNNING", "WAITING_INBOX"} \union Terminal
BY DEF Claimed, Active, Open, Terminal, RunStatus, SessionStatus

\* The blank row has the type of a row.
LEMMA NoRunType == NoRun \in RunRow /\ RowOK(NoRun) /\ NoRun.status = "NONE"
<1>1. NoRun \in RunRow
  BY RunsAssumption, CapsAssumption DEF NoRun, RunRow, RunStatus, SessionStatus, Gens
<1>. QED BY <1>1 DEF RowOK, NoRun

\* A newborn Run has the type of a row and satisfies the row invariant.
LEMMA QueuedRunType ==
    ASSUME NEW max \in Nat, NEW grants \in Nat, NEW refunds \in 0..RefundCap
    PROVE  /\ QueuedRun(max, grants, refunds) \in RunRow
           /\ RowOK(QueuedRun(max, grants, refunds))
           /\ QueuedRun(max, grants, refunds).status = "QUEUED"
<1>. DEFINE row == [NoRun EXCEPT !.status = "QUEUED", !.max = max,
                                 !.grants = grants, !.refunds = refunds]
<1>1. row \in RunRow BY NoRunType, Statuses DEF RunRow
<1>2. RowOK(row) /\ row.status = "QUEUED" BY DEF NoRun, RowOK
<1>. QED BY <1>1, <1>2 DEF QueuedRun

\* A cancelled row has the type of a row, confirmed or not.
LEMMA CancelledRowType ==
    ASSUME NEW row \in RunRow, RowOK(row), row.status \in Open, NEW confirmed \in BOOLEAN
    PROVE  /\ CancelledRow(row, confirmed) \in RunRow
           /\ RowOK(CancelledRow(row, confirmed))
           /\ CancelledRow(row, confirmed).status = "CANCELLED"
<1>1. CancelledRow(row, confirmed) \in RunRow
  <2>1. "CANCELLED" \in RunStatus /\ "CANCELLED" \in SessionStatus BY Statuses
  <2>. QED BY <2>1 DEF CancelledRow, RunRow
<1>2. RowOK(CancelledRow(row, confirmed)) /\ CancelledRow(row, confirmed).status = "CANCELLED"
  BY Statuses DEF CancelledRow, RowOK, RunRow
<1>. QED BY <1>1, <1>2

\* A refund keeps the type of a row and changes its budget columns only.
LEMMA RefundType ==
    ASSUME NEW row \in RunRow, NEW granted \in BOOLEAN
    PROVE  /\ Refund(row, granted) \in RunRow
           /\ Refund(row, granted).cancel = row.cancel
           /\ Refund(row, granted).author = row.author
           /\ Refund(row, granted).max = IF granted THEN row.max + 1 ELSE row.max
           /\ Refund(row, granted).grants = IF granted THEN row.grants + 1 ELSE row.grants
           /\ Refund(row, granted).refunds = row.refunds
<1>1. CASE granted
  <2>. DEFINE r == [row EXCEPT !.max = row.max + 1, !.grants = row.grants + 1]
  <2>1. Refund(row, granted) = r BY <1>1 DEF Refund
  <2>2. row.max + 1 \in Nat /\ row.grants + 1 \in Nat BY DEF RunRow
  <2>3. r \in RunRow BY <2>2 DEF RunRow
  <2>4. /\ r.cancel = row.cancel /\ r.author = row.author /\ r.refunds = row.refunds
        /\ r.max = row.max + 1 /\ r.grants = row.grants + 1
    BY DEF RunRow
  <2>. QED BY <1>1, <2>1, <2>3, <2>4
<1>2. CASE ~granted BY <1>2 DEF Refund, RunRow
<1>. QED BY <1>1, <1>2

\* A lost row and a row whose claim a salvage revoked.
LEMMA LostRowType ==
    ASSUME NEW n \in Runs, run[n] \in RunRow, RowOK(run[n]),
           run[n].status \in Open, run[n].cancel = "none"
    PROVE  LostRow(n) \in RunRow /\ RowOK(LostRow(n)) /\ LostRow(n).status = "LOST"
<1>. DEFINE r == Refund(run[n], RefundGranted(n))
<1>1. r \in RunRow /\ r.cancel = "none" /\ r.author = run[n].author
  BY RefundType DEF RefundGranted
<1>2. run[n].author = 0 BY Statuses DEF RowOK, RunRow
<1>3. LostRow(n) = [r EXCEPT !.status = "LOST", !.lease = FALSE, !.beat = FALSE, !.session = "LOST"]
  BY DEF LostRow
<1>. HIDE DEF r
<1>4. LostRow(n) \in RunRow
  <2>1. "LOST" \in RunStatus /\ "LOST" \in SessionStatus BY Statuses
  <2>. QED BY <2>1, <1>1, <1>3 DEF RunRow
<1>5. RowOK(LostRow(n)) /\ LostRow(n).status = "LOST" BY <1>1, <1>2, <1>3 DEF RowOK, RunRow
<1>. QED BY <1>4, <1>5

LEMMA RevokedRowType ==
    ASSUME NEW n \in Runs, run[n] \in RunRow, RowOK(run[n]), run[n].status \in Open
    PROVE  /\ RevokedRow(n) \in RunRow /\ RowOK(RevokedRow(n)) /\ RevokedRow(n).status = "CANCELLED"
           /\ RevokedRow(n).refunds = run[n].refunds
<1>. DEFINE r == Refund(run[n], RefundGranted(n))
<1>1. r \in RunRow /\ r.author = run[n].author /\ r.refunds = run[n].refunds
  BY RefundType DEF RefundGranted
<1>2. run[n].author = 0 BY Statuses DEF RowOK, RunRow
<1>3. RevokedRow(n) = [r EXCEPT !.status = "CANCELLED", !.lease = FALSE,
                                !.beat = FALSE, !.session = "CANCELLED"]
  BY DEF RevokedRow
<1>. HIDE DEF r
<1>4. RevokedRow(n) \in RunRow
  <2>1. "CANCELLED" \in RunStatus /\ "CANCELLED" \in SessionStatus BY Statuses
  <2>. QED BY <2>1, <1>1, <1>3 DEF RunRow
<1>5. /\ RowOK(RevokedRow(n)) /\ RevokedRow(n).status = "CANCELLED"
      /\ RevokedRow(n).refunds = run[n].refunds
  BY <1>1, <1>2, <1>3 DEF RowOK, RunRow
<1>. QED BY <1>4, <1>5

-----------------------------------------------------------------------------
(***************************************************************************)
(* How a step moves rows: one row in place, or the birth of a Run after    *)
(* every other one has ended.                                              *)
(***************************************************************************)

\* A handler that rewrites row n only.
LEMMA OneRowStep ==
    ASSUME IInv, OthersTyped', task' \in TaskStatus, births' = births,
           NEW n \in Runs, NEW row \in RunRow, RowOK(row),
           run' = [run EXCEPT ![n] = row],
           \/ run[n].status \in Open /\ row.status # "NONE"
           \/ row.status = run[n].status /\ run[n].status # "NONE",
           task' = "DOING" => \/ row.status \in Open
                              \/ task = "DOING" /\ run[n].status \notin Open
    PROVE  IInv' /\ KeepsEnds
<1>1. run \in [Runs -> RunRow] /\ births \in 0..MaxRuns BY DEF IInv, TypeOK
<1>2. \A m \in Runs : run'[m] = IF m = n THEN row ELSE run[m] BY <1>1
<1>3. TypeOK' BY <1>1 DEF OthersTyped, TypeOK
<1>4. RowsOK' BY <1>2 DEF IInv, RowsOK
<1>5. OneOpenRun' BY <1>2, Statuses DEF IInv, OneOpenRun
<1>6. Unborn'
  <2>1. n <= births BY <1>1, NoRunType, Statuses DEF IInv, Unborn, Runs
  <2>. QED BY <1>1, <1>2, <2>1 DEF IInv, Unborn, Runs
<1>7. DoingHasOpenRun' BY <1>2 DEF IInv, DoingHasOpenRun
<1>8. KeepsEnds BY <1>2, Statuses DEF KeepsEnds
<1>. QED BY <1>3, <1>4, <1>5, <1>6, <1>7, <1>8 DEF IInv

\* A birth: after the ended rows `rest`, a queued row for Run births + 1.
LEMMA BirthStep ==
    ASSUME IInv, OthersTyped', task' \in TaskStatus, births < MaxRuns, births' = births + 1,
           NEW rest \in [Runs -> RunRow],
           \A m \in Runs : RowOK(rest[m]) /\ rest[m].status \notin Open,
           \A m \in Runs : \/ rest[m] = run[m]
                           \/ m <= births /\ run[m].status \in Open,
           NEW row \in RunRow, RowOK(row), row.status = "QUEUED",
           run' = [rest EXCEPT ![births + 1] = row]
    PROVE  IInv' /\ KeepsEnds
<1>1. /\ births + 1 \in Runs /\ births \in 0..MaxRuns
      /\ births' \in 0..MaxRuns /\ run' \in [Runs -> RunRow]
  BY RunsAssumption DEF IInv, TypeOK, Runs
<1>2. \A m \in Runs : run'[m] = IF m = births + 1 THEN row ELSE rest[m] BY <1>1
<1>3. TypeOK' BY <1>1 DEF OthersTyped, TypeOK
<1>4. RowsOK' BY <1>2 DEF RowsOK
<1>5. OneOpenRun' BY <1>2 DEF OneOpenRun
<1>6. Unborn' BY <1>1, <1>2 DEF IInv, Unborn, Runs
<1>7. DoingHasOpenRun' BY <1>1, <1>2, Statuses DEF DoingHasOpenRun
<1>8. KeepsEnds BY <1>1, <1>2, NoRunType, Statuses DEF IInv, Unborn, KeepsEnds, Runs
<1>. QED BY <1>3, <1>4, <1>5, <1>6, <1>7, <1>8 DEF IInv

\* A handler that writes no row.
LEMMA NoRowStep ==
    ASSUME IInv, OthersTyped', task' \in TaskStatus, UNCHANGED <<run, births>>,
           task' = "DOING" => task = "DOING"
    PROVE  IInv' /\ KeepsEnds
BY DEF IInv, OthersTyped, TypeOK, RowsOK, OneOpenRun, Unborn, DoingHasOpenRun, KeepsEnds

-----------------------------------------------------------------------------
(***************************************************************************)
(* One lemma per handler.                                                  *)
(***************************************************************************)

\* What the invariant says of a row, and of the variables beside the rows.
LEMMA Facts ==
    ASSUME IInv
    PROVE  /\ run \in [Runs -> RunRow]
           /\ \A m \in Runs : run[m] \in RunRow /\ RowOK(run[m])
           /\ births \in 0..MaxRuns /\ births \in Nat
           /\ task \in TaskStatus
           /\ taskMax \in Nat
           /\ OthersTyped
<1>1. taskMax \in Nat BY BudgetAssumption DEF IInv, TypeOK
<1>. QED BY <1>1, RunsAssumption DEF IInv, TypeOK, RowsOK, OthersTyped

LEMMA OthersStay ==
    ASSUME IInv, UNCHANGED <<budget, external, sweep>>
    PROVE  OthersTyped'
BY Facts DEF OthersTyped, budget, external, sweep

LEMMA ClaimRunStep ==
    ASSUME IInv, NEW n \in Runs, ClaimRun(n)
    PROVE  IInv' /\ KeepsEnds
<1>. DEFINE row == [run[n] EXCEPT !.status = "CLAIMED", !.gen = run[n].gen + 1,
                                  !.token = run[n].gen + 1, !.lease = TRUE,
                                  !.beat = TRUE, !.session = "PROVISIONING"]
<1>1. run' = [run EXCEPT ![n] = row] /\ run[n].status = "QUEUED"
  BY Facts DEF ClaimRun, Claimable
<1>2. row \in RunRow
  <2>1. "CLAIMED" \in RunStatus /\ "PROVISIONING" \in SessionStatus BY Statuses
  <2>2. run[n].gen + 1 \in 0..MaxGen BY Facts, RunsAssumption DEF ClaimRun, RunRow
  <2>. QED BY <2>1, <2>2, Facts DEF RunRow
<1>3. RowOK(row) /\ row.status = "CLAIMED" BY <1>1, Facts, Statuses DEF RowOK, RunRow
<1>4. births' = births /\ task' = "DOING" /\ task' \in TaskStatus /\ OthersTyped'
  BY OthersStay DEF ClaimRun, TaskStatus
<1>. HIDE DEF row
<1>. QED BY <1>1, <1>2, <1>3, <1>4, OneRowStep, Statuses

LEMMA SettleQueuedCandidateStep ==
    ASSUME IInv, NEW n \in Runs, SettleQueuedCandidate(n)
    PROVE  IInv' /\ KeepsEnds
<1>. DEFINE row == [run[n] EXCEPT !.status = "FAILED"]
<1>1. run' = [run EXCEPT ![n] = row] /\ run[n].status = "QUEUED"
  BY Facts DEF SettleQueuedCandidate, Claimable
<1>2. row \in RunRow
  <2>1. "FAILED" \in RunStatus BY Statuses
  <2>. QED BY <2>1, Facts DEF RunRow
<1>3. RowOK(row) /\ row.status = "FAILED" BY <1>1, Facts, Statuses DEF RowOK, RunRow
<1>4. births' = births /\ task' = "BACKLOG" /\ task' \in TaskStatus /\ OthersTyped'
  BY OthersStay DEF SettleQueuedCandidate, TaskStatus
<1>. HIDE DEF row
<1>. QED BY <1>1, <1>2, <1>3, <1>4, OneRowStep, Statuses

LEMMA StartRunStep ==
    ASSUME IInv, NEW n \in Runs, NEW g \in Gens, StartRun(n, g)
    PROVE  IInv' /\ KeepsEnds
<1>. DEFINE row == [run[n] EXCEPT !.status = "RUNNING", !.started = TRUE,
                                  !.session = "RUNNING"]
<1>1. run' = [run EXCEPT ![n] = row] /\ run[n].status = "CLAIMED"
  BY Facts DEF StartRun, Fenced
<1>2. row \in RunRow
  <2>1. "RUNNING" \in RunStatus /\ "RUNNING" \in SessionStatus BY Statuses
  <2>. QED BY <2>1, Facts DEF RunRow
<1>3. RowOK(row) /\ row.status = "RUNNING" BY <1>1, Facts, Statuses DEF RowOK, RunRow
<1>4. births' = births /\ task' = task /\ task' \in TaskStatus /\ OthersTyped'
  BY Facts, OthersStay DEF StartRun
<1>. HIDE DEF row
<1>. QED BY <1>1, <1>2, <1>3, <1>4, OneRowStep, Statuses

LEMMA HeartbeatRunStep ==
    ASSUME IInv, NEW n \in Runs, NEW g \in Gens, HeartbeatRun(n, g)
    PROVE  IInv' /\ KeepsEnds
<1>. DEFINE row == [run[n] EXCEPT !.beat = TRUE]
<1>1. run' = [run EXCEPT ![n] = row] /\ run[n].status \in Active
  BY Facts DEF HeartbeatRun, Fenced
<1>2. row \in RunRow BY Facts DEF RunRow
<1>3. RowOK(row) /\ row.status = run[n].status BY Facts DEF RowOK, RunRow
<1>4. births' = births /\ task' = task /\ task' \in TaskStatus /\ OthersTyped'
  BY Facts, OthersStay DEF HeartbeatRun
<1>. HIDE DEF row
<1>. QED BY <1>1, <1>2, <1>3, <1>4, OneRowStep, Statuses

LEMMA SuspendForInboxStep ==
    ASSUME IInv, NEW n \in Runs, NEW g \in Gens, SuspendForInbox(n, g)
    PROVE  IInv' /\ KeepsEnds
<1>. DEFINE row == [run[n] EXCEPT !.status = "WAITING_INBOX", !.lease = FALSE,
                                  !.session = "WAITING_INBOX", !.asking = g,
                                  !.questions = run[n].questions \union {g}, !.beat = FALSE]
<1>1. run' = [run EXCEPT ![n] = row] /\ run[n].status \in Claimed
  BY Facts DEF SuspendForInbox, Fenced
<1>2. row \in RunRow
  <2>1. "WAITING_INBOX" \in RunStatus /\ "WAITING_INBOX" \in SessionStatus BY Statuses
  <2>2. g \in 0..MaxGen BY RunsAssumption DEF Gens
  <2>3. run[n].questions \union {g} \in SUBSET Gens BY Facts DEF RunRow
  <2>. QED BY <2>1, <2>2, <2>3, Facts DEF RunRow
<1>3. RowOK(row) /\ row.status = "WAITING_INBOX" BY <1>1, Facts, Statuses DEF RowOK, RunRow
<1>4. births' = births /\ task' = task /\ task' \in TaskStatus /\ OthersTyped'
  BY Facts, OthersStay DEF SuspendForInbox
<1>. HIDE DEF row
<1>. QED BY <1>1, <1>2, <1>3, <1>4, OneRowStep, Statuses

LEMMA CompletedRowType ==
    ASSUME IInv, NEW n \in Runs, NEW g \in Gens, Fenced(n, g, Active),
           NEW v \in Verdicts, NEW grant \in {0, 1}
    PROVE  /\ CompletedRow(n, g, v, grant) \in RunRow
           /\ RowOK(CompletedRow(n, g, v, grant))
           /\ CompletedRow(n, g, v, grant).status \in {"SUCCEEDED", "FAILED", "TIMED_OUT"}
<1>. DEFINE row == CompletedRow(n, g, v, grant)
<1>1. v.status \in {"SUCCEEDED", "FAILED", "TIMED_OUT"} BY DEF Verdicts
<1>2. row \in RunRow
  <2>1. v.status \in RunStatus /\ v.status \in SessionStatus BY <1>1, Statuses
  <2>2. g \in 0..MaxGen BY RunsAssumption DEF Gens
  <2>3. run[n].max + grant \in Nat /\ run[n].grants + grant \in Nat BY Facts DEF RunRow
  <2>. QED BY <2>1, <2>2, <2>3, Facts DEF RunRow, CompletedRow
<1>3. row.status = v.status /\ row.author = g /\ row.lease = FALSE
      /\ row.gen = run[n].gen /\ row.cancel = run[n].cancel
  BY Facts DEF RunRow, CompletedRow
<1>4. run[n].gen = g /\ run[n].cancel = "none" BY Facts DEF RowOK, Fenced
<1>5. RowOK(row) BY <1>1, <1>3, <1>4 DEF RowOK
<1>. QED BY <1>1, <1>2, <1>3, <1>5

LEMMA CompleteRunStep ==
    ASSUME IInv, NEW n \in Runs, NEW g \in Gens, CompleteRun(n, g)
    PROVE  IInv' /\ KeepsEnds
<1>1. PICK v \in Verdicts, grant \in {0, 1} :
        /\ grant = 1 <=> \/ v.refund = "uncapped"
                         \/ v.refund = "capped" /\ capped < ExternalCap
        /\ v.refund = "uncapped" => uncapped < MaxUncapped
        /\ capped' = IF v.refund = "capped" THEN capped + grant ELSE capped
        /\ uncapped' = IF v.refund = "uncapped" THEN uncapped + grant ELSE uncapped
        /\ \/ /\ n = births
              /\ births < MaxRuns
              /\ run' = [run EXCEPT ![n] = CompletedRow(n, g, v, grant),
                                    ![n + 1] = QueuedRun(run[n].max + grant,
                                                         run[n].grants + grant,
                                                         run[n].refunds)]
              /\ births' = births + 1
              /\ task' = "DOING"
           \/ /\ run' = [run EXCEPT ![n] = CompletedRow(n, g, v, grant)]
              /\ task' = "REVIEW"
              /\ UNCHANGED births
  BY DEF CompleteRun
<1>2. Fenced(n, g, Active) /\ UNCHANGED <<budget, sweep>> BY DEF CompleteRun
<1>. DEFINE row == CompletedRow(n, g, v, grant)
<1>3. row \in RunRow /\ RowOK(row) /\ row.status \in {"SUCCEEDED", "FAILED", "TIMED_OUT"}
  BY <1>2, CompletedRowType
<1>4. run[n].status \in Open BY <1>2, Statuses DEF Fenced
<1>5. OthersTyped'
  <2>1. v.refund \in {"none", "capped", "uncapped"} BY DEF Verdicts
  <2>2. capped \in 0..ExternalCap /\ uncapped \in 0..MaxUncapped BY Facts DEF OthersTyped
  <2>3. capped' \in 0..ExternalCap BY <1>1, <2>1, <2>2, CapsAssumption
  <2>4. uncapped' \in 0..MaxUncapped BY <1>1, <2>1, <2>2, CapsAssumption
  <2>. QED BY <1>2, <2>3, <2>4, Facts DEF OthersTyped, budget, sweep
<1>. HIDE DEF row
<1>6. CASE /\ run' = [run EXCEPT ![n] = row]
           /\ task' = "REVIEW" /\ UNCHANGED births
  <2>1. task' \in TaskStatus BY <1>6 DEF TaskStatus
  <2>. QED BY <1>3, <1>4, <1>5, <1>6, <2>1, OneRowStep
<1>7. CASE /\ n = births /\ births < MaxRuns /\ births' = births + 1 /\ task' = "DOING"
           /\ run' = [run EXCEPT ![n] = row,
                                 ![n + 1] = QueuedRun(run[n].max + grant, run[n].grants + grant,
                                                      run[n].refunds)]
  <2>. DEFINE new == QueuedRun(run[n].max + grant, run[n].grants + grant, run[n].refunds)
              rest == [run EXCEPT ![n] = row]
  <2>1. new \in RunRow /\ RowOK(new) /\ new.status = "QUEUED"
    <3>1. /\ run[n].max + grant \in Nat /\ run[n].grants + grant \in Nat
          /\ run[n].refunds \in 0..RefundCap
      BY Facts DEF RunRow
    <3>. QED BY <3>1, QueuedRunType
  <2>. HIDE DEF new
  <2>2. run' = [rest EXCEPT ![births + 1] = new] BY <1>7 DEF new
  <2>3. rest \in [Runs -> RunRow] BY Facts, <1>3
  <2>4. \A m \in Runs : rest[m] = IF m = n THEN row ELSE run[m] BY Facts
  <2>5. \A m \in Runs : RowOK(rest[m]) /\ rest[m].status \notin Open
    BY <1>3, <1>7, <2>4, Facts, Statuses DEF IInv, OneOpenRun
  <2>6. \A m \in Runs : rest[m] = run[m] \/ (m <= births /\ run[m].status \in Open)
    BY <1>4, <1>7, <2>4, Facts
  <2>7. task' \in TaskStatus BY <1>7 DEF TaskStatus
  <2>. HIDE DEF rest
  <2>. QED BY <1>5, <1>7, <2>1, <2>2, <2>3, <2>5, <2>6, <2>7, BirthStep
<1>. QED BY <1>1, <1>6, <1>7 DEF row

LEMMA CancelledTaskType == IInv => CancelledTask \in TaskStatus /\ CancelledTask # "DOING"
BY Facts DEF CancelledTask, TaskStatus

LEMMA AcknowledgeCancellationStep ==
    ASSUME IInv, NEW n \in Runs, NEW g \in Gens, AcknowledgeCancellation(n, g)
    PROVE  IInv' /\ KeepsEnds
<1>1. births' = births /\ OthersTyped' BY OthersStay DEF AcknowledgeCancellation
<1>2. CASE /\ run[n].status = "CANCELLED" /\ UNCHANGED task
           /\ run' = [run EXCEPT ![n].cancel = "acknowledged"]
  <2>. DEFINE row == [run[n] EXCEPT !.cancel = "acknowledged"]
  <2>1. run' = [run EXCEPT ![n] = row] BY <1>2
  <2>2. row \in RunRow BY Facts DEF RunRow
  <2>3. RowOK(row) /\ row.status = "CANCELLED" BY <1>2, Facts DEF RowOK, RunRow
  <2>. HIDE DEF row
  <2>. QED BY <1>1, <1>2, <2>1, <2>2, <2>3, OneRowStep, Facts, Statuses
<1>3. CASE /\ run[n].status \in Open /\ task' = CancelledTask
           /\ run' = [run EXCEPT ![n] = CancelledRow(run[n], TRUE)]
  <2>1. /\ CancelledRow(run[n], TRUE) \in RunRow /\ RowOK(CancelledRow(run[n], TRUE))
        /\ CancelledRow(run[n], TRUE).status = "CANCELLED"
    BY <1>3, Facts, CancelledRowType
  <2>. QED BY <1>1, <1>3, <2>1, OneRowStep, CancelledTaskType
<1>. QED BY <1>2, <1>3 DEF AcknowledgeCancellation

LEMMA SalvageStep ==
    ASSUME IInv, NEW n \in Runs, NEW g \in Gens, Salvage(n, g)
    PROVE  IInv' /\ KeepsEnds
<1>. DEFINE m == n + 1
            row == RevokedRow(m)
            new == QueuedRun(taskMax + row.grants, row.grants, run[m].refunds + 1)
<1>1. m \in Runs /\ m <= births /\ run[m].status = "CLAIMED"
  <2>1. n < births /\ run[m].status = "CLAIMED" BY DEF Salvage, InvalidatesClaim
  <2>2. n \in 1..MaxRuns /\ births \in 0..MaxRuns BY Facts DEF Runs
  <2>3. m \in 1..MaxRuns /\ m <= births BY <2>1, <2>2, RunsAssumption
  <2>. QED BY <2>1, <2>3 DEF Runs
<1>2. m = births BY <1>1, Statuses DEF IInv, OneOpenRun
<1>3. run[m].status \in Open BY <1>1, Statuses
<1>4. row \in RunRow /\ RowOK(row) /\ row.status = "CANCELLED"
  BY <1>1, <1>3, Facts, RevokedRowType
<1>5. OthersTyped' BY OthersStay DEF Salvage
<1>6. CASE /\ RefundGranted(m) /\ births < MaxRuns
           /\ run' = [run EXCEPT ![m] = row, ![m + 1] = new]
           /\ births' = births + 1 /\ UNCHANGED task
  <2>1. new \in RunRow /\ RowOK(new) /\ new.status = "QUEUED"
    <3>1. row.grants \in Nat /\ taskMax + row.grants \in Nat BY <1>4, Facts DEF RunRow
    <3>2. run[m].refunds + 1 \in 0..RefundCap
      BY <1>1, <1>6, Facts, CapsAssumption DEF RunRow, RefundGranted
    <3>. QED BY <3>1, <3>2, QueuedRunType
  <2>. DEFINE rest == [run EXCEPT ![m] = row]
  <2>. HIDE DEF new, row
  <2>2. run' = [rest EXCEPT ![births + 1] = new] BY <1>2, <1>6
  <2>3. rest \in [Runs -> RunRow] BY Facts, <1>4
  <2>4. \A k \in Runs : rest[k] = IF k = m THEN row ELSE run[k] BY Facts
  <2>5. \A k \in Runs : RowOK(rest[k]) /\ rest[k].status \notin Open
    BY <1>2, <1>4, <2>4, Facts, Statuses DEF IInv, OneOpenRun
  <2>6. \A k \in Runs : rest[k] = run[k] \/ (k <= births /\ run[k].status \in Open)
    BY <1>1, <1>3, <2>4
  <2>7. task' \in TaskStatus BY <1>6, Facts
  <2>. HIDE DEF rest
  <2>. QED BY <1>5, <1>6, <2>1, <2>2, <2>3, <2>5, <2>6, <2>7, BirthStep
<1>7. CASE run' = [run EXCEPT ![m] = row] /\ task' = "REVIEW" /\ UNCHANGED births
  <2>1. task' \in TaskStatus BY <1>7 DEF TaskStatus
  <2>. HIDE DEF row, m
  <2>. QED BY <1>1, <1>3, <1>4, <1>5, <1>7, <2>1, OneRowStep
<1>. QED BY <1>6, <1>7 DEF Salvage

LEMMA AnswerInboxStep ==
    ASSUME IInv, NEW n \in Runs, NEW q \in Gens, AnswerInbox(n, q)
    PROVE  IInv' /\ KeepsEnds
<1>. DEFINE row == [run[n] EXCEPT !.status = "QUEUED", !.token = 0, !.lease = FALSE,
                                  !.session = "REQUESTED", !.asking = 0,
                                  !.questions = run[n].questions \ {q}, !.lapsed = FALSE]
<1>1. run' = [run EXCEPT ![n] = row] /\ run[n].status = "WAITING_INBOX"
  BY Facts DEF AnswerInbox
<1>2. row \in RunRow
  <2>1. "QUEUED" \in RunStatus /\ "REQUESTED" \in SessionStatus BY Statuses
  <2>2. 0 \in 0..MaxGen BY RunsAssumption
  <2>3. run[n].questions \ {q} \in SUBSET Gens BY Facts DEF RunRow
  <2>. QED BY <2>1, <2>2, <2>3, Facts DEF RunRow
<1>3. RowOK(row) /\ row.status = "QUEUED" BY <1>1, Facts, Statuses DEF RowOK, RunRow
<1>4. births' = births /\ task' = task /\ task' \in TaskStatus /\ OthersTyped'
  BY Facts, OthersStay DEF AnswerInbox
<1>. HIDE DEF row
<1>. QED BY <1>1, <1>2, <1>3, <1>4, OneRowStep, Statuses

LEMMA CancelRunStep ==
    ASSUME IInv, NEW n \in Runs, NEW park \in BOOLEAN, CancelRun(n, park)
    PROVE  IInv' /\ KeepsEnds
<1>1. births' = births /\ OthersTyped' /\ run[n].status \in Open
  BY OthersStay DEF CancelRun
<1>2. CASE run[n].status = "QUEUED"
  <2>1. run' = [run EXCEPT ![n] = CancelledRow(run[n], TRUE)]
    BY <1>2 DEF CancelRun
  <2>2. task' \in TaskStatus /\ task' # "DOING"
    BY <1>2, CancelledTaskType DEF CancelRun, TaskStatus
  <2>3. /\ CancelledRow(run[n], TRUE) \in RunRow /\ RowOK(CancelledRow(run[n], TRUE))
        /\ CancelledRow(run[n], TRUE).status = "CANCELLED"
    BY <1>1, Facts, CancelledRowType
  <2>. QED BY <1>1, <2>1, <2>2, <2>3, OneRowStep
<1>3. CASE run[n].status # "QUEUED"
  <2>. DEFINE row == [run[n] EXCEPT !.cancel = "requested"]
  <2>1. run' = [run EXCEPT ![n] = row] BY <1>3 DEF CancelRun
  <2>2. row \in RunRow BY Facts DEF RunRow
  <2>3. row.status = run[n].status BY Facts DEF RunRow
  <2>4. RowOK(row) BY <1>1, Facts, Statuses DEF RowOK, RunRow
  <2>5. task' \in TaskStatus BY <1>3, Facts DEF CancelRun, TaskStatus
  <2>6. task' = "DOING" => task = "DOING" BY <1>3 DEF CancelRun
  <2>. HIDE DEF row
  <2>. QED BY <1>1, <2>1, <2>2, <2>3, <2>4, <2>5, <2>6, OneRowStep, Statuses
<1>. QED BY <1>2, <1>3

\* Start and Retry: every Run has ended, another one is born.
LEMMA OperatorBirth ==
    ASSUME IInv, UNCHANGED <<budget, external, sweep>>, ~HasActiveRun, births < MaxRuns,
           run' = [run EXCEPT ![births + 1] = QueuedRun(taskMax + PriorGrants, PriorGrants, PriorRefunds)],
           births' = births + 1, task' = "TODO"
    PROVE  IInv' /\ KeepsEnds
<1>. DEFINE new == QueuedRun(taskMax + PriorGrants, PriorGrants, PriorRefunds)
<1>1. PriorGrants \in Nat /\ PriorRefunds \in 0..RefundCap
  <2>1. CASE births = 0 BY <2>1, CapsAssumption DEF PriorGrants, PriorRefunds
  <2>2. CASE births # 0
    <3>1. births \in Runs BY <2>2, Facts DEF Runs
    <3>. QED BY <2>2, <3>1, Facts DEF PriorGrants, PriorRefunds, RunRow
  <2>. QED BY <2>1, <2>2
<1>2. new \in RunRow /\ RowOK(new) /\ new.status = "QUEUED"
  <2>1. taskMax + PriorGrants \in Nat BY <1>1, Facts
  <2>. QED BY <1>1, <2>1, QueuedRunType
<1>. HIDE DEF new
<1>3. \A m \in Runs : RowOK(run[m]) /\ run[m].status \notin Open BY Facts DEF HasActiveRun
<1>4. run' = [run EXCEPT ![births + 1] = new] BY DEF new
<1>5. task' \in TaskStatus /\ OthersTyped' /\ run \in [Runs -> RunRow]
  BY Facts, OthersStay DEF TaskStatus
<1>. QED BY <1>2, <1>3, <1>4, <1>5, BirthStep

LEMMA StartTaskStep == IInv /\ StartTask => IInv' /\ KeepsEnds
BY OperatorBirth DEF StartTask

LEMMA RetryTaskStep == IInv /\ RetryTask => IInv' /\ KeepsEnds
BY OperatorBirth DEF RetryTask

\* The handlers that write no row.
LEMMA TaskOnlyStep ==
    ASSUME IInv,
           \/ \E n \in Runs : ReplayCancelAndPark(n)
           \/ ParkOnSpendCap
           \/ MoveTask
           \/ \E max \in MinBudget..MaxBudget : SetBudget(max)
           \/ SweepRead
    PROVE  IInv' /\ KeepsEnds
<1>1. task' \in TaskStatus /\ UNCHANGED <<run, births>> /\ (task' = "DOING" => task = "DOING")
  BY Facts DEF ReplayCancelAndPark, ParkOnSpendCap, MoveTask, SetBudget, SweepRead, TaskStatus
<1>2. OthersTyped'
  <2>1. CASE UNCHANGED <<budget, external, sweep>> BY <2>1, OthersStay
  <2>2. CASE \E max \in MinBudget..MaxBudget : SetBudget(max)
    BY <2>2, Facts DEF SetBudget, OthersTyped, external, sweep
  <2>3. CASE SweepRead
    BY <2>3, Facts DEF SweepRead, OthersTyped, external, budget
  <2>. QED BY <2>1, <2>2, <2>3 DEF ReplayCancelAndPark, ParkOnSpendCap, MoveTask
<1>. QED BY <1>1, <1>2, NoRowStep

LEMMA SweepOrphanStep ==
    ASSUME IInv, NEW n \in Runs, SweepOrphan(n)
    PROVE  IInv' /\ KeepsEnds
<1>1. OthersTyped' BY Facts DEF SweepOrphan, OthersTyped, budget, external
<1>2. CASE UNCHANGED <<run, births, task>> BY <1>1, <1>2, Facts, NoRowStep
<1>3. CASE /\ LeaseGone(n) /\ task' = CancelledTask /\ UNCHANGED births
           /\ run' = [run EXCEPT ![n] = CancelledRow(run[n], FALSE)]
  <2>1. run[n].status \in Open BY <1>3, Statuses DEF LeaseGone
  <2>2. /\ CancelledRow(run[n], FALSE) \in RunRow /\ RowOK(CancelledRow(run[n], FALSE))
        /\ CancelledRow(run[n], FALSE).status = "CANCELLED"
    BY <2>1, Facts, CancelledRowType
  <2>. QED BY <1>1, <1>3, <2>1, <2>2, OneRowStep, CancelledTaskType
<1>4. CASE LeaseGone(n) /\ run[n].cancel = "none" /\ (LoseAndReopen(n) \/ LoseAndPark(n))
  <2>. DEFINE row == LostRow(n)
  <2>1. run[n].status \in Open BY <1>4, Statuses DEF LeaseGone
  <2>2. row \in RunRow /\ RowOK(row) /\ row.status = "LOST" BY <1>4, <2>1, Facts, LostRowType
  <2>. HIDE DEF row
  <2>3. CASE LoseAndPark(n)
    <3>1. run' = [run EXCEPT ![n] = row] /\ task' = "REVIEW" /\ births' = births
      BY <2>3 DEF LoseAndPark, row
    <3>2. task' \in TaskStatus BY <3>1 DEF TaskStatus
    <3>. QED BY <1>1, <2>1, <2>2, <3>1, <3>2, OneRowStep
  <2>4. CASE LoseAndReopen(n)
    <3>. DEFINE new == QueuedRun(run[n].max + 1, run[n].grants + 1, run[n].refunds + 1)
                rest == [run EXCEPT ![n] = row]
    <3>1. n = births /\ births < MaxRuns /\ births' = births + 1 /\ task' = "DOING"
      BY <2>4 DEF LoseAndReopen, RefundGranted
    <3>2. new \in RunRow /\ RowOK(new) /\ new.status = "QUEUED"
      <4>1. run[n].max + 1 \in Nat /\ run[n].grants + 1 \in Nat BY Facts DEF RunRow
      <4>2. run[n].refunds + 1 \in 0..RefundCap
        BY <2>4, Facts, CapsAssumption DEF RunRow, LoseAndReopen, RefundGranted
      <4>. QED BY <4>1, <4>2, QueuedRunType
    <3>. HIDE DEF new
    <3>3. run' = [rest EXCEPT ![births + 1] = new] BY <2>4, <3>1 DEF LoseAndReopen, row, new
    <3>4. rest \in [Runs -> RunRow] BY Facts, <2>2
    <3>5. \A m \in Runs : rest[m] = IF m = n THEN row ELSE run[m] BY Facts
    <3>6. \A m \in Runs : RowOK(rest[m]) /\ rest[m].status \notin Open
      BY <2>2, <3>1, <3>5, Facts, Statuses DEF IInv, OneOpenRun
    <3>7. \A m \in Runs : rest[m] = run[m] \/ (m <= births /\ run[m].status \in Open)
      BY <2>1, <3>1, <3>5, Facts
    <3>8. task' \in TaskStatus BY <3>1 DEF TaskStatus
    <3>. HIDE DEF rest
    <3>. QED BY <1>1, <3>1, <3>2, <3>3, <3>4, <3>6, <3>7, <3>8, BirthStep
  <2>. QED BY <1>4, <2>3, <2>4
<1>. QED BY <1>2, <1>3, <1>4 DEF SweepOrphan

LEMMA SweepExpiredStep ==
    ASSUME IInv, NEW n \in Runs, NEW q \in Gens, SweepExpired(n, q)
    PROVE  IInv' /\ KeepsEnds
<1>1. births' = births /\ OthersTyped'
  BY Facts DEF SweepExpired, OthersTyped, budget, external
<1>2. CASE run[n].status # "WAITING_INBOX"
  BY <1>1, <1>2, Facts, NoRowStep DEF SweepExpired
<1>3. CASE run[n].status = "WAITING_INBOX"
  <2>. DEFINE row == [run[n] EXCEPT !.status = "TIMED_OUT",
                          !.session = IF run[n].session = "WAITING_INBOX" THEN "TIMED_OUT"
                                      ELSE run[n].session,
                          !.questions = run[n].questions \ {q}, !.lapsed = FALSE]
  <2>1. run' = [run EXCEPT ![n] = row] BY <1>3 DEF SweepExpired
  <2>2. row \in RunRow
    <3>1. "TIMED_OUT" \in RunStatus /\ "TIMED_OUT" \in SessionStatus BY Statuses
    <3>2. run[n].questions \ {q} \in SUBSET Gens BY Facts DEF RunRow
    <3>. QED BY <3>1, <3>2, Facts DEF RunRow
  <2>3. RowOK(row) /\ row.status = "TIMED_OUT" BY <1>3, Facts, Statuses DEF RowOK, RunRow
  <2>4. task' = "REVIEW" /\ task' \in TaskStatus BY <1>3 DEF SweepExpired, TaskStatus
  <2>. HIDE DEF row
  <2>. QED BY <1>1, <1>3, <2>1, <2>2, <2>3, <2>4, OneRowStep, Statuses
<1>. QED BY <1>2, <1>3

LEMMA TimeStep ==
    ASSUME IInv, NEW n \in Runs, LeaseExpires(n) \/ HeartbeatStarves(n) \/ WindowLapses(n)
    PROVE  IInv' /\ KeepsEnds
<1>1. births' = births /\ task' = task /\ task' \in TaskStatus /\ OthersTyped'
  BY Facts, OthersStay DEF LeaseExpires, HeartbeatStarves, WindowLapses
<1>2. PICK row \in {[run[n] EXCEPT !.lease = FALSE], [run[n] EXCEPT !.beat = FALSE],
                    [run[n] EXCEPT !.lapsed = TRUE]} : run' = [run EXCEPT ![n] = row]
  BY Facts DEF LeaseExpires, HeartbeatStarves, WindowLapses
<1>3. row \in RunRow BY <1>2, Facts DEF RunRow
<1>4. RowOK(row) /\ row.status = run[n].status BY <1>2, Facts DEF RowOK, RunRow
<1>5. run[n].status \in Active
  BY Facts, Statuses DEF LeaseExpires, HeartbeatStarves, WindowLapses, RowOK
<1>. QED BY <1>1, <1>2, <1>3, <1>4, <1>5, OneRowStep, Statuses

-----------------------------------------------------------------------------
(***************************************************************************)
(* The theorems.                                                           *)
(***************************************************************************)

LEMMA InitInvariant == Init => IInv
<1>. SUFFICES ASSUME Init PROVE IInv OBVIOUS
<1>1. \A n \in Runs : run[n] \in RunRow /\ RowOK(run[n]) /\ run[n].status = "NONE"
  BY NoRunType DEF Init
<1>2. run \in [Runs -> RunRow] BY <1>1, NoRunType DEF Init
<1>3. TypeOK BY <1>2, RunsAssumption, CapsAssumption, BudgetAssumption DEF Init, TypeOK, TaskStatus
<1>4. RowsOK /\ OneOpenRun /\ Unborn BY <1>1, Statuses DEF Init, RowsOK, OneOpenRun, Unborn
<1>5. DoingHasOpenRun BY DEF Init, DoingHasOpenRun
<1>. QED BY <1>3, <1>4, <1>5 DEF IInv

LEMMA NextInvariant == IInv /\ [Next]_vars => IInv' /\ [KeepsEnds]_vars
<1>. SUFFICES ASSUME IInv, [Next]_vars PROVE IInv' /\ [KeepsEnds]_vars OBVIOUS
<1>1. CASE RunnerNext
  BY <1>1, ClaimRunStep, SettleQueuedCandidateStep, StartRunStep, HeartbeatRunStep,
     SuspendForInboxStep, CompleteRunStep, AcknowledgeCancellationStep, SalvageStep
  DEF RunnerNext
<1>2. CASE OperatorNext
  BY <1>2, AnswerInboxStep, CancelRunStep, StartTaskStep, RetryTaskStep, TaskOnlyStep
  DEF OperatorNext
<1>3. CASE SweepNext
  BY <1>3, TaskOnlyStep, SweepOrphanStep, SweepExpiredStep DEF SweepNext
<1>4. CASE TimeNext BY <1>4, TimeStep DEF TimeNext
<1>5. CASE UNCHANGED vars
  BY <1>5 DEF vars, IInv, TypeOK, RowsOK, OneOpenRun, Unborn, DoingHasOpenRun, RowOK
<1>. QED BY <1>1, <1>2, <1>3, <1>4, <1>5 DEF Next

\* IInv holds in every reachable state of the Run kernel.
THEOREM Invariant == Spec => []IInv
BY InitInvariant, NextInvariant, PTL DEF Spec

\* Every column of Run, Session and Task keeps its type.
THEOREM TypeCorrect == Spec => []TypeOK
BY Invariant, PTL DEF IInv

\* Run births exclude each other: at most one Run of the Task is open, and it
\* is the latest, although openRun itself never looks for an open one.
THEOREM OneRunAtATime == Spec => []OneOpenRun
BY Invariant, PTL DEF IInv

\* Whoever passes the lease fence holds the last claim of a claimed Run.
THEOREM LeaseBelongsToLastClaim == Spec => []LeaseIsCurrentClaim
<1>1. IInv => LeaseIsCurrentClaim BY DEF IInv, RowsOK, RowOK, LeaseIsCurrentClaim
<1>. QED BY <1>1, Invariant, PTL

\* No ticket that a suspension or a re-claim superseded records a result.
THEOREM ResultBelongsToLastClaim == Spec => []ResultIsFromLastClaim
<1>1. IInv => ResultIsFromLastClaim BY DEF IInv, RowsOK, RowOK, ResultIsFromLastClaim
<1>. QED BY <1>1, Invariant, PTL

\* A suspended Run always has its question open, so a human can resume it.
THEOREM SuspensionIsAnswerable == Spec => []SuspendedIsAnswerable
<1>1. IInv => SuspendedIsAnswerable BY DEF IInv, RowsOK, RowOK, SuspendedIsAnswerable
<1>. QED BY <1>1, Invariant, PTL

\* No completion and no lease loss overtakes a requested cancellation.
THEOREM CancellationStops == Spec => []CancelledNeverCompletes
<1>1. IInv => CancelledNeverCompletes BY DEF IInv, RowsOK, RowOK, CancelledNeverCompletes
<1>. QED BY <1>1, Invariant, PTL

\* No outcome of any handler leaves the Task in DOING with nobody at work.
THEOREM NeverStranded == Spec => []DoingHasOpenRun
BY Invariant, PTL DEF IInv

\* Both together: at most one Run is open, the latest, and DOING implies it.
THEOREM TaskAndRunsAgree == Spec => []TaskHasItsRun
<1>1. IInv => TaskHasItsRun BY DEF IInv, TaskHasItsRun
<1>. QED BY <1>1, Invariant, PTL

\* No handler, however late, rewrites the way a Run ended.
THEOREM EndsAreFinal == Spec => TerminalIsFinal
BY Invariant, NextInvariant, PTL DEF Spec, TerminalIsFinal, KeepsEnds

-----------------------------------------------------------------------------
(***************************************************************************)
(* RunLifecycle implements RunAuthority: every step of the Run kernel is a *)
(* grant, a revocation, the recording of a result, or invisible.  A claim  *)
(* grants, a completion records; every other handler at most takes the     *)
(* lease of the only claimed Run away (KeepsClaims).                       *)
(***************************************************************************)
Holding(row) == row.lease /\ row.cancel = "none"

\* What a row keeps in a step that neither claims nor completes its Run.
SameClaim(row, new) ==
    /\ new.gen = row.gen
    /\ new.author = row.author
    /\ Holding(new) => Holding(row) /\ new.token = row.token

KeepsClaims == \A m \in Runs : SameClaim(run[m], run'[m])

AuthorityStep == [Authority!AuthorityNext]_(Authority!authorityVars)

-----------------------------------------------------------------------------
\* Only the latest Run can hold authority.
LEMMA OneHolder ==
    ASSUME IInv, NEW m \in Runs, Holding(run[m])
    PROVE  m = births /\ run[m].status \in Claimed /\ run[m].author = 0
BY Facts, Statuses DEF Holding, RowOK, IInv, OneOpenRun

LEMMA KeepsClaimsRefines ==
    ASSUME IInv, KeepsClaims
    PROVE  AuthorityStep
<1>1. Issued' = Issued BY DEF Issued, KeepsClaims, SameClaim
<1>2. Recorded' = Recorded BY DEF Recorded, KeepsClaims, SameClaim
<1>3. Holders' \subseteq Holders BY DEF Holders, KeepsClaims, SameClaim, Holding
<1>4. \A t, u \in Holders : t = u BY OneHolder DEF Holders, Holding
<1>5. Holders' = Holders \/ (Holders # {} /\ Holders' = {}) BY <1>3, <1>4
<1>6. CASE Holders' = Holders
  BY <1>1, <1>2, <1>6 DEF AuthorityStep, Authority!authorityVars
<1>7. CASE Holders # {} /\ Holders' = {}
  BY <1>1, <1>2, <1>7 DEF AuthorityStep, Authority!AuthorityNext, Authority!Revoke
<1>. QED BY <1>5, <1>6, <1>7

\* The steps that write one row without claiming or completing its Run.
LEMMA OneRowKeeps ==
    ASSUME IInv, NEW n \in Runs, NEW row, run' = [run EXCEPT ![n] = row], SameClaim(run[n], row)
    PROVE  KeepsClaims
<1>1. \A m \in Runs : run'[m] = IF m = n THEN row ELSE run[m] BY Facts
<1>2. \A m \in Runs : SameClaim(run[m], run[m]) BY DEF SameClaim
<1>. QED BY <1>1, <1>2 DEF KeepsClaims

\* The births: an ended row at most loses its lease, the new row has no claim.
LEMMA BirthKeeps ==
    ASSUME IInv, births < MaxRuns, NEW rest \in [Runs -> RunRow],
           \A m \in Runs : SameClaim(run[m], rest[m]),
           NEW row, row.gen = 0, row.author = 0, row.lease = FALSE,
           run' = [rest EXCEPT ![births + 1] = row]
    PROVE  KeepsClaims
<1>1. births + 1 \in Runs /\ run[births + 1] = NoRun
  BY Facts, RunsAssumption DEF IInv, Unborn, Runs
<1>2. \A m \in Runs : run'[m] = IF m = births + 1 THEN row ELSE rest[m] BY <1>1
<1>3. SameClaim(NoRun, row) BY DEF SameClaim, NoRun, Holding
<1>. QED BY <1>1, <1>2, <1>3 DEF KeepsClaims

LEMMA QueuedRunHasNoClaim ==
    ASSUME NEW max, NEW grants, NEW refunds
    PROVE  LET row == QueuedRun(max, grants, refunds)
           IN  row.gen = 0 /\ row.author = 0 /\ row.lease = FALSE
BY DEF QueuedRun, NoRun

LEMMA CancelledRowKeeps ==
    ASSUME NEW row \in RunRow, NEW confirmed \in BOOLEAN
    PROVE  SameClaim(row, CancelledRow(row, confirmed))
BY DEF SameClaim, CancelledRow, Holding, RunRow

LEMMA LostRowKeeps ==
    ASSUME NEW n \in Runs, run[n] \in RunRow
    PROVE  SameClaim(run[n], LostRow(n)) /\ SameClaim(run[n], RevokedRow(n))
<1>. DEFINE r == Refund(run[n], RefundGranted(n))
<1>1. r \in RunRow /\ r.author = run[n].author /\ r.gen = run[n].gen
  <2>1. RefundGranted(n) \in BOOLEAN BY DEF RefundGranted
  <2>2. r \in RunRow /\ r.author = run[n].author BY <2>1, RefundType
  <2>3. r.gen = run[n].gen BY DEF Refund, RunRow
  <2>. QED BY <2>2, <2>3
<1>2. /\ LostRow(n) = [r EXCEPT !.status = "LOST", !.lease = FALSE, !.beat = FALSE, !.session = "LOST"]
      /\ RevokedRow(n) = [r EXCEPT !.status = "CANCELLED", !.lease = FALSE,
                                   !.beat = FALSE, !.session = "CANCELLED"]
  BY DEF LostRow, RevokedRow
<1>. HIDE DEF r
<1>. QED BY <1>1, <1>2 DEF SameClaim, Holding, RunRow

-----------------------------------------------------------------------------
(***************************************************************************)
(* The handlers that keep claims.                                          *)
(***************************************************************************)
LEMMA RunnerKeeps ==
    ASSUME IInv, NEW n \in Runs, NEW g \in Gens,
           \/ SettleQueuedCandidate(n)
           \/ StartRun(n, g)
           \/ HeartbeatRun(n, g)
           \/ SuspendForInbox(n, g)
           \/ AcknowledgeCancellation(n, g)
    PROVE  KeepsClaims
<1>1. CASE SettleQueuedCandidate(n)
  <2>. DEFINE row == [run[n] EXCEPT !.status = "FAILED"]
  <2>1. run' = [run EXCEPT ![n] = row] BY <1>1, Facts DEF SettleQueuedCandidate
  <2>2. SameClaim(run[n], row) BY Facts DEF SameClaim, Holding, RunRow
  <2>. QED BY <2>1, <2>2, OneRowKeeps
<1>2. CASE StartRun(n, g)
  <2>. DEFINE row == [run[n] EXCEPT !.status = "RUNNING", !.started = TRUE, !.session = "RUNNING"]
  <2>1. run' = [run EXCEPT ![n] = row] BY <1>2, Facts DEF StartRun
  <2>2. SameClaim(run[n], row) BY Facts DEF SameClaim, Holding, RunRow
  <2>. QED BY <2>1, <2>2, OneRowKeeps
<1>3. CASE HeartbeatRun(n, g)
  <2>. DEFINE row == [run[n] EXCEPT !.beat = TRUE]
  <2>1. run' = [run EXCEPT ![n] = row] BY <1>3, Facts DEF HeartbeatRun
  <2>2. SameClaim(run[n], row) BY Facts DEF SameClaim, Holding, RunRow
  <2>. QED BY <2>1, <2>2, OneRowKeeps
<1>4. CASE SuspendForInbox(n, g)
  <2>. DEFINE row == [run[n] EXCEPT !.status = "WAITING_INBOX", !.lease = FALSE,
                                    !.session = "WAITING_INBOX", !.asking = g,
                                    !.questions = run[n].questions \union {g}, !.beat = FALSE]
  <2>1. run' = [run EXCEPT ![n] = row] BY <1>4, Facts DEF SuspendForInbox
  <2>2. SameClaim(run[n], row) BY Facts DEF SameClaim, Holding, RunRow
  <2>. QED BY <2>1, <2>2, OneRowKeeps
<1>5. CASE AcknowledgeCancellation(n, g)
  <2>. DEFINE row == [run[n] EXCEPT !.cancel = "acknowledged"]
  <2>1. \/ run' = [run EXCEPT ![n] = row]
        \/ run' = [run EXCEPT ![n] = CancelledRow(run[n], TRUE)]
    BY <1>5, Facts DEF AcknowledgeCancellation
  <2>2. SameClaim(run[n], row) BY Facts DEF SameClaim, Holding, RunRow
  <2>3. SameClaim(run[n], CancelledRow(run[n], TRUE)) BY Facts, CancelledRowKeeps
  <2>. HIDE DEF row
  <2>. QED BY <2>1, <2>2, <2>3, OneRowKeeps
<1>. QED BY <1>1, <1>2, <1>3, <1>4, <1>5

LEMMA SalvageKeeps ==
    ASSUME IInv, NEW n \in Runs, NEW g \in Gens, Salvage(n, g)
    PROVE  KeepsClaims
<1>. DEFINE m == n + 1
            row == RevokedRow(m)
            new == QueuedRun(taskMax + row.grants, row.grants, run[m].refunds + 1)
<1>1. m \in Runs /\ m = births
  <2>1. n < births /\ run[m].status = "CLAIMED" BY DEF Salvage, InvalidatesClaim
  <2>2. n \in 1..MaxRuns /\ births \in 0..MaxRuns BY Facts DEF Runs
  <2>3. m \in 1..MaxRuns /\ m <= births BY <2>1, <2>2, RunsAssumption
  <2>. QED BY <2>1, <2>3, Statuses DEF Runs, IInv, OneOpenRun
<1>2. SameClaim(run[m], row) BY <1>1, Facts, LostRowKeeps
<1>3. CASE run' = [run EXCEPT ![m] = row]
  <2>. HIDE DEF row, m
  <2>. QED BY <1>1, <1>2, <1>3, OneRowKeeps
<1>4. CASE births < MaxRuns /\ run' = [run EXCEPT ![m] = row, ![m + 1] = new]
  <2>. DEFINE rest == [run EXCEPT ![m] = row]
  <2>1. new.gen = 0 /\ new.author = 0 /\ new.lease = FALSE BY QueuedRunHasNoClaim
  <2>2. row \in RunRow
    <3>1. run[m].status \in Open
      BY Statuses DEF Salvage, InvalidatesClaim
    <3>. QED BY <1>1, <3>1, Facts, RevokedRowType
  <2>. HIDE DEF row, new
  <2>3. rest \in [Runs -> RunRow] BY <2>2, Facts
  <2>4. \A k \in Runs : SameClaim(run[k], rest[k]) BY <1>2, Facts DEF SameClaim
  <2>5. run' = [rest EXCEPT ![births + 1] = new] BY <1>1, <1>4
  <2>. HIDE DEF rest
  <2>. QED BY <1>4, <2>1, <2>3, <2>4, <2>5, BirthKeeps
<1>. QED BY <1>3, <1>4 DEF Salvage

LEMMA OperatorKeeps ==
    ASSUME IInv, OperatorNext
    PROVE  KeepsClaims
<1>1. ASSUME NEW n \in Runs, NEW q \in Gens, AnswerInbox(n, q) PROVE KeepsClaims
  <2>. DEFINE row == [run[n] EXCEPT !.status = "QUEUED", !.token = 0, !.lease = FALSE,
                                    !.session = "REQUESTED", !.asking = 0,
                                    !.questions = run[n].questions \ {q}, !.lapsed = FALSE]
  <2>1. run' = [run EXCEPT ![n] = row] BY <1>1, Facts DEF AnswerInbox
  <2>2. SameClaim(run[n], row) BY Facts DEF SameClaim, Holding, RunRow
  <2>. QED BY <2>1, <2>2, OneRowKeeps
<1>2. ASSUME NEW n \in Runs, NEW park \in BOOLEAN, CancelRun(n, park) PROVE KeepsClaims
  <2>. DEFINE row == [run[n] EXCEPT !.cancel = "requested"]
  <2>1. \/ run' = [run EXCEPT ![n] = row]
        \/ run' = [run EXCEPT ![n] = CancelledRow(run[n], TRUE)]
    BY <1>2, Facts DEF CancelRun
  <2>2. SameClaim(run[n], row) BY Facts DEF SameClaim, Holding, RunRow
  <2>3. SameClaim(run[n], CancelledRow(run[n], TRUE)) BY Facts, CancelledRowKeeps
  <2>. HIDE DEF row
  <2>. QED BY <2>1, <2>2, <2>3, OneRowKeeps
<1>3. CASE StartTask \/ RetryTask
  <2>. DEFINE new == QueuedRun(taskMax + PriorGrants, PriorGrants, PriorRefunds)
  <2>1. births < MaxRuns /\ run' = [run EXCEPT ![births + 1] = new] BY <1>3 DEF StartTask, RetryTask
  <2>2. new.gen = 0 /\ new.author = 0 /\ new.lease = FALSE BY QueuedRunHasNoClaim
  <2>3. \A m \in Runs : SameClaim(run[m], run[m]) BY DEF SameClaim
  <2>. HIDE DEF new
  <2>. QED BY <2>1, <2>2, <2>3, Facts, BirthKeeps
<1>4. CASE UNCHANGED run BY <1>4 DEF KeepsClaims, SameClaim
<1>. QED
  BY <1>1, <1>2, <1>3, <1>4 DEF OperatorNext, ReplayCancelAndPark, ParkOnSpendCap, MoveTask, SetBudget

LEMMA SweepKeeps ==
    ASSUME IInv, SweepNext
    PROVE  KeepsClaims
<1>1. ASSUME NEW n \in Runs, NEW q \in Gens, SweepExpired(n, q) PROVE KeepsClaims
  <2>. DEFINE row == [run[n] EXCEPT !.status = "TIMED_OUT",
                          !.session = IF run[n].session = "WAITING_INBOX" THEN "TIMED_OUT"
                                      ELSE run[n].session,
                          !.questions = run[n].questions \ {q}, !.lapsed = FALSE]
  <2>1. run' = [run EXCEPT ![n] = row] \/ run' = run BY <1>1, Facts DEF SweepExpired
  <2>2. SameClaim(run[n], row) BY Facts DEF SameClaim, Holding, RunRow
  <2>3. run' = run => KeepsClaims BY DEF KeepsClaims, SameClaim
  <2>. HIDE DEF row
  <2>. QED BY <2>1, <2>2, <2>3, OneRowKeeps
<1>2. ASSUME NEW n \in Runs, SweepOrphan(n) PROVE KeepsClaims
  <2>1. CASE UNCHANGED run BY <2>1 DEF KeepsClaims, SameClaim
  <2>2. CASE run' = [run EXCEPT ![n] = CancelledRow(run[n], FALSE)]
    BY <2>2, Facts, CancelledRowKeeps, OneRowKeeps
  <2>3. SameClaim(run[n], LostRow(n)) BY Facts, LostRowKeeps
  <2>4. CASE run' = [run EXCEPT ![n] = LostRow(n)] BY <2>3, <2>4, OneRowKeeps
  <2>5. CASE LeaseGone(n) /\ run[n].cancel = "none" /\ LoseAndReopen(n)
    <3>. DEFINE new == QueuedRun(run[n].max + 1, run[n].grants + 1, run[n].refunds + 1)
                rest == [run EXCEPT ![n] = LostRow(n)]
    <3>1. n = births /\ births < MaxRuns BY <2>5 DEF LoseAndReopen, RefundGranted
    <3>2. LostRow(n) \in RunRow
      <4>1. run[n].status \in Open BY <2>5, Statuses DEF LeaseGone
      <4>. QED BY <2>5, <4>1, Facts, LostRowType
    <3>3. new.gen = 0 /\ new.author = 0 /\ new.lease = FALSE BY QueuedRunHasNoClaim
    <3>. HIDE DEF new
    <3>4. rest \in [Runs -> RunRow] BY <3>2, Facts
    <3>5. \A k \in Runs : SameClaim(run[k], rest[k]) BY <2>3, Facts DEF SameClaim
    <3>6. run' = [rest EXCEPT ![births + 1] = new] BY <2>5, <3>1 DEF LoseAndReopen, new
    <3>. HIDE DEF rest
    <3>. QED BY <3>1, <3>3, <3>4, <3>5, <3>6, BirthKeeps
  <2>. QED BY <1>2, <2>1, <2>2, <2>4, <2>5 DEF SweepOrphan, LoseAndPark
<1>. QED BY <1>1, <1>2 DEF SweepNext, SweepRead, KeepsClaims, SameClaim

LEMMA TimeKeeps ==
    ASSUME IInv, TimeNext
    PROVE  KeepsClaims
<1>1. PICK n \in Runs : LeaseExpires(n) \/ HeartbeatStarves(n) \/ WindowLapses(n) BY DEF TimeNext
<1>2. PICK row \in {[run[n] EXCEPT !.lease = FALSE], [run[n] EXCEPT !.beat = FALSE],
                    [run[n] EXCEPT !.lapsed = TRUE]} : run' = [run EXCEPT ![n] = row]
  BY <1>1, Facts DEF LeaseExpires, HeartbeatStarves, WindowLapses
<1>3. SameClaim(run[n], row) BY <1>2, Facts DEF SameClaim, Holding, RunRow
<1>. QED BY <1>2, <1>3, OneRowKeeps

-----------------------------------------------------------------------------
(***************************************************************************)
(* A claim is a grant, a completion a record.                              *)
(***************************************************************************)
LEMMA ClaimGrants ==
    ASSUME IInv, NEW n \in Runs, ClaimRun(n)
    PROVE  AuthorityStep
<1>. DEFINE t == <<n, run[n].gen + 1>>
            row == [run[n] EXCEPT !.status = "CLAIMED", !.gen = run[n].gen + 1,
                                  !.token = run[n].gen + 1, !.lease = TRUE,
                                  !.beat = TRUE, !.session = "PROVISIONING"]
<1>1. /\ run' = [run EXCEPT ![n] = row] /\ run[n].status = "QUEUED"
      /\ run[n].gen \in 0..MaxGen /\ run[n].gen < MaxGen
      /\ \A m \in Runs : run[m].status \notin Active
  BY Facts DEF ClaimRun, Claimable, RunRow
<1>2. /\ row.gen = run[n].gen + 1 /\ row.token = run[n].gen + 1
      /\ row.author = run[n].author /\ row.cancel = run[n].cancel
  BY Facts DEF RunRow
<1>. HIDE DEF row
<1>3. \A m \in Runs : run'[m] = IF m = n THEN row ELSE run[m] BY <1>1, Facts
<1>4. t \in Runs \X Gens /\ run[n].gen + 1 \in Nat BY <1>1, RunsAssumption DEF Gens
<1>5. n = births /\ run[n].author = 0
  BY <1>1, Facts, Statuses DEF IInv, OneOpenRun, RowOK
<1>6. \A m \in Runs : ~Holding(run[m])
  BY <1>1, Facts, Statuses DEF Holding, RowOK
<1>7. Holders = {} BY <1>6 DEF Holders, Holding
<1>8. \A m \in Runs : m > n => run[m].gen = 0 BY <1>5 DEF IInv, Unborn, NoRun
<1>9. \A u \in Issued : Authority!Later(t, u)
  <2>. SUFFICES ASSUME NEW u \in Issued PROVE Authority!Later(t, u) OBVIOUS
  <2>1. /\ u[1] \in 1..MaxRuns /\ u[2] \in 1..MaxGen /\ u[2] <= run[u[1]].gen
        /\ n \in 1..MaxRuns
    BY DEF Issued, Runs, Gens
  <2>2. u[1] <= n BY <1>8, <2>1, RunsAssumption DEF Runs
  <2>3. u[1] = n => n = u[1] /\ run[n].gen + 1 > u[2] BY <1>1, <2>1, RunsAssumption
  <2>. QED BY <2>1, <2>2, <2>3, RunsAssumption DEF Authority!Later
<1>10. \A u \in Recorded : u[1] # t[1] BY <1>5 DEF Recorded
<1>11. Issued' = Issued \union {t}
  <2>1. ASSUME NEW u \in Runs \X Gens
        PROVE  u[2] <= run'[u[1]].gen <=> u[2] <= run[u[1]].gen \/ u = t
    <3>1. u = <<u[1], u[2]>> /\ u[1] \in Runs /\ u[2] \in 1..MaxGen BY DEF Gens
    <3>2. CASE u[1] # n BY <1>3, <3>1, <3>2
    <3>3. CASE u[1] = n
      <4>1. u[2] <= run[n].gen + 1 <=> u[2] <= run[n].gen \/ u[2] = run[n].gen + 1
        BY <1>1, <3>1, RunsAssumption
      <4>. QED BY <1>2, <1>3, <3>1, <3>3, <4>1
    <3>. QED BY <3>2, <3>3
  <2>. QED BY <2>1, <1>4 DEF Issued
<1>12. Recorded' = Recorded BY <1>2, <1>3 DEF Recorded
<1>13. Holders' \in {{t}, {}}
  <2>1. \A m \in Runs : run'[m].lease /\ run'[m].cancel = "none" => m = n
    BY <1>3, <1>6 DEF Holding
  <2>2. run'[n].token = run[n].gen + 1 BY <1>2, <1>3
  <2>. QED BY <2>1, <2>2 DEF Holders
<1>14. Authority!Grant(t)
  BY <1>7, <1>9, <1>10, <1>11, <1>12, <1>13 DEF Authority!Grant
<1>. QED BY <1>4, <1>14 DEF AuthorityStep, Authority!AuthorityNext

LEMMA CompletionRecords ==
    ASSUME IInv, NEW n \in Runs, NEW g \in Gens, CompleteRun(n, g)
    PROVE  AuthorityStep
<1>. DEFINE t == <<n, g>>
<1>1. Fenced(n, g, Active) BY DEF CompleteRun
<1>2. /\ Holding(run[n]) /\ run[n].token = g /\ n = births
      /\ run[n].author = 0 /\ run[n].gen = g
  BY <1>1, OneHolder, Facts DEF Fenced, Holding, RowOK
<1>3. PICK v \in Verdicts, grant \in {0, 1} :
        \/ run' = [run EXCEPT ![n] = CompletedRow(n, g, v, grant)]
        \/ /\ births < MaxRuns
           /\ run' = [run EXCEPT ![n] = CompletedRow(n, g, v, grant),
                                 ![n + 1] = QueuedRun(run[n].max + grant, run[n].grants + grant,
                                                      run[n].refunds)]
  BY DEF CompleteRun
<1>. DEFINE row == CompletedRow(n, g, v, grant)
<1>4. row.gen = g /\ row.author = g /\ row.lease = FALSE
  BY <1>2, Facts DEF CompletedRow, RunRow
<1>. HIDE DEF row
<1>5. ASSUME NEW m \in Runs
      PROVE  /\ run'[m].gen = run[m].gen
             /\ run'[m].author = IF m = n THEN g ELSE run[m].author
             /\ run'[m].lease => m # n /\ run[m].lease /\ run'[m].cancel = run[m].cancel
  <2>1. CASE run' = [run EXCEPT ![n] = row]
    <3>1. run'[m] = IF m = n THEN row ELSE run[m] BY <2>1, Facts
    <3>. QED BY <1>2, <1>4, <3>1
  <2>2. CASE /\ births < MaxRuns
             /\ run' = [run EXCEPT ![n] = row,
                                   ![n + 1] = QueuedRun(run[n].max + grant, run[n].grants + grant,
                                                        run[n].refunds)]
    <3>. DEFINE new == QueuedRun(run[n].max + grant, run[n].grants + grant, run[n].refunds)
    <3>1. new.gen = 0 /\ new.author = 0 /\ new.lease = FALSE BY DEF QueuedRun, NoRun
    <3>. HIDE DEF new
    <3>2. births + 1 \in Runs /\ run[births + 1] = NoRun
      BY <2>2, Facts, RunsAssumption DEF IInv, Unborn, Runs
    <3>3. run'[m] = IF m = births + 1 THEN new ELSE IF m = n THEN row ELSE run[m]
      BY <1>2, <2>2, <3>2, Facts DEF new
    <3>4. births + 1 # n BY <1>2, Facts
    <3>. QED BY <1>2, <1>4, <3>1, <3>2, <3>3, <3>4 DEF NoRun
  <2>. QED BY <1>3, <2>1, <2>2 DEF row
<1>6. t \in Holders BY <1>2 DEF Holders, Holding
<1>7. Holders' = {}
  <2>1. \A m \in Runs : run'[m].lease /\ run'[m].cancel = "none" => Holding(run[m]) /\ m # n
    BY <1>5 DEF Holding
  <2>2. \A m \in Runs : ~(run'[m].lease /\ run'[m].cancel = "none") BY <1>2, <2>1, OneHolder
  <2>. QED BY <2>2 DEF Holders
<1>8. Issued' = Issued BY <1>5 DEF Issued
<1>9. Recorded' = Recorded \union {t}
  <2>1. g # 0 BY RunsAssumption DEF Gens
  <2>. QED BY <1>2, <1>5, <2>1 DEF Recorded
<1>10. Authority!Record(t) BY <1>6, <1>7, <1>8, <1>9 DEF Authority!Record
<1>. QED BY <1>10 DEF AuthorityStep, Authority!AuthorityNext

-----------------------------------------------------------------------------
LEMMA InitRefines == Init => Authority!AuthorityInit
<1>. SUFFICES ASSUME Init PROVE Authority!AuthorityInit OBVIOUS
<1>1. \A m \in Runs : run[m].lease = FALSE /\ run[m].gen = 0 /\ run[m].author = 0
  BY DEF Init, NoRun
<1>2. \A g \in Gens : ~(g <= 0) BY RunsAssumption DEF Gens
<1>. QED BY <1>1, <1>2 DEF Authority!AuthorityInit, Holders, Issued, Recorded

LEMMA NextRefines == IInv /\ [Next]_vars => AuthorityStep
<1>. SUFFICES ASSUME IInv, [Next]_vars PROVE AuthorityStep OBVIOUS
<1>1. CASE RunnerNext
  <2>1. 1 \in Gens BY RunsAssumption DEF Gens
  <2>2. PICK n \in Runs, g \in Gens :
            \/ ClaimRun(n) \/ CompleteRun(n, g) \/ Salvage(n, g)
            \/ SettleQueuedCandidate(n) \/ StartRun(n, g) \/ HeartbeatRun(n, g)
            \/ SuspendForInbox(n, g) \/ AcknowledgeCancellation(n, g)
    BY <1>1, <2>1 DEF RunnerNext
  <2>3. ClaimRun(n) \/ CompleteRun(n, g) => AuthorityStep BY ClaimGrants, CompletionRecords
  <2>4. Salvage(n, g) => KeepsClaims BY SalvageKeeps
  <2>5. SettleQueuedCandidate(n) \/ StartRun(n, g) \/ HeartbeatRun(n, g)
           \/ SuspendForInbox(n, g) \/ AcknowledgeCancellation(n, g) => KeepsClaims
    BY RunnerKeeps
  <2>. QED BY <2>2, <2>3, <2>4, <2>5, KeepsClaimsRefines
<1>2. CASE OperatorNext BY <1>2, OperatorKeeps, KeepsClaimsRefines
<1>3. CASE SweepNext BY <1>3, SweepKeeps, KeepsClaimsRefines
<1>4. CASE TimeNext BY <1>4, TimeKeeps, KeepsClaimsRefines
<1>5. CASE UNCHANGED vars
  <2>1. KeepsClaims BY <1>5 DEF vars, KeepsClaims, SameClaim
  <2>. QED BY <2>1, KeepsClaimsRefines
<1>. QED BY <1>1, <1>2, <1>3, <1>4, <1>5 DEF Next

\* The Run kernel implements the abstract authority: under any delayed,
\* repeated or lost call at most one ticket of the Task may write, none that
\* ever lost that right regains it, and only the holder records a result.
THEOREM AuthorityImplemented == Spec => AuthorityRefined
<1>1. Init => Authority!AuthorityInit BY InitRefines
<1>2. IInv /\ [Next]_vars => [Authority!AuthorityNext]_(Authority!authorityVars)
  BY NextRefines DEF AuthorityStep
<1>. QED BY <1>1, <1>2, Invariant, PTL DEF Spec, AuthorityRefined, Authority!AuthoritySpec

-----------------------------------------------------------------------------
(***************************************************************************)
(* The interface.  Each row implements RunInterface, the part of the       *)
(* control plane a runner relies on.  A call writes the row it names, and  *)
(* with it at most the latest one or the row after it, and a row that      *)
(* nobody claimed yet looks the same as one not born, so each action       *)
(* comes down to the move of one or two rows.                              *)
(***************************************************************************)
RowSeen(m) == [Seen(m)!RowNext]_(Seen(m)!rowVars)

SameRequest(m) == run'[m].cancel # "none" <=> run[m].cancel # "none"

\* What a runner sees of a row that keeps its types.
LEMMA SeenIs ==
    ASSUME NEW row, RowOK(row), row.status \in RunStatus
    PROVE  /\ row.status \in {"NONE", "QUEUED"} => StatusSeen(row) = "QUEUED" /\ ~Lapsed(row)
           /\ row.status \in Claimed => StatusSeen(row) = "CLAIMED"
           /\ row.status = "WAITING_INBOX" => StatusSeen(row) = "WAITING_INBOX" /\ ~Lapsed(row)
           /\ row.status \in Terminal => ~Lapsed(row)
           /\ row.status \in Terminal /\ row.author = 0 => StatusSeen(row) = "ENDED"
           /\ row.status \in Terminal /\ row.author # 0 => StatusSeen(row) = "COMPLETED"
           /\ row.status \notin Terminal => row.author = 0
           /\ row.lease => row.status \in Claimed /\ ~Lapsed(row)
BY Statuses DEF StatusSeen, Lapsed, RowOK

\* Nothing a runner could see.
LEMMA SameSeen ==
    ASSUME NEW m \in Runs, StatusSeen(run'[m]) = StatusSeen(run[m]),
           run'[m].gen = run[m].gen, SameRequest(m), Lapsed(run'[m]) <=> Lapsed(run[m])
    PROVE  RowSeen(m)
<1>1. (run'[m].cancel # "none") = (run[m].cancel # "none") BY DEF SameRequest
<1>2. Lapsed(run'[m]) = Lapsed(run[m]) BY DEF Lapsed
<1>3. UNCHANGED Seen(m)!rowVars BY <1>1, <1>2, Zenon DEF Seen!rowVars
<1>. QED BY <1>3 DEF RowSeen

\* A claimed or suspended Run goes elsewhere.
LEMMA MoveSeen ==
    ASSUME NEW n \in Runs, run'[n].gen = run[n].gen, SameRequest(n), ~Lapsed(run'[n]),
           NEW from, NEW to, StatusSeen(run[n]) = from, StatusSeen(run'[n]) = to,
           \/ /\ from = "CLAIMED" /\ to \in {"WAITING_INBOX", "COMPLETED"}
              /\ ~Lapsed(run[n]) /\ run[n].cancel = "none"
           \/ from = "WAITING_INBOX" /\ to = "QUEUED"
           \/ from \in {"CLAIMED", "WAITING_INBOX"} /\ to = "ENDED"
    PROVE  RowSeen(n)
<1>1. (run'[n].cancel # "none") = (run[n].cancel # "none") BY DEF SameRequest
<1>2. Lapsed(run'[n]) = FALSE BY DEF Lapsed
<1>3. from \in {"CLAIMED", "WAITING_INBOX"} => Seen(n)!Moves({from}, to)
  BY <1>1, <1>2 DEF Seen!Moves
<1>4. CASE from = "CLAIMED" /\ to \in {"WAITING_INBOX", "COMPLETED"}
           /\ ~Lapsed(run[n]) /\ run[n].cancel = "none"
  BY <1>3, <1>4
  DEF RowSeen, Seen!RowNext, Seen!RunnerMoves, Seen!Suspended, Seen!Completed, Seen!Writable
<1>5. CASE from = "WAITING_INBOX" /\ to = "QUEUED"
  BY <1>3, <1>5 DEF RowSeen, Seen!RowNext, Seen!OthersMove, Seen!Answered
<1>6. CASE from \in {"CLAIMED", "WAITING_INBOX"} /\ to = "ENDED"
  BY <1>3, <1>6 DEF RowSeen, Seen!RowNext, Seen!OthersMove, Seen!Unanswered, Seen!Revoked
<1>. QED BY <1>4, <1>5, <1>6

\* A queued Run is claimed, or ends.
LEMMA ClaimSeen ==
    ASSUME NEW n \in Runs, StatusSeen(run[n]) = "QUEUED", StatusSeen(run'[n]) = "CLAIMED",
           run'[n].gen = run[n].gen + 1, ~Lapsed(run'[n]), SameRequest(n)
    PROVE  RowSeen(n)
<1>1. (run'[n].cancel # "none") = (run[n].cancel # "none") BY DEF SameRequest
<1>2. Lapsed(run'[n]) = FALSE BY DEF Lapsed
<1>. QED BY <1>1, <1>2 DEF RowSeen, Seen!RowNext, Seen!RunnerMoves, Seen!Claimed

LEMMA DismissSeen ==
    ASSUME NEW n \in Runs, StatusSeen(run[n]) = "QUEUED", StatusSeen(run'[n]) = "ENDED",
           run'[n].gen = run[n].gen, ~Lapsed(run[n]), ~Lapsed(run'[n]),
           SameRequest(n) \/ run'[n].cancel # "none"
    PROVE  RowSeen(n)
<1>1. (run'[n].cancel # "none") \in {run[n].cancel # "none", TRUE} BY DEF SameRequest
<1>2. Lapsed(run'[n]) = Lapsed(run[n]) BY DEF Lapsed
<1>. QED BY <1>1, <1>2 DEF RowSeen, Seen!RowNext, Seen!OthersMove, Seen!Dismissed

\* A cancellation is requested; a lease runs out.
LEMMA CancelSeen ==
    ASSUME NEW n \in Runs, StatusSeen(run[n]) \in {"CLAIMED", "WAITING_INBOX"},
           StatusSeen(run'[n]) = StatusSeen(run[n]), run'[n].gen = run[n].gen,
           run[n].cancel = "none", run'[n].cancel # "none", Lapsed(run'[n]) <=> Lapsed(run[n])
    PROVE  RowSeen(n)
<1>1. (run'[n].cancel # "none") = TRUE OBVIOUS
<1>2. Lapsed(run'[n]) = Lapsed(run[n]) BY DEF Lapsed
<1>. QED BY <1>1, <1>2 DEF RowSeen, Seen!RowNext, Seen!OthersMove, Seen!CancelRequested

LEMMA LapseSeen ==
    ASSUME NEW n \in Runs, StatusSeen(run[n]) = "CLAIMED", StatusSeen(run'[n]) = "CLAIMED",
           run'[n].gen = run[n].gen, SameRequest(n), ~Lapsed(run[n]), Lapsed(run'[n])
    PROVE  RowSeen(n)
<1>1. (run'[n].cancel # "none") = (run[n].cancel # "none") BY DEF SameRequest
<1>2. Lapsed(run'[n]) = TRUE BY DEF Lapsed
<1>. QED BY <1>1, <1>2 DEF RowSeen, Seen!RowNext, Seen!OthersMove, Seen!LeaseLapsed

\* A handler moves one row; others are born at most.
Birth(m) == run[m] = NoRun /\ \E max, grants, refunds : run'[m] = QueuedRun(max, grants, refunds)

LEMMA BirthSeen ==
    ASSUME NEW m \in Runs, Birth(m)
    PROVE  RowSeen(m)
<1>1. /\ run[m].status = "NONE" /\ run'[m].status = "QUEUED"
      /\ run[m].gen = 0 /\ run'[m].gen = 0
      /\ run[m].cancel = "none" /\ run'[m].cancel = "none"
  BY DEF Birth, NoRun, QueuedRun
<1>2. /\ StatusSeen(run[m]) = "QUEUED" /\ StatusSeen(run'[m]) = "QUEUED"
      /\ ~Lapsed(run[m]) /\ ~Lapsed(run'[m])
  BY <1>1 DEF StatusSeen, Lapsed, Claimed
<1>. QED BY <1>1, <1>2, SameSeen DEF SameRequest

LEMMA OneRowSeen ==
    ASSUME NEW n \in Runs, RowSeen(n), \A m \in Runs \ {n} : run'[m] = run[m] \/ Birth(m)
    PROVE  \A m \in Runs : RowSeen(m)
<1>. SUFFICES ASSUME NEW m \in Runs, m # n PROVE RowSeen(m) OBVIOUS
<1>1. CASE run'[m] = run[m] BY <1>1, SameSeen DEF SameRequest
<1>2. CASE Birth(m) BY <1>2, BirthSeen
<1>. QED BY <1>1, <1>2

\* A handler that writes row n alone.
Wrote(n, row) == run' = [run EXCEPT ![n] = row]

LEMMA SeenBoth ==
    ASSUME IInv, IInv', NEW m \in Runs
    PROVE  /\ RowOK(run[m]) /\ run[m].status \in RunStatus
           /\ RowOK(run'[m]) /\ run'[m].status \in RunStatus
BY DEF IInv, TypeOK, RowsOK, RunRow

LEMMA WroteSeen ==
    ASSUME IInv, NEW n \in Runs, NEW row, Wrote(n, row), RowSeen(n)
    PROVE  \A m \in Runs : RowSeen(m)
<1>1. \A m \in Runs \ {n} : run'[m] = run[m] BY Facts DEF Wrote
<1>. QED BY <1>1, OneRowSeen

\* A cancellation that settles the Run: of its runner, the operator or the sweep.
LEMMA CancelledSeen ==
    ASSUME IInv, IInv', NEW n \in Runs, NEW confirmed \in BOOLEAN,
           Wrote(n, CancelledRow(run[n], confirmed)), run[n].status \in Open,
           run[n].cancel # "none" \/ run[n].status = "QUEUED"
    PROVE  \A m \in Runs : RowSeen(m)
<1>. DEFINE row == CancelledRow(run[n], confirmed)
<1>1. /\ row.status = "CANCELLED" /\ row.gen = run[n].gen /\ row.cancel # "none"
      /\ row.author = run[n].author
  BY Facts DEF CancelledRow, RunRow
<1>. HIDE DEF row
<1>2. run'[n] = row BY Facts DEF Wrote, row
<1>3. run[n].author = 0 /\ StatusSeen(run'[n]) = "ENDED" /\ ~Lapsed(run'[n])
  BY <1>1, <1>2, SeenBoth, SeenIs, Statuses
<1>4. CASE run[n].status = "QUEUED"
  <2>1. StatusSeen(run[n]) = "QUEUED" /\ ~Lapsed(run[n]) BY <1>4, SeenBoth, SeenIs
  <2>2. RowSeen(n) BY <1>1, <1>2, <1>3, <2>1, DismissSeen
  <2>. QED BY <2>2, WroteSeen
<1>5. CASE run[n].status # "QUEUED" /\ run[n].cancel # "none"
  <2>1. StatusSeen(run[n]) \in {"CLAIMED", "WAITING_INBOX"}
    BY <1>5, SeenBoth, SeenIs, Statuses
  <2>2. RowSeen(n) BY <1>1, <1>2, <1>3, <1>5, <2>1, MoveSeen DEF SameRequest
  <2>. QED BY <2>2, WroteSeen
<1>. QED BY <1>4, <1>5

LEMMA ClaimRunSeen ==
    ASSUME IInv, IInv', NEW n \in Runs, ClaimRun(n)
    PROVE  \A m \in Runs : RowSeen(m)
<1>. DEFINE row == [run[n] EXCEPT !.status = "CLAIMED", !.gen = run[n].gen + 1,
                                  !.token = run[n].gen + 1, !.lease = TRUE,
                                  !.beat = TRUE, !.session = "PROVISIONING"]
<1>1. Wrote(n, row) /\ run[n].status = "QUEUED"
  BY Facts DEF ClaimRun, Claimable, Wrote
<1>2. /\ row.status = "CLAIMED" /\ row.gen = run[n].gen + 1 /\ row.lease = TRUE
      /\ row.cancel = run[n].cancel
  BY Facts DEF RunRow
<1>. HIDE DEF row
<1>3. run'[n] = row BY <1>1, Facts DEF Wrote
<1>4. RowSeen(n) BY <1>1, <1>2, <1>3, SeenBoth, SeenIs, Statuses, ClaimSeen DEF SameRequest
<1>. QED BY <1>1, <1>4, WroteSeen

\* The other handlers of a claim.
LEMMA RunnerSeen ==
    ASSUME IInv, IInv', NEW n \in Runs, NEW g \in Gens,
           \/ SettleQueuedCandidate(n)
           \/ StartRun(n, g)
           \/ HeartbeatRun(n, g)
           \/ SuspendForInbox(n, g)
           \/ AcknowledgeCancellation(n, g)
    PROVE  \A m \in Runs : RowSeen(m)
<1>1. CASE SettleQueuedCandidate(n)
  <2>. DEFINE row == [run[n] EXCEPT !.status = "FAILED"]
  <2>1. Wrote(n, row) /\ run[n].status = "QUEUED"
    BY <1>1, Facts DEF SettleQueuedCandidate, Claimable, Wrote
  <2>2. /\ row.status = "FAILED" /\ row.gen = run[n].gen /\ row.cancel = run[n].cancel
        /\ row.author = run[n].author
    BY Facts DEF RunRow
  <2>. HIDE DEF row
  <2>3. run'[n] = row BY <2>1, Facts DEF Wrote
  <2>4. RowSeen(n) BY <2>1, <2>2, <2>3, SeenBoth, SeenIs, Statuses, DismissSeen DEF SameRequest
  <2>. QED BY <2>1, <2>4, WroteSeen
<1>2. CASE StartRun(n, g)
  <2>. DEFINE row == [run[n] EXCEPT !.status = "RUNNING", !.started = TRUE, !.session = "RUNNING"]
  <2>1. Wrote(n, row) /\ run[n].status = "CLAIMED" /\ run[n].lease
    BY <1>2, Facts DEF StartRun, Fenced, Wrote
  <2>2. /\ row.status = "RUNNING" /\ row.gen = run[n].gen /\ row.cancel = run[n].cancel
        /\ row.lease = run[n].lease
    BY Facts DEF RunRow
  <2>. HIDE DEF row
  <2>3. run'[n] = row BY <2>1, Facts DEF Wrote
  <2>4. RowSeen(n) BY <2>1, <2>2, <2>3, SeenBoth, SeenIs, Statuses, SameSeen DEF SameRequest
  <2>. QED BY <2>1, <2>4, WroteSeen
<1>3. CASE HeartbeatRun(n, g)
  <2>. DEFINE row == [run[n] EXCEPT !.beat = TRUE]
  <2>1. Wrote(n, row) /\ run[n].lease
    BY <1>3, Facts DEF HeartbeatRun, Fenced, Wrote
  <2>2. /\ row.status = run[n].status /\ row.gen = run[n].gen /\ row.cancel = run[n].cancel
        /\ row.lease = run[n].lease
    BY Facts DEF RunRow
  <2>. HIDE DEF row
  <2>3. run'[n] = row BY <2>1, Facts DEF Wrote
  <2>4. RowSeen(n) BY <2>1, <2>2, <2>3, SeenBoth, SeenIs, Statuses, SameSeen DEF SameRequest
  <2>. QED BY <2>1, <2>4, WroteSeen
<1>4. CASE SuspendForInbox(n, g)
  <2>. DEFINE row == [run[n] EXCEPT !.status = "WAITING_INBOX", !.lease = FALSE,
                                    !.session = "WAITING_INBOX", !.asking = g,
                                    !.questions = run[n].questions \union {g}, !.beat = FALSE]
  <2>1. Wrote(n, row) /\ run[n].status \in Claimed /\ run[n].lease /\ run[n].cancel = "none"
    BY <1>4, Facts DEF SuspendForInbox, Fenced, Wrote
  <2>2. row.status = "WAITING_INBOX" /\ row.gen = run[n].gen /\ row.cancel = run[n].cancel
    BY Facts DEF RunRow
  <2>. HIDE DEF row
  <2>3. run'[n] = row BY <2>1, Facts DEF Wrote
  <2>4. /\ StatusSeen(run[n]) = "CLAIMED" /\ ~Lapsed(run[n])
        /\ StatusSeen(run'[n]) = "WAITING_INBOX" /\ ~Lapsed(run'[n])
    BY <2>1, <2>2, <2>3, SeenBoth, SeenIs
  <2>5. RowSeen(n) BY <2>1, <2>2, <2>3, <2>4, MoveSeen DEF SameRequest
  <2>. QED BY <2>1, <2>5, WroteSeen
<1>5. CASE AcknowledgeCancellation(n, g)
  <2>. DEFINE row == [run[n] EXCEPT !.cancel = "acknowledged"]
  <2>1. run[n].cancel # "none" BY <1>5 DEF AcknowledgeCancellation
  <2>2. CASE Wrote(n, row)
    <3>1. /\ row.status = run[n].status /\ row.gen = run[n].gen /\ row.cancel # "none"
          /\ row.lease = run[n].lease /\ row.author = run[n].author
      BY Facts DEF RunRow
    <3>. HIDE DEF row
    <3>2. run'[n] = row BY <2>2, Facts DEF Wrote
    <3>3. RowSeen(n) BY <2>1, <3>1, <3>2, SameSeen DEF SameRequest, StatusSeen, Lapsed
    <3>. QED BY <2>2, <3>3, WroteSeen
  <2>3. CASE Wrote(n, CancelledRow(run[n], TRUE)) /\ run[n].status \in Open
    BY <2>1, <2>3, CancelledSeen
  <2>. QED BY <1>5, <2>2, <2>3, Facts DEF AcknowledgeCancellation, Wrote
<1>. QED BY <1>1, <1>2, <1>3, <1>4, <1>5

\* A completion is the only move to COMPLETED: its lease stood, nobody had asked
\* to cancel, and it leaves an author.
LEMMA CompleteRunSeen ==
    ASSUME IInv, IInv', NEW n \in Runs, NEW g \in Gens, CompleteRun(n, g)
    PROVE  \A m \in Runs : RowSeen(m)
<1>1. /\ run[n].lease /\ run[n].cancel = "none" /\ run[n].status \in Claimed /\ n = births
      /\ g # 0
  <2>1. run[n].lease /\ run[n].cancel = "none" BY DEF CompleteRun, Fenced
  <2>. QED BY <2>1, OneHolder, RunsAssumption DEF Holding, Gens
<1>2. PICK v \in Verdicts, grant \in {0, 1} :
        \/ run' = [run EXCEPT ![n] = CompletedRow(n, g, v, grant)]
        \/ /\ births < MaxRuns
           /\ run' = [run EXCEPT ![n] = CompletedRow(n, g, v, grant),
                                 ![n + 1] = QueuedRun(run[n].max + grant, run[n].grants + grant,
                                                      run[n].refunds)]
  BY DEF CompleteRun
<1>. DEFINE row == CompletedRow(n, g, v, grant)
            new == QueuedRun(run[n].max + grant, run[n].grants + grant, run[n].refunds)
<1>3. /\ row.status = v.status /\ row.gen = run[n].gen /\ row.cancel = run[n].cancel
      /\ row.author = g
  BY Facts DEF CompletedRow, RunRow
<1>4. v.status \in Terminal BY Statuses DEF Verdicts
<1>5. Birth(births + 1) \/ run' = [run EXCEPT ![n] = row]
  <2>1. CASE births < MaxRuns
    <3>1. births + 1 \in Runs /\ run[births + 1] = NoRun
      BY <2>1, Facts, RunsAssumption DEF IInv, Unborn, Runs
    <3>. QED BY <1>1, <1>2, <3>1, Facts DEF Birth
  <2>. QED BY <1>2, <2>1
<1>. HIDE DEF row
<1>6. run'[n] = row /\ \A m \in Runs \ {n} : run'[m] = run[m] \/ Birth(m)
  <2>1. n + 1 # n BY <1>1, Facts
  <2>2. CASE run' = [run EXCEPT ![n] = row] BY <2>2, Facts
  <2>3. CASE run' = [run EXCEPT ![n] = row, ![n + 1] = new] /\ Birth(births + 1)
    BY <1>1, <2>1, <2>3, Facts
  <2>. QED BY <1>2, <1>5, <2>2, <2>3 DEF row
<1>7. /\ StatusSeen(run[n]) = "CLAIMED" /\ ~Lapsed(run[n])
      /\ StatusSeen(run'[n]) = "COMPLETED" /\ ~Lapsed(run'[n])
  BY <1>1, <1>3, <1>4, <1>6, SeenBoth, SeenIs
<1>8. RowSeen(n) BY <1>1, <1>3, <1>6, <1>7, MoveSeen DEF SameRequest
<1>. QED BY <1>6, <1>8, OneRowSeen

\* A row that a lost lease or a salvage ends is seen to end.
LEMMA LostSeen ==
    ASSUME IInv, IInv', NEW m \in Runs, run[m].status \in Claimed,
           run'[m] = LostRow(m) \/ run'[m] = RevokedRow(m)
    PROVE  RowSeen(m)
<1>. DEFINE r == Refund(run[m], RefundGranted(m))
<1>1. r \in RunRow /\ r.author = run[m].author /\ r.cancel = run[m].cancel /\ r.gen = run[m].gen
  <2>1. RefundGranted(m) \in BOOLEAN BY DEF RefundGranted
  <2>2. r \in RunRow /\ r.author = run[m].author /\ r.cancel = run[m].cancel
    BY <2>1, Facts, RefundType
  <2>3. r.gen = run[m].gen BY Facts DEF Refund, RunRow
  <2>. QED BY <2>2, <2>3
<1>2. /\ LostRow(m) = [r EXCEPT !.status = "LOST", !.lease = FALSE, !.beat = FALSE, !.session = "LOST"]
      /\ RevokedRow(m) = [r EXCEPT !.status = "CANCELLED", !.lease = FALSE,
                                   !.beat = FALSE, !.session = "CANCELLED"]
  BY DEF LostRow, RevokedRow
<1>. HIDE DEF r
<1>3. /\ run'[m].status \in {"LOST", "CANCELLED"} /\ run'[m].gen = run[m].gen
      /\ run'[m].cancel = run[m].cancel /\ run'[m].author = run[m].author
  <2>1. CASE run'[m] = LostRow(m) BY <2>1, <1>1, <1>2 DEF RunRow
  <2>2. CASE run'[m] = RevokedRow(m) BY <2>2, <1>1, <1>2 DEF RunRow
  <2>. QED BY <2>1, <2>2
<1>4. run[m].author = 0 /\ StatusSeen(run[m]) = "CLAIMED"
      /\ StatusSeen(run'[m]) = "ENDED" /\ ~Lapsed(run'[m])
  BY <1>3, SeenBoth, SeenIs, Statuses
<1>. QED BY <1>3, <1>4, MoveSeen DEF SameRequest

LEMMA SalvageSeen ==
    ASSUME IInv, IInv', NEW n \in Runs, NEW g \in Gens, Salvage(n, g)
    PROVE  \A k \in Runs : RowSeen(k)
<1>. DEFINE m == n + 1
            row == RevokedRow(m)
            new == QueuedRun(taskMax + row.grants, row.grants, run[m].refunds + 1)
<1>1. m \in Runs /\ m = births /\ run[m].status \in Claimed
  <2>1. n < births /\ run[m].status = "CLAIMED" BY DEF Salvage, InvalidatesClaim
  <2>2. n \in 1..MaxRuns /\ births \in 0..MaxRuns BY Facts DEF Runs
  <2>3. m \in 1..MaxRuns /\ m <= births BY <2>1, <2>2, RunsAssumption
  <2>. QED BY <2>1, <2>3, Statuses DEF Runs, IInv, OneOpenRun
<1>. HIDE DEF m
<1>2. CASE run' = [run EXCEPT ![m] = row]
  <2>1. run'[m] = row /\ \A k \in Runs \ {m} : run'[k] = run[k] BY <1>1, <1>2, Facts
  <2>. QED BY <1>1, <2>1, LostSeen, OneRowSeen
<1>3. CASE births < MaxRuns /\ run' = [run EXCEPT ![m] = row, ![m + 1] = new]
  <2>1. m + 1 \in Runs /\ run[m + 1] = NoRun /\ m + 1 # m
    BY <1>1, <1>3, Facts, RunsAssumption DEF IInv, Unborn, Runs
  <2>2. /\ run'[m] = row /\ run'[m + 1] = new
        /\ \A k \in Runs \ {m, m + 1} : run'[k] = run[k]
    BY <1>1, <1>3, <2>1, Facts
  <2>3. Birth(m + 1) BY <2>1, <2>2 DEF Birth
  <2>. QED BY <1>1, <2>2, <2>3, LostSeen, OneRowSeen
<1>. QED BY <1>2, <1>3 DEF Salvage, m

LEMMA OperatorSeen ==
    ASSUME IInv, IInv', OperatorNext
    PROVE  \A m \in Runs : RowSeen(m)
<1>1. ASSUME NEW n \in Runs, NEW q \in Gens, AnswerInbox(n, q)
      PROVE  \A m \in Runs : RowSeen(m)
  <2>. DEFINE row == [run[n] EXCEPT !.status = "QUEUED", !.token = 0, !.lease = FALSE,
                                    !.session = "REQUESTED", !.asking = 0,
                                    !.questions = run[n].questions \ {q}, !.lapsed = FALSE]
  <2>1. Wrote(n, row) /\ run[n].status = "WAITING_INBOX" BY <1>1, Facts DEF AnswerInbox, Wrote
  <2>2. row.status = "QUEUED" /\ row.gen = run[n].gen /\ row.cancel = run[n].cancel
    BY Facts DEF RunRow
  <2>. HIDE DEF row
  <2>3. run'[n] = row BY <2>1, Facts DEF Wrote
  <2>4. RowSeen(n) BY <2>1, <2>2, <2>3, SeenBoth, SeenIs, MoveSeen DEF SameRequest
  <2>. QED BY <2>1, <2>4, WroteSeen
<1>2. ASSUME NEW n \in Runs, NEW park \in BOOLEAN, CancelRun(n, park)
      PROVE  \A m \in Runs : RowSeen(m)
  <2>. DEFINE row == [run[n] EXCEPT !.cancel = "requested"]
  <2>1. run[n].cancel = "none" /\ run[n].status \in Open BY <1>2 DEF CancelRun
  <2>2. CASE run[n].status = "QUEUED"
    <3>1. Wrote(n, CancelledRow(run[n], TRUE)) BY <1>2, <2>2, Facts DEF CancelRun, Wrote
    <3>. QED BY <2>1, <2>2, <3>1, CancelledSeen
  <2>3. CASE run[n].status # "QUEUED"
    <3>1. Wrote(n, row) BY <1>2, <2>3, Facts DEF CancelRun, Wrote
    <3>2. /\ row.status = run[n].status /\ row.gen = run[n].gen /\ row.cancel = "requested"
          /\ row.lease = run[n].lease /\ row.author = run[n].author
      BY Facts DEF RunRow
    <3>. HIDE DEF row
    <3>3. run'[n] = row BY <3>1, Facts DEF Wrote
    <3>4. /\ StatusSeen(run[n]) \in {"CLAIMED", "WAITING_INBOX"}
          /\ StatusSeen(run'[n]) = StatusSeen(run[n]) /\ (Lapsed(run'[n]) <=> Lapsed(run[n]))
      <4>1. StatusSeen(run[n]) \in {"CLAIMED", "WAITING_INBOX"}
        BY <2>1, <2>3, SeenBoth, SeenIs, Statuses
      <4>. QED BY <3>2, <3>3, <4>1 DEF StatusSeen, Lapsed
    <3>5. RowSeen(n) BY <2>1, <3>2, <3>3, <3>4, CancelSeen
    <3>. QED BY <3>1, <3>5, WroteSeen
  <2>. QED BY <2>2, <2>3
<1>3. CASE StartTask \/ RetryTask
  <2>1. /\ births < MaxRuns
        /\ run' = [run EXCEPT ![births + 1] = QueuedRun(taskMax + PriorGrants, PriorGrants, PriorRefunds)]
    BY <1>3 DEF StartTask, RetryTask
  <2>2. births + 1 \in Runs /\ run[births + 1] = NoRun
    BY <2>1, Facts, RunsAssumption DEF IInv, Unborn, Runs
  <2>3. Birth(births + 1) /\ \A m \in Runs \ {births + 1} : run'[m] = run[m]
    BY <2>1, <2>2, Facts DEF Birth
  <2>. QED BY <2>2, <2>3, BirthSeen, OneRowSeen
<1>4. CASE UNCHANGED run BY <1>4, SameSeen DEF SameRequest
<1>. QED
  BY <1>1, <1>2, <1>3, <1>4 DEF OperatorNext, ReplayCancelAndPark, ParkOnSpendCap, MoveTask, SetBudget

LEMMA SweepSeen ==
    ASSUME IInv, IInv', SweepNext
    PROVE  \A m \in Runs : RowSeen(m)
<1>1. ASSUME NEW n \in Runs, NEW q \in Gens, SweepExpired(n, q)
      PROVE  \A m \in Runs : RowSeen(m)
  <2>. DEFINE row == [run[n] EXCEPT !.status = "TIMED_OUT",
                          !.session = IF run[n].session = "WAITING_INBOX" THEN "TIMED_OUT"
                                      ELSE run[n].session,
                          !.questions = run[n].questions \ {q}, !.lapsed = FALSE]
  <2>1. (run[n].status = "WAITING_INBOX" /\ Wrote(n, row)) \/ run' = run
    BY <1>1, Facts DEF SweepExpired, Wrote
  <2>2. /\ row.status = "TIMED_OUT" /\ row.gen = run[n].gen /\ row.cancel = run[n].cancel
        /\ row.author = run[n].author
    BY Facts DEF RunRow
  <2>. HIDE DEF row
  <2>3. CASE run[n].status = "WAITING_INBOX" /\ Wrote(n, row)
    <3>1. run'[n] = row BY <2>3, Facts DEF Wrote
    <3>2. /\ StatusSeen(run[n]) = "WAITING_INBOX" /\ StatusSeen(run'[n]) = "ENDED"
          /\ ~Lapsed(run'[n])
      BY <2>2, <2>3, <3>1, SeenBoth, SeenIs, Statuses
    <3>3. RowSeen(n) BY <2>2, <3>1, <3>2, MoveSeen DEF SameRequest
    <3>. QED BY <2>3, <3>3, WroteSeen
  <2>4. CASE run' = run BY <2>4, SameSeen DEF SameRequest
  <2>. QED BY <2>1, <2>3, <2>4
<1>2. ASSUME NEW n \in Runs, SweepOrphan(n)
      PROVE  \A m \in Runs : RowSeen(m)
  <2>1. CASE UNCHANGED run BY <2>1, SameSeen DEF SameRequest
  <2>2. CASE LeaseGone(n) /\ run[n].cancel # "none" /\ Wrote(n, CancelledRow(run[n], FALSE))
    <3>1. run[n].status \in Open BY <2>2, Statuses DEF LeaseGone
    <3>. QED BY <2>2, <3>1, CancelledSeen
  <2>3. CASE LeaseGone(n) /\ LoseAndPark(n)
    <3>1. run'[n] = LostRow(n) /\ \A m \in Runs \ {n} : run'[m] = run[m]
      BY <2>3, Facts DEF LoseAndPark
    <3>. QED BY <2>3, <3>1, LostSeen, OneRowSeen DEF LeaseGone
  <2>4. CASE LeaseGone(n) /\ LoseAndReopen(n)
    <3>. DEFINE new == QueuedRun(run[n].max + 1, run[n].grants + 1, run[n].refunds + 1)
    <3>1. /\ n = births /\ births < MaxRuns
          /\ run' = [run EXCEPT ![n] = LostRow(n), ![n + 1] = new]
      BY <2>4 DEF LoseAndReopen, RefundGranted
    <3>2. n + 1 \in Runs /\ run[n + 1] = NoRun /\ n + 1 # n
      BY <3>1, Facts, RunsAssumption DEF IInv, Unborn, Runs
    <3>. HIDE DEF new
    <3>3. /\ run'[n] = LostRow(n) /\ run'[n + 1] = new
          /\ \A k \in Runs \ {n, n + 1} : run'[k] = run[k]
      BY <3>1, <3>2, Facts
    <3>4. Birth(n + 1) BY <3>2, <3>3 DEF Birth, new
    <3>. QED BY <2>4, <3>3, <3>4, LostSeen, OneRowSeen DEF LeaseGone
  <2>. QED BY <1>2, <2>1, <2>2, <2>3, <2>4 DEF SweepOrphan, Wrote
<1>3. CASE UNCHANGED run BY <1>3, SameSeen DEF SameRequest
<1>. QED BY <1>1, <1>2, <1>3 DEF SweepNext, SweepRead

LEMMA TimeSeen ==
    ASSUME IInv, IInv', TimeNext
    PROVE  \A m \in Runs : RowSeen(m)
<1>1. PICK n \in Runs : LeaseExpires(n) \/ HeartbeatStarves(n) \/ WindowLapses(n) BY DEF TimeNext
<1>2. CASE LeaseExpires(n)
  <2>. DEFINE row == [run[n] EXCEPT !.lease = FALSE]
  <2>1. Wrote(n, row) /\ run[n].lease BY <1>2, Facts DEF LeaseExpires, Wrote
  <2>2. /\ row.status = run[n].status /\ row.gen = run[n].gen /\ row.cancel = run[n].cancel
        /\ ~row.lease
    BY Facts DEF RunRow
  <2>. HIDE DEF row
  <2>3. run'[n] = row BY <2>1, Facts DEF Wrote
  <2>4. /\ StatusSeen(run[n]) = "CLAIMED" /\ StatusSeen(run'[n]) = "CLAIMED"
        /\ ~Lapsed(run[n]) /\ Lapsed(run'[n])
    BY <2>1, <2>2, <2>3, SeenBoth, SeenIs DEF Lapsed
  <2>5. RowSeen(n) BY <2>2, <2>3, <2>4, LapseSeen DEF SameRequest
  <2>. QED BY <2>1, <2>5, WroteSeen
<1>3. CASE HeartbeatStarves(n) \/ WindowLapses(n)
  <2>1. PICK row \in {[run[n] EXCEPT !.beat = FALSE], [run[n] EXCEPT !.lapsed = TRUE]} : Wrote(n, row)
    BY <1>3, Facts DEF HeartbeatStarves, WindowLapses, Wrote
  <2>2. /\ row.status = run[n].status /\ row.gen = run[n].gen /\ row.cancel = run[n].cancel
        /\ row.lease = run[n].lease /\ row.author = run[n].author
    BY Facts DEF RunRow
  <2>3. run'[n] = row BY <2>1, Facts DEF Wrote
  <2>4. RowSeen(n) BY <2>2, <2>3, SameSeen DEF SameRequest, StatusSeen, Lapsed
  <2>. QED BY <2>1, <2>4, WroteSeen
<1>. QED BY <1>1, <1>2, <1>3

LEMMA NextSeen ==
    ASSUME IInv, IInv', [Next]_vars
    PROVE  \A m \in Runs : RowSeen(m)
<1>1. CASE RunnerNext
  <2>1. 1 \in Gens BY RunsAssumption DEF Gens
  <2>2. PICK n \in Runs, g \in Gens :
            \/ ClaimRun(n) \/ CompleteRun(n, g) \/ Salvage(n, g)
            \/ SettleQueuedCandidate(n) \/ StartRun(n, g) \/ HeartbeatRun(n, g)
            \/ SuspendForInbox(n, g) \/ AcknowledgeCancellation(n, g)
    BY <1>1, <2>1 DEF RunnerNext
  <2>3. CASE ClaimRun(n) BY <2>3, ClaimRunSeen
  <2>4. CASE CompleteRun(n, g) BY <2>4, CompleteRunSeen
  <2>5. CASE Salvage(n, g) BY <2>5, SalvageSeen
  <2>. QED BY <2>2, <2>3, <2>4, <2>5, RunnerSeen
<1>2. CASE OperatorNext BY <1>2, OperatorSeen
<1>3. CASE SweepNext BY <1>3, SweepSeen
<1>4. CASE TimeNext BY <1>4, TimeSeen
<1>5. CASE UNCHANGED vars BY <1>5, SameSeen DEF vars, SameRequest
<1>. QED BY <1>1, <1>2, <1>3, <1>4, <1>5 DEF Next

\* Each row of the kernel behaves as RunInterface tells the runner it does, for
\* every number of Runs and claims and whatever the operator, the sweep, late
\* calls and the births of other Runs do.
THEOREM InterfaceIsKept == Spec => InterfaceKept
<1>1. Init => \A n \in Runs : Seen(n)!RowInit
  <2>. SUFFICES ASSUME Init, NEW n \in Runs PROVE Seen(n)!RowInit OBVIOUS
  <2>1. run[n] = NoRun BY DEF Init
  <2>2. /\ run[n].status = "NONE" /\ run[n].gen = 0 /\ run[n].cancel = "none"
    BY <2>1 DEF NoRun
  <2>3. StatusSeen(run[n]) = "QUEUED" /\ Lapsed(run[n]) = FALSE
    BY <2>2 DEF StatusSeen, Lapsed, Claimed
  <2>. QED BY <2>2, <2>3 DEF Seen!RowInit
<1>2. IInv /\ [Next]_vars => [\A n \in Runs : [Seen(n)!RowNext]_(Seen(n)!rowVars)]_run
  <2>. SUFFICES ASSUME IInv, [Next]_vars PROVE \A m \in Runs : RowSeen(m) BY DEF RowSeen
  <2>1. IInv' BY NextInvariant
  <2>. QED BY <2>1, NextSeen
<1>. QED BY <1>1, <1>2, Invariant, PTL DEF Spec, InterfaceKept


-----------------------------------------------------------------------------
(***************************************************************************)
(* The budget.  A refund is recorded on the latest Run and every birth     *)
(* carries the grants of its predecessor on, so three facts travel with    *)
(* the rows: grants never shrink from one Run to the next, what the latest *)
(* row was granted is covered by what has been taken back or refunded so   *)
(* far, and its ceiling is a budget the Task once had plus its grants.     *)
(* The rest is arithmetic: a birth below the latest ceiling, or one that   *)
(* takes a claim back, is paid for.                                        *)
(***************************************************************************)

\* What pays for Runs beyond the configured budget.
Spent == Cardinality(TakenBack) + capped + uncapped

GrantsGrow ==
    \A m, n \in Runs : m <= n /\ n <= births => run[m].grants <= run[n].grants

\* The replacement of a started Run was within its ceiling when it was born; a
\* replacement a salvage queued need not be, but the Run it follows never started.
RoomKept == \A n \in Runs : n < births /\ run[n].started => n + 1 <= run[n + 1].max

LatestPaid ==
    births > 0 => /\ run[births].grants <= Spent
                  /\ run[births].max <= peak + run[births].grants

BInv == GrantsGrow /\ RoomKept /\ LatestPaid /\ EveryExtraRunIsPaidFor /\ taskMax <= peak

\* The budget columns of a row, and whether its agent has started, stay.
SameBudget(m) ==
    /\ run'[m].max = run[m].max
    /\ run'[m].grants = run[m].grants
    /\ run'[m].started = run[m].started

LEMMA SpentType ==
    ASSUME TypeOK
    PROVE  IsFiniteSet(TakenBack) /\ Cardinality(TakenBack) \in Nat /\ Spent \in Nat
<1>1. IsFiniteSet(Runs) BY RunsAssumption, FS_Interval DEF Runs
<1>2. IsFiniteSet(TakenBack) BY <1>1, FS_Subset DEF TakenBack
<1>3. Cardinality(TakenBack) \in Nat BY <1>2, FS_CardinalityType
<1>4. capped \in Nat /\ uncapped \in Nat BY CapsAssumption DEF TypeOK
<1>. QED BY <1>2, <1>3, <1>4 DEF Spent

LEMMA SpentTypeNext ==
    ASSUME IInv'
    PROVE  /\ IsFiniteSet(TakenBack') /\ Cardinality(TakenBack') \in Nat /\ Spent' \in Nat
           /\ peak' \in Nat /\ births' \in Nat /\ births' <= MaxRuns
           /\ capped' \in Nat /\ uncapped' \in Nat
<1>1. IsFiniteSet(Runs) BY RunsAssumption, FS_Interval DEF Runs
<1>2. IsFiniteSet(TakenBack') BY <1>1, FS_Subset DEF TakenBack
<1>3. Cardinality(TakenBack') \in Nat BY <1>2, FS_CardinalityType
<1>4. capped' \in Nat /\ uncapped' \in Nat BY CapsAssumption DEF IInv, TypeOK
<1>5. peak' \in Nat BY BudgetAssumption DEF IInv, TypeOK
<1>6. births' \in Nat /\ births' <= MaxRuns BY RunsAssumption DEF IInv, TypeOK
<1>. QED BY <1>2, <1>3, <1>4, <1>5, <1>6 DEF Spent

\* Ends are final, so what was taken back stays taken back.
LEMMA TakenBackGrows ==
    ASSUME IInv, IInv', KeepsEnds
    PROVE  Cardinality(TakenBack) <= Cardinality(TakenBack')
<1>1. IsFiniteSet(TakenBack') BY SpentTypeNext
<1>2. TakenBack \in SUBSET (TakenBack') BY Statuses DEF KeepsEnds, TakenBack
<1>. QED BY <1>1, <1>2, FS_Subset

\* A Run that is lost or cancelled counts once more.
LEMMA OneMoreTakenBack ==
    ASSUME IInv, IInv', KeepsEnds, NEW n \in Runs, run[n].status \in Open,
           run'[n].status \in {"LOST", "CANCELLED"}
    PROVE  Cardinality(TakenBack) + 1 <= Cardinality(TakenBack')
<1>1. IsFiniteSet(TakenBack') /\ IsFiniteSet(TakenBack) BY SpentType, SpentTypeNext DEF IInv
<1>2. TakenBack \union {n} \in SUBSET (TakenBack') BY Statuses DEF KeepsEnds, TakenBack
<1>3. n \notin TakenBack BY Statuses DEF TakenBack
<1>4. Cardinality(TakenBack \union {n}) = Cardinality(TakenBack) + 1
  BY <1>1, <1>3, FS_AddElement
<1>5. Cardinality(TakenBack \union {n}) <= Cardinality(TakenBack') BY <1>1, <1>2, FS_Subset
<1>. QED BY <1>4, <1>5

\* The numbers of the budget are numbers.
LEMMA BudgetTypes ==
    ASSUME IInv
    PROVE  /\ births \in Nat /\ births <= MaxRuns /\ MaxRuns \in Nat
           /\ taskMax \in Nat /\ peak \in Nat /\ Spent \in Nat
           /\ capped \in Nat /\ uncapped \in Nat /\ Cardinality(TakenBack) \in Nat
           /\ \A m \in Runs : run[m].max \in Nat /\ run[m].grants \in Nat
           /\ Runs = 1..MaxRuns
           /\ PriorGrants \in Nat
<1>1. \A m \in Runs : run[m].max \in Nat /\ run[m].grants \in Nat BY Facts DEF RunRow
<1>2. births \in Nat /\ births <= MaxRuns /\ MaxRuns \in Nat BY Facts, RunsAssumption
<1>3. peak \in Nat /\ taskMax \in Nat BY BudgetAssumption DEF IInv, TypeOK
<1>4. capped \in Nat /\ uncapped \in Nat BY CapsAssumption DEF IInv, TypeOK
<1>5. PriorGrants \in Nat BY <1>1, <1>2 DEF PriorGrants, Runs
<1>. QED BY <1>1, <1>2, <1>3, <1>4, <1>5, SpentType DEF Runs, IInv

\* A step without a birth: the latest row may be granted k attempts, when what
\* pays for them grows by as many.
LEMMA BudgetStep ==
    ASSUME IInv, IInv', BInv, births' = births, peak <= peak', NEW k \in Nat,
           taskMax' = taskMax \/ taskMax' <= peak',
           Spent + k <= Spent',
           \A m \in Runs : m # births => SameBudget(m),
           births > 0 => /\ run'[births].max = run[births].max + k
                         /\ run'[births].grants = run[births].grants + k
    PROVE  BInv'
<1>0. /\ births \in Nat /\ births <= MaxRuns /\ MaxRuns \in Nat
      /\ peak \in Nat /\ Spent \in Nat /\ PriorGrants \in Nat
      /\ \A m \in Runs : run[m].max \in Nat /\ run[m].grants \in Nat
      /\ \A m : m \in Runs <=> m \in Nat /\ 1 <= m /\ m <= MaxRuns
      /\ capped \in Nat /\ uncapped \in Nat /\ Cardinality(TakenBack) \in Nat
      /\ peak' \in Nat /\ Spent' \in Nat /\ births' \in Nat /\ births' <= MaxRuns
      /\ capped' \in Nat /\ uncapped' \in Nat /\ Cardinality(TakenBack') \in Nat
  <2>1. \A m : m \in Runs <=> m \in Nat /\ 1 <= m /\ m <= MaxRuns BY BudgetTypes
  <2>. QED BY <2>1, BudgetTypes, SpentTypeNext
<1>. USE <1>0
<1>1. GrantsGrow' BY DEF BInv, GrantsGrow, SameBudget
<1>2. RoomKept'
  <2>. SUFFICES ASSUME NEW n \in Runs, n < births, run'[n].started
                PROVE  n + 1 <= run'[n + 1].max
    BY DEF RoomKept
  <2>1. run[n].started /\ n + 1 \in Runs BY DEF SameBudget
  <2>2. n + 1 <= run[n + 1].max BY <2>1 DEF BInv, RoomKept
  <2>. QED BY <2>1, <2>2 DEF SameBudget
<1>3. LatestPaid' BY DEF BInv, LatestPaid
<1>4. EveryExtraRunIsPaidFor' BY DEF BInv, EveryExtraRunIsPaidFor, Spent
<1>5. taskMax' <= peak' BY BudgetTypes DEF BInv
<1>. QED BY <1>1, <1>2, <1>3, <1>4, <1>5 DEF BInv

\* A birth: the predecessor may be granted k attempts, the newborn carries on
\* what it has.
LEMMA BudgetBirth ==
    ASSUME IInv, IInv', BInv, births' = births + 1, UNCHANGED budget, NEW k \in Nat,
           Spent + k <= Spent',
           \A m \in Runs : m < births => SameBudget(m),
           births > 0 => /\ run'[births].grants = run[births].grants + k
                         /\ run'[births].max = run[births].max + k
                         /\ run'[births].started => births + 1 <= run'[births + 1].max,
           run'[births + 1].grants = PriorGrants + k,
           run'[births + 1].max <= peak + PriorGrants + k,
           births + 1 <= peak + Spent'
    PROVE  BInv'
<1>0. /\ births \in Nat /\ births <= MaxRuns /\ MaxRuns \in Nat
      /\ peak \in Nat /\ Spent \in Nat /\ PriorGrants \in Nat
      /\ \A m \in Runs : run[m].max \in Nat /\ run[m].grants \in Nat
      /\ \A m : m \in Runs <=> m \in Nat /\ 1 <= m /\ m <= MaxRuns
      /\ capped \in Nat /\ uncapped \in Nat /\ Cardinality(TakenBack) \in Nat
      /\ peak' \in Nat /\ Spent' \in Nat /\ births' \in Nat /\ births' <= MaxRuns
      /\ capped' \in Nat /\ uncapped' \in Nat /\ Cardinality(TakenBack') \in Nat
  <2>1. \A m : m \in Runs <=> m \in Nat /\ 1 <= m /\ m <= MaxRuns BY BudgetTypes
  <2>. QED BY <2>1, BudgetTypes, SpentTypeNext
<1>. USE <1>0
<1>9. peak' = peak /\ taskMax' <= peak' BY DEF budget, BInv
<1>1. GrantsGrow'
  <2>. SUFFICES ASSUME NEW m \in Runs, NEW n \in Runs, m <= n, n <= births + 1
                PROVE  run'[m].grants <= run'[n].grants
    BY DEF GrantsGrow
  <2>0. \A i, j \in Runs : i <= j /\ j <= births => run[i].grants <= run[j].grants
    BY DEF BInv, GrantsGrow
  <2>1. \A i \in Runs : i < births => run'[i].grants = run[i].grants BY DEF SameBudget
  <2>2. births > 0 => births \in Runs /\ PriorGrants = run[births].grants BY DEF PriorGrants
  <2>3. \A i \in Runs : i <= births => run'[i].grants <= run[births].grants + k
    BY <2>0, <2>1, <2>2
  <2>4. CASE n = births + 1 BY <2>2, <2>3, <2>4
  <2>5. CASE n <= births BY <2>0, <2>1, <2>2, <2>5
  <2>. QED BY <2>4, <2>5
<1>2. RoomKept'
  <2>. SUFFICES ASSUME NEW n \in Runs, n < births + 1, run'[n].started
                PROVE  n + 1 <= run'[n + 1].max
    BY DEF RoomKept
  <2>1. CASE n < births
    <3>1. run[n].started /\ n + 1 \in Runs BY <2>1 DEF SameBudget
    <3>2. n + 1 <= run[n + 1].max BY <2>1, <3>1 DEF BInv, RoomKept
    <3>. QED BY <2>1, <3>1, <3>2 DEF SameBudget
  <2>2. CASE n = births BY <2>2
  <2>. QED BY <2>1, <2>2
<1>3. LatestPaid'
  <2>1. PriorGrants <= Spent BY DEF BInv, LatestPaid, PriorGrants
  <2>. QED BY <1>0, <1>9, <2>1 DEF LatestPaid
<1>4. EveryExtraRunIsPaidFor' BY <1>0, <1>9 DEF EveryExtraRunIsPaidFor, Spent
<1>. QED BY <1>1, <1>2, <1>3, <1>4, <1>9 DEF BInv

\* A step that grants nothing, and starts the agent of the latest Run at most.
LEMMA BudgetQuiet ==
    ASSUME IInv, IInv', KeepsEnds, BInv, births' = births, peak <= peak',
           taskMax' = taskMax \/ taskMax' <= peak', UNCHANGED external,
           \A m \in Runs : /\ run'[m].max = run[m].max
                           /\ run'[m].grants = run[m].grants
                           /\ m # births => run'[m].started = run[m].started
    PROVE  BInv'
<1>1. Spent + 0 <= Spent' BY TakenBackGrows, BudgetTypes, SpentTypeNext DEF Spent, external
<1>2. \A m \in Runs : m # births => SameBudget(m) BY DEF SameBudget
<1>3. births > 0 => /\ run'[births].max = run[births].max + 0
                    /\ run'[births].grants = run[births].grants + 0
  BY BudgetTypes
<1>. QED BY <1>1, <1>2, <1>3, BudgetStep

LEMMA CancelledRowBudget ==
    ASSUME NEW row \in RunRow, NEW confirmed \in BOOLEAN
    PROVE  /\ CancelledRow(row, confirmed).max = row.max
           /\ CancelledRow(row, confirmed).grants = row.grants
           /\ CancelledRow(row, confirmed).started = row.started
BY DEF CancelledRow, RunRow

\* The handlers of that kind that write a row.
LEMMA RunnerBudget ==
    ASSUME IInv, IInv', KeepsEnds, BInv, NEW n \in Runs,
           \/ ClaimRun(n) \/ SettleQueuedCandidate(n)
           \/ \E g \in Gens : \/ StartRun(n, g) \/ HeartbeatRun(n, g)
                              \/ SuspendForInbox(n, g) \/ AcknowledgeCancellation(n, g)
    PROVE  BInv'
<1>0. PICK g \in Gens \union {0} :
        \/ ClaimRun(n) \/ SettleQueuedCandidate(n) \/ StartRun(n, g) \/ HeartbeatRun(n, g)
        \/ SuspendForInbox(n, g) \/ AcknowledgeCancellation(n, g)
  OBVIOUS
<1>1. births' = births /\ peak' = peak /\ taskMax' = taskMax /\ UNCHANGED external
  BY <1>0 DEF ClaimRun, SettleQueuedCandidate, StartRun, HeartbeatRun, SuspendForInbox,
         AcknowledgeCancellation, budget
<1>2. \A m \in Runs : run[m] \in RunRow /\ run \in [Runs -> RunRow] BY Facts
<1>3. CASE ~StartRun(n, g)
  <2>1. \A m \in Runs : SameBudget(m)
    <3>1. CASE ClaimRun(n) BY <1>2, <3>1 DEF ClaimRun, SameBudget, RunRow
    <3>2. CASE SettleQueuedCandidate(n) BY <1>2, <3>2 DEF SettleQueuedCandidate, SameBudget, RunRow
    <3>3. CASE HeartbeatRun(n, g) BY <1>2, <3>3 DEF HeartbeatRun, SameBudget, RunRow
    <3>4. CASE SuspendForInbox(n, g) BY <1>2, <3>4 DEF SuspendForInbox, SameBudget, RunRow
    <3>5. CASE AcknowledgeCancellation(n, g)
      <4>1. CASE run' = [run EXCEPT ![n].cancel = "acknowledged"]
        BY <1>2, <4>1 DEF SameBudget, RunRow
      <4>2. CASE run' = [run EXCEPT ![n] = CancelledRow(run[n], TRUE)]
        BY <1>2, <4>2, CancelledRowBudget DEF SameBudget
      <4>. QED BY <3>5, <4>1, <4>2 DEF AcknowledgeCancellation
    <3>. QED BY <1>0, <1>3, <3>1, <3>2, <3>3, <3>4, <3>5
  <2>. QED BY <1>1, <2>1, BudgetTypes, BudgetQuiet DEF SameBudget
<1>4. CASE StartRun(n, g)
  <2>1. n = births BY <1>4, Statuses DEF StartRun, Fenced, IInv, OneOpenRun
  <2>2. \A m \in Runs : /\ run'[m].max = run[m].max
                        /\ run'[m].grants = run[m].grants
                        /\ m # births => run'[m].started = run[m].started
    BY <1>2, <1>4, <2>1 DEF StartRun, RunRow
  <2>. QED BY <1>1, <2>2, BudgetTypes, BudgetQuiet
<1>. QED BY <1>3, <1>4

LEMMA OperatorBudget ==
    ASSUME IInv, IInv', KeepsEnds, BInv, NEW n \in Runs,
           \/ \E q \in Gens : AnswerInbox(n, q)
           \/ \E park \in BOOLEAN : CancelRun(n, park)
           \/ LeaseExpires(n) \/ HeartbeatStarves(n) \/ WindowLapses(n)
    PROVE  BInv'
<1>1. births' = births /\ peak' = peak /\ taskMax' = taskMax /\ UNCHANGED external
  BY DEF AnswerInbox, CancelRun, LeaseExpires, HeartbeatStarves, WindowLapses, budget
<1>2. \A m \in Runs : run[m] \in RunRow /\ run \in [Runs -> RunRow] BY Facts
<1>3. \A m \in Runs : SameBudget(m)
  <2>1. CASE \E q \in Gens : AnswerInbox(n, q)
    <3>1. PICK q \in Gens : AnswerInbox(n, q) BY <2>1
    <3>. DEFINE row == [run[n] EXCEPT !.status = "QUEUED", !.token = 0, !.lease = FALSE,
                                      !.session = "REQUESTED", !.asking = 0,
                                      !.questions = run[n].questions \ {q}, !.lapsed = FALSE]
    <3>2. run' = [run EXCEPT ![n] = row] BY <1>2, <3>1 DEF AnswerInbox
    <3>3. row.max = run[n].max /\ row.grants = run[n].grants /\ row.started = run[n].started
      BY <1>2 DEF RunRow
    <3>. HIDE DEF row
    <3>. QED BY <1>2, <3>2, <3>3 DEF SameBudget
  <2>2. CASE \E park \in BOOLEAN : CancelRun(n, park)
    <3>1. CASE run' = [run EXCEPT ![n].cancel = "requested"]
      BY <1>2, <3>1 DEF SameBudget, RunRow
    <3>2. CASE run' = [run EXCEPT ![n] = CancelledRow(run[n], TRUE)]
      BY <1>2, <3>2, CancelledRowBudget DEF SameBudget
    <3>. QED BY <2>2, <3>1, <3>2 DEF CancelRun
  <2>3. CASE LeaseExpires(n) \/ HeartbeatStarves(n) \/ WindowLapses(n)
    BY <1>2, <2>3 DEF LeaseExpires, HeartbeatStarves, WindowLapses, SameBudget, RunRow
  <2>. QED BY <2>1, <2>2, <2>3
<1>. QED BY <1>1, <1>3, BudgetTypes, BudgetQuiet DEF SameBudget

\* The handlers that write no row; a new budget raises the peak at most.
LEMMA TaskOnlyBudget ==
    ASSUME IInv, IInv', KeepsEnds, BInv,
           \/ \E n \in Runs : ReplayCancelAndPark(n)
           \/ ParkOnSpendCap
           \/ MoveTask
           \/ \E max \in MinBudget..MaxBudget : SetBudget(max)
           \/ SweepRead
    PROVE  BInv'
<1>1. UNCHANGED <<run, births, external>>
  BY DEF ReplayCancelAndPark, ParkOnSpendCap, MoveTask, SetBudget, SweepRead
<1>2. peak <= peak' /\ (taskMax' = taskMax \/ taskMax' <= peak')
  <2>1. CASE UNCHANGED budget BY <2>1, BudgetTypes DEF budget
  <2>2. CASE \E max \in MinBudget..MaxBudget : SetBudget(max)
    BY <2>2, BudgetTypes, BudgetAssumption DEF SetBudget
  <2>. QED BY <2>1, <2>2 DEF ReplayCancelAndPark, ParkOnSpendCap, MoveTask, SweepRead
<1>. QED BY <1>1, <1>2, BudgetQuiet

LEMMA SweepExpiredBudget ==
    ASSUME IInv, IInv', KeepsEnds, BInv, NEW n \in Runs, NEW q \in Gens, SweepExpired(n, q)
    PROVE  BInv'
<1>1. births' = births /\ peak' = peak /\ taskMax' = taskMax /\ UNCHANGED external
  BY DEF SweepExpired, budget
<1>2. \A m \in Runs : run[m] \in RunRow /\ run \in [Runs -> RunRow] BY Facts
<1>3. \A m \in Runs : SameBudget(m) BY <1>2 DEF SweepExpired, SameBudget, RunRow
<1>. QED BY <1>1, <1>3, BudgetTypes, BudgetQuiet DEF SameBudget

\* The automatic retry stays below the ceiling of the Run it follows, which the
\* refund of that Run has raised.
LEMMA CompleteRunBudget ==
    ASSUME IInv, IInv', KeepsEnds, BInv, NEW n \in Runs, NEW g \in Gens, CompleteRun(n, g)
    PROVE  BInv'
<1>1. PICK v \in Verdicts, grant \in {0, 1} :
        /\ grant = 1 <=> \/ v.refund = "uncapped"
                         \/ v.refund = "capped" /\ capped < ExternalCap
        /\ capped' = IF v.refund = "capped" THEN capped + grant ELSE capped
        /\ uncapped' = IF v.refund = "uncapped" THEN uncapped + grant ELSE uncapped
        /\ \/ /\ n < run[n].max + grant
              /\ run' = [run EXCEPT ![n] = CompletedRow(n, g, v, grant),
                                    ![n + 1] = QueuedRun(run[n].max + grant,
                                                         run[n].grants + grant,
                                                         run[n].refunds)]
              /\ births' = births + 1
           \/ /\ run' = [run EXCEPT ![n] = CompletedRow(n, g, v, grant)]
              /\ UNCHANGED births
  BY DEF CompleteRun
<1>2. n = births /\ n > 0 /\ peak' = peak /\ taskMax' = taskMax /\ UNCHANGED budget
  BY Statuses, BudgetTypes DEF CompleteRun, Fenced, IInv, OneOpenRun, budget
<1>3. Spent + grant <= Spent'
  <2>1. v.refund \in {"none", "capped", "uncapped"} BY DEF Verdicts
  <2>2. capped \in Nat /\ uncapped \in Nat /\ Cardinality(TakenBack) \in Nat BY BudgetTypes
  <2>3. /\ grant = 1 <=> \/ v.refund = "uncapped"
                         \/ v.refund = "capped" /\ capped < ExternalCap
        /\ capped' = IF v.refund = "capped" THEN capped + grant ELSE capped
        /\ uncapped' = IF v.refund = "uncapped" THEN uncapped + grant ELSE uncapped
    BY <1>1
  <2>4. capped' + uncapped' = capped + uncapped + grant /\ capped' \in Nat /\ uncapped' \in Nat
    <3>1. CASE v.refund = "none" BY <2>2, <2>3, <3>1
    <3>2. CASE v.refund = "capped" BY <2>2, <2>3, <3>2
    <3>3. CASE v.refund = "uncapped" BY <2>2, <2>3, <3>3
    <3>. QED BY <2>1, <3>1, <3>2, <3>3
  <2>5. Cardinality(TakenBack') \in Nat /\ Cardinality(TakenBack) <= Cardinality(TakenBack')
    BY TakenBackGrows, SpentTypeNext
  <2>6. grant \in Nat BY <1>1
  <2>7. Cardinality(TakenBack) + capped + uncapped + grant
            <= Cardinality(TakenBack') + capped' + uncapped'
    <3>1. \A t, c, u, k, t1, c1, u1 \in Nat :
              t <= t1 /\ c1 + u1 = c + u + k => t + c + u + k <= t1 + c1 + u1
      OBVIOUS
    <3>. QED BY <2>2, <2>4, <2>5, <2>6, <3>1
  <2>. QED BY <2>7 DEF Spent
<1>. DEFINE row == CompletedRow(n, g, v, grant)
<1>4. row.max = run[n].max + grant /\ row.grants = run[n].grants + grant
  BY Facts DEF CompletedRow, RunRow
<1>5. run \in [Runs -> RunRow] /\ PriorGrants = run[n].grants BY <1>2, Facts DEF PriorGrants
<1>. HIDE DEF row
<1>6. CASE run' = [run EXCEPT ![n] = row] /\ UNCHANGED births
  <2>1. \A m \in Runs : m # births => SameBudget(m) BY <1>2, <1>5, <1>6 DEF SameBudget
  <2>2. run'[births] = row BY <1>2, <1>5, <1>6
  <2>. QED BY <1>2, <1>3, <1>4, <1>6, <2>1, <2>2, BudgetTypes, BudgetStep
<1>7. CASE /\ n < run[n].max + grant /\ births' = births + 1
           /\ run' = [run EXCEPT ![n] = row,
                                 ![n + 1] = QueuedRun(run[n].max + grant, run[n].grants + grant,
                                                      run[n].refunds)]
  <2>. DEFINE new == QueuedRun(run[n].max + grant, run[n].grants + grant, run[n].refunds)
  <2>1. new.max = run[n].max + grant /\ new.grants = run[n].grants + grant
    BY DEF QueuedRun, NoRun
  <2>. HIDE DEF new
  <2>2. n + 1 \in Runs BY <1>2, <1>7, BudgetTypes, SpentTypeNext
  <2>3. run'[n] = row /\ run'[n + 1] = new /\ \A m \in Runs : m < n => run'[m] = run[m]
    <3>1. run' = [run EXCEPT ![n] = row, ![n + 1] = new] BY <1>7 DEF new
    <3>2. \A m \in Runs : run'[m] = IF m = n + 1 THEN new ELSE IF m = n THEN row ELSE run[m]
      BY <1>5, <2>2, <3>1
    <3>3. n # n + 1 /\ \A m \in Runs : m < n => m # n /\ m # n + 1 BY DEF Runs
    <3>. QED BY <2>2, <3>2, <3>3
  <2>4. \A m \in Runs : m < births => SameBudget(m) BY <1>2, <2>3 DEF SameBudget
  <2>5. births + 1 <= run'[births + 1].max BY <1>2, <1>7, <2>1, <2>3, BudgetTypes
  <2>6. run[n].max <= peak + run[n].grants /\ run[n].grants <= Spent
    BY <1>2 DEF BInv, LatestPaid
  <2>7. run'[births + 1].max <= peak + PriorGrants + grant
    BY <1>2, <1>5, <2>1, <2>3, <2>6, BudgetTypes
  <2>8. births + 1 <= peak + Spent'
    <3>1. /\ n \in Nat /\ run[n].max \in Nat /\ run[n].grants \in Nat /\ peak \in Nat
          /\ Spent \in Nat /\ Spent' \in Nat /\ grant \in Nat
      BY <1>1, <1>2, BudgetTypes, SpentTypeNext
    <3>2. births < run[n].max + grant BY <1>2, <1>7
    <3>3. \A b, m, p, c, s, s1, k \in Nat :
              b < m + k /\ m <= p + c /\ c <= s /\ s + k <= s1 => b + 1 <= p + s1
      OBVIOUS
    <3>4. births \in Nat BY <1>2, <3>1
    <3>5. Spent + grant <= Spent' BY <1>3
    <3>6. run[n].max <= peak + run[n].grants /\ run[n].grants <= Spent BY <2>6
    <3>. QED BY <3>1, <3>2, <3>3, <3>4, <3>5, <3>6
  <2>. QED BY <1>2, <1>3, <1>4, <1>5, <1>7, <2>1, <2>3, <2>4, <2>5, <2>7, <2>8, BudgetBirth
<1>. QED BY <1>1, <1>6, <1>7 DEF row

\* A refund on the row it settles.
LEMMA RefundBudget ==
    ASSUME NEW n \in Runs, run[n] \in RunRow
    PROVE  /\ LostRow(n).max = run[n].max + (IF RefundGranted(n) THEN 1 ELSE 0)
           /\ LostRow(n).grants = run[n].grants + (IF RefundGranted(n) THEN 1 ELSE 0)
           /\ RevokedRow(n).max = run[n].max + (IF RefundGranted(n) THEN 1 ELSE 0)
           /\ RevokedRow(n).grants = run[n].grants + (IF RefundGranted(n) THEN 1 ELSE 0)
           /\ RevokedRow(n).started = run[n].started
<1>. DEFINE r == Refund(run[n], RefundGranted(n))
<1>1. /\ r.max = run[n].max + (IF RefundGranted(n) THEN 1 ELSE 0)
      /\ r.grants = run[n].grants + (IF RefundGranted(n) THEN 1 ELSE 0)
      /\ r.started = run[n].started /\ r \in RunRow
  <2>1. RefundGranted(n) \in BOOLEAN BY DEF RefundGranted
  <2>2. r.started = run[n].started BY DEF Refund, RunRow
  <2>3. r.max = IF RefundGranted(n) THEN run[n].max + 1 ELSE run[n].max BY <2>1, RefundType
  <2>4. r.grants = IF RefundGranted(n) THEN run[n].grants + 1 ELSE run[n].grants
    BY <2>1, RefundType
  <2>5. r \in RunRow /\ run[n].max \in Nat /\ run[n].grants \in Nat
    BY <2>1, RefundType DEF RunRow
  <2>. HIDE DEF r
  <2>. QED BY <2>2, <2>3, <2>4, <2>5
<1>2. /\ LostRow(n) = [r EXCEPT !.status = "LOST", !.lease = FALSE, !.beat = FALSE, !.session = "LOST"]
      /\ RevokedRow(n) = [r EXCEPT !.status = "CANCELLED", !.lease = FALSE,
                                   !.beat = FALSE, !.session = "CANCELLED"]
  BY DEF LostRow, RevokedRow
<1>. HIDE DEF r
<1>. QED BY <1>1, <1>2 DEF RunRow

\* A claim that is taken back pays for the Run that replaces it.
LEMMA SalvageBudget ==
    ASSUME IInv, IInv', KeepsEnds, BInv, NEW n \in Runs, NEW g \in Gens, Salvage(n, g)
    PROVE  BInv'
<1>. DEFINE m == n + 1
            row == RevokedRow(m)
            k == IF RefundGranted(m) THEN 1 ELSE 0
            new == QueuedRun(taskMax + row.grants, row.grants, run[m].refunds + 1)
<1>1. /\ m \in Runs /\ run[m].status = "CLAIMED" /\ ~run[m].started
      /\ UNCHANGED <<budget, external>> /\ peak' = peak /\ taskMax' = taskMax
  BY BudgetTypes DEF Salvage, InvalidatesClaim, budget
<1>2. m = births /\ births > 0 BY <1>1, Statuses, BudgetTypes DEF IInv, OneOpenRun
<1>3. run[m] \in RunRow /\ run \in [Runs -> RunRow] BY <1>1, Facts
<1>4. row.max = run[m].max + k /\ row.grants = run[m].grants + k /\ row.started = run[m].started
  BY <1>1, <1>3, RefundBudget
<1>5. row.status = "CANCELLED" BY <1>1, <1>3, Facts, Statuses, RevokedRowType
<1>6. run'[m] = row /\ \A i \in Runs : i < m => run'[i] = run[i]
  <2>1. CASE run' = [run EXCEPT ![m] = row]
    <3>1. \A i \in Runs : i < m => i # m BY <1>1, BudgetTypes
    <3>2. \A i \in Runs : run'[i] = IF i = m THEN row ELSE run[i] BY <1>3, <2>1
    <3>. QED BY <1>1, <3>1, <3>2
  <2>2. CASE births < MaxRuns /\ run' = [run EXCEPT ![m] = row, ![m + 1] = new]
    <3>1. m # m + 1 /\ \A i \in Runs : i < m => i # m /\ i # m + 1 BY <1>1, BudgetTypes
    <3>2. \A i \in Runs : run'[i] = IF i = m + 1 THEN new ELSE IF i = m THEN row ELSE run[i]
      BY <1>2, <1>3, <2>2, BudgetTypes
    <3>. QED BY <1>1, <3>1, <3>2
  <2>3. \/ run' = [run EXCEPT ![m] = row]
        \/ births < MaxRuns /\ run' = [run EXCEPT ![m] = row, ![m + 1] = new]
    BY DEF Salvage
  <2>. HIDE DEF m, row, new
  <2>. QED BY <2>1, <2>2, <2>3
<1>7. Spent + 1 <= Spent'
  <2>1. Cardinality(TakenBack) + 1 <= Cardinality(TakenBack')
    BY <1>1, <1>5, <1>6, Statuses, OneMoreTakenBack
  <2>2. capped' = capped /\ uncapped' = uncapped BY <1>1 DEF external
  <2>. QED BY <2>1, <2>2, BudgetTypes, SpentTypeNext DEF Spent
<1>8. k \in Nat /\ Spent + k <= Spent'
  <2>1. k \in {0, 1} OBVIOUS
  <2>. HIDE DEF k
  <2>. QED BY <1>7, <2>1, BudgetTypes, SpentTypeNext
<1>9. CASE births' = births /\ run' = [run EXCEPT ![m] = row]
  <2>1. \A i \in Runs : i # births => SameBudget(i) BY <1>2, <1>3, <1>9 DEF SameBudget
  <2>. HIDE DEF k, row, m
  <2>2. run'[births].max = run[births].max + k /\ run'[births].grants = run[births].grants + k
    BY <1>2, <1>4, <1>6
  <2>3. peak <= peak' /\ taskMax' = taskMax BY <1>1, BudgetTypes
  <2>. QED BY <1>8, <1>9, <2>1, <2>2, <2>3, BudgetStep
<1>10. CASE /\ RefundGranted(m) /\ births < MaxRuns /\ births' = births + 1
            /\ run' = [run EXCEPT ![m] = row, ![m + 1] = new]
  <2>1. k = 1 BY <1>10
  <2>2. new.max = taskMax + row.grants /\ new.grants = row.grants BY DEF QueuedRun, NoRun
  <2>3. run'[m + 1] = new
    <3>1. m + 1 \in Runs BY <1>2, <1>10, BudgetTypes
    <3>. QED BY <1>3, <1>10, <3>1
  <2>4. PriorGrants = run[m].grants BY <1>2 DEF PriorGrants
  <2>. HIDE DEF k, row, m, new
  <2>5. \A i \in Runs : i < births => SameBudget(i) BY <1>2, <1>6 DEF SameBudget
  <2>6. ~run'[births].started BY <1>1, <1>2, <1>4, <1>6
  <2>7. run'[births + 1].max <= peak + PriorGrants + k /\ run'[births + 1].grants = PriorGrants + k
    <3>1. taskMax <= peak BY DEF BInv
    <3>2. k \in Nat /\ run[m].grants \in Nat /\ taskMax \in Nat /\ peak \in Nat
      BY <1>1, <1>8, BudgetTypes
    <3>. QED BY <1>2, <1>4, <2>2, <2>3, <2>4, <3>1, <3>2
  <2>8. births + 1 <= peak + Spent'
    <3>1. births <= peak + Spent BY BudgetTypes DEF BInv, EveryExtraRunIsPaidFor, Spent
    <3>. QED BY <1>7, <3>1, BudgetTypes, SpentTypeNext
  <2>. QED BY <1>1, <1>2, <1>4, <1>6, <1>8, <1>10, <2>5, <2>6, <2>7, <2>8, BudgetBirth
<1>. QED BY <1>9, <1>10 DEF Salvage

\* A Run that is lost pays for the Run that replaces it, within its ceiling.
LEMMA LoseBudget ==
    ASSUME IInv, IInv', KeepsEnds, BInv, NEW n \in Runs, UNCHANGED <<budget, external>>,
           LeaseGone(n), run[n].cancel = "none", LoseAndReopen(n) \/ LoseAndPark(n)
    PROVE  BInv'
<1>. DEFINE row == LostRow(n)
            k == IF RefundGranted(n) THEN 1 ELSE 0
            new == QueuedRun(run[n].max + 1, run[n].grants + 1, run[n].refunds + 1)
<1>1. run[n] \in RunRow /\ run \in [Runs -> RunRow] /\ RowOK(run[n]) BY Facts
<1>2. /\ run[n].status \in Open /\ n = births /\ births > 0
      /\ peak' = peak /\ taskMax' = taskMax
  BY Statuses, BudgetTypes DEF LeaseGone, IInv, OneOpenRun, budget
<1>3. row.max = run[n].max + k /\ row.grants = run[n].grants + k BY <1>1, RefundBudget
<1>4. row.status = "LOST" BY <1>1, <1>2, LostRowType
<1>5. k \in {0, 1} /\ k \in Nat OBVIOUS
<1>6. \/ run' = [run EXCEPT ![n] = row] /\ births' = births
      \/ /\ RefundGranted(n) /\ n < row.max /\ births < MaxRuns /\ births' = births + 1
         /\ run' = [run EXCEPT ![n] = row, ![n + 1] = new]
  BY DEF LoseAndReopen, LoseAndPark
<1>7. RefundGranted(n) => k = 1 OBVIOUS
<1>8. new.max = run[n].max + 1 /\ new.grants = run[n].grants + 1 BY DEF QueuedRun, NoRun
<1>. HIDE DEF row, k, new
<1>9. run'[n] = row /\ \A i \in Runs : i < n => run'[i] = run[i]
  <2>1. CASE run' = [run EXCEPT ![n] = row]
    <3>1. \A i \in Runs : run'[i] = IF i = n THEN row ELSE run[i] BY <1>1, <2>1
    <3>2. \A i \in Runs : i < n => i # n BY BudgetTypes
    <3>. QED BY <3>1, <3>2
  <2>2. CASE births < MaxRuns /\ run' = [run EXCEPT ![n] = row, ![n + 1] = new]
    <3>1. n # n + 1 /\ \A i \in Runs : i < n => i # n /\ i # n + 1 BY BudgetTypes
    <3>2. \A i \in Runs : run'[i] = IF i = n + 1 THEN new ELSE IF i = n THEN row ELSE run[i]
      BY <1>1, <1>2, <2>2, BudgetTypes
    <3>. QED BY <3>1, <3>2
  <2>. QED BY <1>6, <2>1, <2>2
<1>10. Spent + 1 <= Spent' /\ Spent + k <= Spent'
  <2>1. Cardinality(TakenBack) + 1 <= Cardinality(TakenBack')
    BY <1>2, <1>4, <1>9, OneMoreTakenBack
  <2>2. capped' = capped /\ uncapped' = uncapped BY DEF external
  <2>3. Spent + 1 <= Spent' BY <2>1, <2>2, BudgetTypes, SpentTypeNext DEF Spent
  <2>. QED BY <1>5, <2>3, BudgetTypes, SpentTypeNext
<1>11. \A i \in Runs : i < births => SameBudget(i) BY <1>2, <1>9 DEF SameBudget
<1>12. run'[births].max = run[births].max + k /\ run'[births].grants = run[births].grants + k
  BY <1>2, <1>3, <1>9
<1>13. CASE births' = births /\ run' = [run EXCEPT ![n] = row]
  <2>1. \A i \in Runs : i # births => SameBudget(i) BY <1>1, <1>2, <1>13 DEF SameBudget
  <2>2. peak <= peak' BY <1>2, BudgetTypes
  <2>. QED BY <1>2, <1>5, <1>10, <1>12, <1>13, <2>1, <2>2, BudgetStep
<1>14. CASE /\ RefundGranted(n) /\ n < row.max /\ births < MaxRuns /\ births' = births + 1
            /\ run' = [run EXCEPT ![n] = row, ![n + 1] = new]
  <2>1. run'[n + 1] = new
    <3>1. n + 1 \in Runs BY <1>2, <1>14, BudgetTypes
    <3>. QED BY <1>1, <1>14, <3>1
  <2>2. PriorGrants = run[n].grants BY <1>2 DEF PriorGrants
  <2>3. /\ births \in Nat /\ run[n].max \in Nat /\ run[n].grants \in Nat /\ peak \in Nat
        /\ Spent \in Nat /\ Spent' \in Nat
    BY BudgetTypes, SpentTypeNext
  <2>4. k = 1 /\ births < run[n].max + 1
    <3>1. k = 1 /\ n < row.max BY <1>7, <1>14
    <3>. QED BY <1>2, <1>3, <3>1
  <2>5. run[n].max <= peak + run[n].grants /\ run[n].grants <= Spent
    BY <1>2 DEF BInv, LatestPaid
  <2>6. births + 1 <= run'[births + 1].max BY <1>2, <1>8, <2>1, <2>3, <2>4
  <2>7. run'[births + 1].max <= peak + PriorGrants + k /\ run'[births + 1].grants = PriorGrants + k
    BY <1>2, <1>8, <2>1, <2>2, <2>3, <2>4, <2>5
  <2>8. births + 1 <= peak + Spent'
    <3>1. \A b, m, p, c, s, s1 \in Nat :
              b < m + 1 /\ m <= p + c /\ c <= s /\ s + 1 <= s1 => b + 1 <= p + s1
      OBVIOUS
    <3>2. Spent + 1 <= Spent' BY <1>10
    <3>. QED BY <2>3, <2>4, <2>5, <3>1, <3>2
  <2>9. births' = births + 1 BY <1>14
  <2>10. Spent + k <= Spent' BY <1>10
  <2>. QED BY <1>5, <1>11, <1>12, <2>6, <2>7, <2>8, <2>9, <2>10, BudgetBirth
<1>. QED BY <1>6, <1>13, <1>14

LEMMA SweepOrphanBudget ==
    ASSUME IInv, IInv', KeepsEnds, BInv, NEW n \in Runs, SweepOrphan(n)
    PROVE  BInv'
<1>1. UNCHANGED <<budget, external>> /\ UNCHANGED external /\ peak' = peak /\ taskMax' = taskMax
  BY DEF SweepOrphan, budget
<1>2. CASE UNCHANGED <<run, births, task>> BY <1>1, <1>2, BudgetTypes, BudgetQuiet
<1>3. CASE births' = births /\ run' = [run EXCEPT ![n] = CancelledRow(run[n], FALSE)]
  <2>1. \A m \in Runs : run[m] \in RunRow /\ run \in [Runs -> RunRow] BY Facts
  <2>2. \A m \in Runs : SameBudget(m) BY <1>3, <2>1, CancelledRowBudget DEF SameBudget
  <2>3. peak <= peak' BY <1>1, BudgetTypes
  <2>. QED BY <1>1, <1>3, <2>2, <2>3, BudgetQuiet DEF SameBudget
<1>4. CASE LeaseGone(n) /\ run[n].cancel = "none" /\ (LoseAndReopen(n) \/ LoseAndPark(n))
  BY <1>1, <1>4, LoseBudget
<1>. QED BY <1>2, <1>3, <1>4 DEF SweepOrphan

\* The two budget checks of the operator are one.
LEMMA ChecksAgree == IInv /\ BInv => (BudgetRemaining <=> births < taskMax + PriorGrants)
<1>. SUFFICES ASSUME IInv, BInv PROVE BudgetRemaining <=> births < taskMax + PriorGrants
  OBVIOUS
<1>1. /\ births \in Nat /\ births <= MaxRuns /\ MaxRuns \in Nat /\ taskMax \in Nat
      /\ PriorGrants \in Nat /\ Runs = 1..MaxRuns
      /\ \A m \in Runs : run[m].grants \in Nat
  BY BudgetTypes
<1>2. ASSUME NEW n \in 1..births PROVE run[n].grants <= PriorGrants /\ run[n].grants \in Nat
  BY <1>1 DEF BInv, GrantsGrow, PriorGrants
<1>3. BudgetRemaining => births < taskMax + PriorGrants BY <1>1, <1>2 DEF BudgetRemaining
<1>4. births < taskMax + PriorGrants => BudgetRemaining
  <2>1. CASE births = 0 BY <1>1, <2>1 DEF BudgetRemaining, PriorGrants
  <2>2. CASE births # 0
    <3>1. births \in 1..births /\ PriorGrants = run[births].grants BY <1>1, <2>2 DEF PriorGrants
    <3>. QED BY <3>1 DEF BudgetRemaining
  <2>. QED BY <2>1, <2>2
<1>. QED BY <1>3, <1>4

LEMMA OperatorBirthBudget ==
    ASSUME IInv, IInv', KeepsEnds, BInv, StartTask \/ RetryTask
    PROVE  BInv'
<1>. DEFINE new == QueuedRun(taskMax + PriorGrants, PriorGrants, PriorRefunds)
<1>1. births < taskMax + PriorGrants BY ChecksAgree DEF StartTask, RetryTask
<1>2. /\ run' = [run EXCEPT ![births + 1] = new] /\ births' = births + 1 /\ births < MaxRuns
      /\ UNCHANGED <<budget, external>> /\ run \in [Runs -> RunRow]
  BY Facts DEF StartTask, RetryTask
<1>3. new.max = taskMax + PriorGrants /\ new.grants = PriorGrants BY DEF QueuedRun, NoRun
<1>. HIDE DEF new
<1>4. /\ births \in Nat /\ taskMax \in Nat /\ PriorGrants \in Nat /\ peak \in Nat
      /\ Spent \in Nat /\ Spent' \in Nat /\ taskMax <= peak
  BY BudgetTypes, SpentTypeNext DEF BInv
<1>5. \A m \in Runs : run'[m] = IF m = births + 1 THEN new ELSE run[m] BY <1>2
<1>6. births + 1 \in Runs /\ \A m \in Runs : m <= births => m # births + 1
  <2>1. Runs = 1..MaxRuns /\ MaxRuns \in Nat BY BudgetTypes
  <2>2. births < MaxRuns BY <1>2
  <2>3. births + 1 \in 1..MaxRuns BY <1>4, <2>1, <2>2
  <2>4. \A m \in 1..MaxRuns : m <= births => m # births + 1 BY <1>4, <2>1
  <2>. QED BY <2>1, <2>3, <2>4
<1>7. \A m \in Runs : m < births => SameBudget(m) BY <1>4, <1>5, <1>6, BudgetTypes DEF SameBudget
<1>8. run'[births + 1] = new BY <1>5, <1>6
<1>9. births > 0 => run'[births] = run[births] BY <1>5, <1>6, BudgetTypes
<1>10. Spent + 0 <= Spent'
  BY TakenBackGrows, <1>2, BudgetTypes, SpentTypeNext DEF Spent, external
<1>11. births > 0 => /\ run'[births].grants = run[births].grants + 0
                     /\ run'[births].max = run[births].max + 0
                     /\ run'[births].started => births + 1 <= run'[births + 1].max
  BY <1>1, <1>3, <1>4, <1>8, <1>9, BudgetTypes
<1>12. /\ run'[births + 1].max <= peak + PriorGrants + 0
       /\ run'[births + 1].grants = PriorGrants + 0
  BY <1>3, <1>4, <1>8
<1>13. births + 1 <= peak + Spent'
  <2>1. PriorGrants <= Spent BY <1>4 DEF BInv, LatestPaid, PriorGrants
  <2>2. \A b, t, p, g, s, s1 \in Nat :
            b < t + g /\ t <= p /\ g <= s /\ s <= s1 => b + 1 <= p + s1
    OBVIOUS
  <2>3. Spent <= Spent' BY <1>4, <1>10
  <2>. QED BY <1>1, <1>4, <2>1, <2>2, <2>3
<1>. QED BY <1>2, <1>7, <1>10, <1>11, <1>12, <1>13, BudgetBirth

LEMMA InitBudget == Init => BInv
<1>. SUFFICES ASSUME Init PROVE BInv OBVIOUS
<1>1. births = 0 /\ peak = taskMax /\ capped = 0 /\ uncapped = 0 BY DEF Init
<1>2. taskMax \in Nat /\ Spent \in Nat /\ Cardinality(TakenBack) \in Nat
  BY InitInvariant, BudgetTypes
<1>3. GrantsGrow BY <1>1 DEF GrantsGrow, Runs
<1>4. RoomKept BY <1>1 DEF RoomKept, Runs
<1>5. LatestPaid BY <1>1 DEF LatestPaid
<1>6. EveryExtraRunIsPaidFor BY <1>1, <1>2 DEF EveryExtraRunIsPaidFor
<1>. QED BY <1>1, <1>2, <1>3, <1>4, <1>5, <1>6 DEF BInv

LEMMA NextBudget == IInv /\ BInv /\ [Next]_vars => BInv'
<1>. SUFFICES ASSUME IInv, BInv, [Next]_vars PROVE BInv' OBVIOUS
<1>1. CASE UNCHANGED vars
  BY <1>1 DEF vars, BInv, GrantsGrow, RoomKept, LatestPaid, EveryExtraRunIsPaidFor, Spent, TakenBack
<1>2. ASSUME Next PROVE BInv'
  <2>0. IInv' /\ (KeepsEnds \/ UNCHANGED vars) BY NextInvariant
  <2>. SUFFICES ASSUME KeepsEnds PROVE BInv' BY <1>1, <2>0
  <2>1. CASE RunnerNext
    <3>. PICK n \in Runs :
            \/ \/ ClaimRun(n) \/ SettleQueuedCandidate(n)
               \/ \E g \in Gens : \/ StartRun(n, g) \/ HeartbeatRun(n, g)
                                  \/ SuspendForInbox(n, g) \/ AcknowledgeCancellation(n, g)
            \/ \E g \in Gens : CompleteRun(n, g) \/ Salvage(n, g)
      BY <2>1, Zenon DEF RunnerNext
    <3>. QED BY <2>0, RunnerBudget, CompleteRunBudget, SalvageBudget
  <2>2. CASE OperatorNext
    BY <2>0, <2>2, OperatorBudget, OperatorBirthBudget, TaskOnlyBudget DEF OperatorNext
  <2>3. CASE SweepNext
    BY <2>0, <2>3, TaskOnlyBudget, SweepOrphanBudget, SweepExpiredBudget DEF SweepNext
  <2>4. CASE TimeNext BY <2>0, <2>4, OperatorBudget DEF TimeNext
  <2>. QED BY <1>2, <2>1, <2>2, <2>3, <2>4 DEF Next
<1>. QED BY <1>1, <1>2

\* BInv holds in every reachable state of the Run kernel.
THEOREM BudgetInvariant == Spec => []BInv
BY Invariant, InitBudget, NextBudget, PTL DEF Spec

\* No refund is counted twice: every Run beyond the largest budget the Task had
\* is paid for by an attempt taken back or an external failure refunded.
THEOREM ExtraRunsArePaidFor == Spec => []EveryExtraRunIsPaidFor
BY BudgetInvariant, PTL DEF BInv

\* Start and Retry give one answer, and a salvage that takes a claim back always
\* has room for the replacement.
THEOREM OneBudget == Spec => []BudgetChecksAgree
<1>1. IInv /\ BInv => BudgetChecksAgree
  <2>. SUFFICES ASSUME IInv, BInv PROVE BudgetChecksAgree OBVIOUS
  <2>1. StartAndRetryAgree BY ChecksAgree DEF StartAndRetryAgree
  <2>2. SalvageHasRoom
    <3>. SUFFICES ASSUME NEW n \in Runs, InvalidatesClaim(n) PROVE n + 1 < run[n + 1].max + 1
      BY DEF SalvageHasRoom
    <3>1. n < births /\ run[n].started BY DEF InvalidatesClaim
    <3>2. n + 1 <= run[n + 1].max BY <3>1 DEF BInv, RoomKept
    <3>3. n + 1 \in Runs /\ n \in Nat BY <3>1, BudgetTypes
    <3>4. run[n + 1].max \in Nat BY <3>3, BudgetTypes
    <3>. QED BY <3>2, <3>3, <3>4
  <2>. QED BY <2>1, <2>2 DEF BudgetChecksAgree
<1>. QED BY <1>1, Invariant, BudgetInvariant, PTL
=============================================================================
