--------------------------- MODULE MergeLeaseProofs ---------------------------
(***************************************************************************)
(* Theorems about MergeLease, for every set of Chains and handlers and all *)
(* bounds.                                                                 *)
(*                                                                         *)
(* IInv adds to the types what ties a handler to the other stores: a busy  *)
(* one works for a Chain and the row it is to settle exists (JobOK), and   *)
(* the blob on the ref is one that was pushed.  NamedOK and AnsweredOK say *)
(* who answers for a lease that stands, and for which Chain.               *)
(***************************************************************************)
EXTENDS MergeLease, TLAPS

-----------------------------------------------------------------------------
(***************************************************************************)
(* The inductive invariant.                                                *)
(***************************************************************************)
JobOK(j, l) ==
    /\ j \in Job
    /\ j.event # 0 => j.event \in DOMAIN l
    /\ j.pc = "settle" \/ j.why = "reason" => j.event # 0
    /\ j.pc # "idle" => j.chain \in Chains

JobsOK == job \in [Procs -> Job] /\ \A p \in Procs : JobOK(job[p], ledger)

LedgerOK(l) == l \in Seq(Event) /\ Len(l) <= MaxEvents

RunsOK(r) == r \in [Chains -> Seq(RunStatus)] /\ \A c \in Chains : Len(r[c]) <= MaxRuns

RefOK ==
    /\ ref \in [holder: Holders, sha: Shas]
    /\ pushed \in Shas
    /\ ref.sha <= pushed

IInv ==
    /\ RefOK
    /\ step \in [Chains -> StepStatus]
    /\ RunsOK(run)
    /\ LedgerOK(ledger)
    /\ JobsOK
    /\ forsaken \subseteq Shas

\* A ledger that lost no row of l and changed no settled one.
Keeps(l, m) ==
    /\ Len(l) <= Len(m)
    /\ \A i \in DOMAIN l : l[i].state \notin OpenStates => m[i] = l[i]

-----------------------------------------------------------------------------
(***************************************************************************)
(* What the helpers build.                                                 *)
(***************************************************************************)
\* The open row of a Chain has the type of a row.
LEMMA OpenEventType ==
    ASSUME NEW c \in Chains, NEW state \in OpenStates, NEW n \in 0..MaxRuns,
           NEW owner \in {"regression", "integrator"}
    PROVE  OpenEvent(c, state, n, owner) \in Event
BY LeaseAssumption DEF OpenEvent, Event, EventState, OpenStates, Shas

\* A row appended to a ledger with room leaves the earlier ones alone.
LEMMA AppendOK ==
    ASSUME NEW l, LedgerOK(l), Len(l) < MaxEvents, NEW e \in Event
    PROVE  LedgerOK(Append(l, e)) /\ Keeps(l, Append(l, e))
BY LeaseAssumption DEF LedgerOK, Keeps

\* Overwriting an open row with a row keeps the settled ones.
LEMMA OverwriteOK ==
    ASSUME NEW l, LedgerOK(l), NEW i \in DOMAIN l, l[i].state \in OpenStates, NEW e \in Event
    PROVE  LedgerOK([l EXCEPT ![i] = e]) /\ Keeps(l, [l EXCEPT ![i] = e])
BY LeaseAssumption DEF LedgerOK, Keeps

\* Settling by id writes open rows only.
LEMMA ClosedOK ==
    ASSUME NEW l, LedgerOK(l), NEW i \in DOMAIN l, NEW state \in {"RELEASED", "INVALID"}
    PROVE  /\ LedgerOK(Closed(l, i, state)) /\ Keeps(l, Closed(l, i, state))
           /\ Len(Closed(l, i, state)) = Len(l)
<1>. DEFINE e == [l[i] EXCEPT !.state = state]
<1>1. l[i] \in Event BY DEF LedgerOK
<1>2. e \in Event BY <1>1 DEF Event, EventState
<1>3. CASE l[i].state \in OpenStates
  <2>1. Closed(l, i, state) = [l EXCEPT ![i] = e] BY <1>3 DEF Closed
  <2>2. Len([l EXCEPT ![i] = e]) = Len(l) BY DEF LedgerOK
  <2>3. LedgerOK([l EXCEPT ![i] = e]) /\ Keeps(l, [l EXCEPT ![i] = e])
    <3>. HIDE DEF e
    <3>. QED BY <1>2, <1>3, OverwriteOK
  <2>. HIDE DEF e
  <2>. QED BY <2>1, <2>2, <2>3
<1>4. CASE l[i].state \notin OpenStates
  BY <1>4 DEF Closed, Keeps, LedgerOK
<1>. QED BY <1>3, <1>4

\* Evidence is recorded on an open row or on a new one.
LEMMA EvidenceOK ==
    ASSUME NEW l, LedgerOK(l), NEW c \in Chains, NEW sha \in Shas,
           NEW m \in WithEvidence(l, c, sha), Len(m) <= MaxEvents
    PROVE  LedgerOK(m) /\ Keeps(l, m)
<1>1. CASE m = l BY <1>1 DEF Keeps, LedgerOK
<1>2. ASSUME NEW i \in OpenEvents(l, c), m = [l EXCEPT ![i].state = "RELEASED", ![i].sha = sha]
      PROVE  LedgerOK(m) /\ Keeps(l, m)
  <2>. DEFINE e == [l[i] EXCEPT !.state = "RELEASED", !.sha = sha]
  <2>1. i \in DOMAIN l /\ l[i].state \in OpenStates /\ l[i] \in Event
    BY <1>2 DEF OpenEvents, LedgerOK
  <2>2. e \in Event BY <2>1 DEF Event, EventState
  <2>3. m = [l EXCEPT ![i] = e] BY <1>2, <2>1 DEF LedgerOK
  <2>. QED BY <2>1, <2>2, <2>3, OverwriteOK
<1>3. CASE m = Append(l, [chain |-> c, state |-> "RELEASED", run |-> 0,
                          sha |-> sha, owner |-> "integrator"])
  <2>. DEFINE e == [chain |-> c, state |-> "RELEASED", run |-> 0, sha |-> sha, owner |-> "integrator"]
  <2>1. e \in Event BY LeaseAssumption DEF Event, EventState
  <2>2. Len(l) < MaxEvents BY <1>3, LeaseAssumption DEF LedgerOK
  <2>. QED BY <1>3, <2>1, <2>2, AppendOK
<1>. QED BY <1>1, <1>2, <1>3 DEF WithEvidence

\* The handoff row moves to the new Run or is opened for it.
LEMMA TransferOK ==
    ASSUME LedgerOK(ledger), NEW c \in Chains, NEW n \in 0..MaxRuns,
           NEW m \in Transferred(ledger, c, n)
    PROVE  LedgerOK(m) /\ Keeps(ledger, m)
<1>1. ASSUME NEW i \in OwnHandoff(c), m = [ledger EXCEPT ![i].run = n]
      PROVE  LedgerOK(m) /\ Keeps(ledger, m)
  <2>. DEFINE e == [ledger[i] EXCEPT !.run = n]
  <2>1. i \in DOMAIN ledger /\ ledger[i].state \in OpenStates /\ ledger[i] \in Event
    BY <1>1 DEF OwnHandoff, OpenEvents, LedgerOK
  <2>2. e \in Event BY <2>1 DEF Event
  <2>3. m = [ledger EXCEPT ![i] = e] BY <1>1, <2>1 DEF LedgerOK
  <2>. QED BY <2>1, <2>2, <2>3, OverwriteOK
<1>2. ASSUME m = Append(ledger, OpenEvent(c, "HANDOFF_PENDING", n, "integrator")),
             Len(ledger) < MaxEvents
      PROVE  LedgerOK(m) /\ Keeps(ledger, m)
  <2>1. OpenEvent(c, "HANDOFF_PENDING", n, "integrator") \in Event
    BY OpenEventType DEF OpenStates
  <2>. QED BY <1>2, <2>1, AppendOK
<1>. QED BY <1>1, <1>2 DEF Transferred

\* The last Run of a Chain takes a new status.
LEMMA SettledOK ==
    ASSUME RunsOK(run), NEW c \in Chains, LastRun(c) # "NONE", NEW s \in RunStatus
    PROVE  RunsOK(Settled(c, s)) /\ Len(Settled(c, s)[c]) = Len(run[c])
<1>1. run[c] \in Seq(RunStatus) /\ run[c] # <<>> BY DEF RunsOK, LastRun
<1>2. Len(run[c]) \in DOMAIN run[c] BY <1>1
<1>. DEFINE row == [run[c] EXCEPT ![Len(run[c])] = s]
<1>3. row \in Seq(RunStatus) /\ Len(row) = Len(run[c]) BY <1>1, <1>2
<1>4. Settled(c, s) = [run EXCEPT ![c] = row] BY DEF Settled
<1>. QED BY <1>3, <1>4 DEF RunsOK

\* A ledger that only grew keeps every job in order, and one job replaced by
\* one in order as well.
LEMMA JobsKept ==
    ASSUME JobsOK, LedgerOK(ledger), LedgerOK(ledger'), Keeps(ledger, ledger'),
           NEW p \in Procs, NEW j, JobOK(j, ledger'), job' = [job EXCEPT ![p] = j]
    PROVE  JobsOK'
<1>1. DOMAIN ledger \subseteq DOMAIN ledger' BY DEF LedgerOK, Keeps
<1>2. ASSUME NEW q \in Procs PROVE JobOK(job[q], ledger')
  BY <1>1 DEF JobsOK, JobOK
<1>3. job' \in [Procs -> Job] BY DEF JobsOK, JobOK
<1>4. ASSUME NEW q \in Procs PROVE JobOK(job'[q], ledger')
  BY <1>2, <1>4 DEF JobsOK
<1>. QED BY <1>3, <1>4 DEF JobsOK

\* A ledger that only grew keeps every job in order.
LEMMA JobsStand ==
    ASSUME JobsOK, LedgerOK(ledger), LedgerOK(ledger'), Keeps(ledger, ledger'), UNCHANGED job
    PROVE  JobsOK'
<1>1. DOMAIN ledger \subseteq DOMAIN ledger' BY DEF LedgerOK, Keeps
<1>. QED BY <1>1 DEF JobsOK, JobOK

\* A Chain's last Run ends and a new one is queued.
LEMMA RequeuedOK ==
    ASSUME RunsOK(run), NEW c \in Chains, LastRun(c) # "NONE", NEW s \in RunStatus,
           Len(run[c]) < MaxRuns
    PROVE  RunsOK([run EXCEPT ![c] = Append(Settled(c, s)[c], "QUEUED")])
<1>. DEFINE old == Settled(c, s)[c]
            row == Append(old, "QUEUED")
<1>1. old \in Seq(RunStatus) /\ Len(old) = Len(run[c]) BY SettledOK DEF RunsOK
<1>2. row \in Seq(RunStatus) /\ Len(row) <= MaxRuns
  <2>. HIDE DEF old
  <2>. QED BY <1>1, LeaseAssumption DEF RunStatus
<1>3. [run EXCEPT ![c] = Append(Settled(c, s)[c], "QUEUED")] = [run EXCEPT ![c] = row]
  OBVIOUS
<1>. HIDE DEF row
<1>. QED BY <1>2, <1>3 DEF RunsOK

-----------------------------------------------------------------------------
(***************************************************************************)
(* Each kind of job a handler turns to is in order.                        *)
(***************************************************************************)
\* An idle job, and a release that was just committed.
LEMMA FreshJobs ==
    ASSUME NEW l, LedgerOK(l)
    PROVE  /\ JobOK(Idle, l)
           /\ \A c \in Chains : /\ JobOK(Claiming(c), l)
                               /\ \A why \in {"held", "thrown", "stop"} : JobOK(Releasing(c, why, 0), l)
                               /\ \A i \in DOMAIN l : /\ JobOK(Releasing(c, "sweep", i), l)
                                                     /\ JobOK(Releasing(c, "reason", i), l)
<1>1. JobOK(Idle, l)
  BY LeaseAssumption DEF JobOK, Idle, Job, Pc, Why, Holders, Shas
<1>2. ASSUME NEW c \in Chains
      PROVE  /\ JobOK(Claiming(c), l)
             /\ \A why \in {"held", "thrown", "stop"} : JobOK(Releasing(c, why, 0), l)
  <2>1. JobOK(Claiming(c), l)
    BY <1>2, LeaseAssumption DEF JobOK, Claiming, Job, Pc, Why, Holders, Shas
  <2>2. ASSUME NEW why \in {"held", "thrown", "stop"} PROVE JobOK(Releasing(c, why, 0), l)
    BY <1>2, LeaseAssumption DEF JobOK, Releasing, Job, Pc, Why, Holders, Shas
  <2>. QED BY <2>1, <2>2
<1>3. ASSUME NEW c \in Chains, NEW i \in DOMAIN l
      PROVE  JobOK(Releasing(c, "sweep", i), l) /\ JobOK(Releasing(c, "reason", i), l)
  <2>1. i \in 0..MaxEvents /\ i # 0 BY LeaseAssumption DEF LedgerOK
  <2>. QED BY <2>1, LeaseAssumption DEF JobOK, Releasing, Job, Pc, Why, Holders, Shas
<1>. QED BY <1>1, <1>2, <1>3

\* A busy job moves on.
LEMMA NextPc ==
    ASSUME NEW l, NEW j, JobOK(j, l), j.pc # "idle", NEW pc \in Pc \ {"settle"}
    PROVE  JobOK([j EXCEPT !.pc = pc], l)
BY DEF JobOK, Job

\* ... also past a confirmed or a skipped release.
LEMMA AfterRelease ==
    ASSUME NEW p \in Procs, JobOK(job[p], ledger), LedgerOK(ledger), job[p].pc # "idle"
    PROVE  JobOK(Skipped(p), ledger) /\ JobOK(Confirmed(p), ledger)
<1>1. JobOK(Skipped(p), ledger)
  BY FreshJobs, NextPc DEF Skipped, Pc
<1>2. JobOK([job[p] EXCEPT !.pc = "settle"], ledger) \/ job[p].event = 0
  BY DEF JobOK, Job, Pc
<1>. QED BY <1>1, <1>2 DEF Confirmed

-----------------------------------------------------------------------------
(***************************************************************************)
(* Every step keeps IInv and the settled rows.                             *)
(***************************************************************************)
\* A ledger nobody wrote kept its rows.
LEMMA KeepsSame == ASSUME LedgerOK(ledger), ledger' = ledger PROVE Keeps(ledger, ledger')
BY DEF Keeps, LedgerOK

\* What a handler may leave to nobody is a blob that was pushed.
LEMMA ForsakeOK ==
    ASSUME RefOK, forsaken \subseteq Shas, NEW c, Forsake(c) \/ UNCHANGED forsaken
    PROVE  forsaken' \subseteq Shas
BY DEF RefOK, Forsake

\* The readiness tick.
LEMMA TickOK ==
    ASSUME IInv, ReadinessTick
    PROVE  IInv' /\ Keeps(ledger, ledger')
<1>. USE DEF IInv
<1>0. Tick \in Procs /\ JobOK(job[Tick], ledger) BY DEF Procs, JobsOK
<1>. DEFINE c == job[Tick].chain
<1>1. ASSUME NEW d \in Chains, ClaimReadinessStep(d) PROVE IInv' /\ Keeps(ledger, ledger')
  <2>1. UNCHANGED <<ref, pushed, run, ledger, forsaken>> /\ step' = [step EXCEPT ![d] = "DOING"]
    BY <1>1 DEF ClaimReadinessStep
  <2>2. JobsOK'
    BY <1>0, <1>1, <2>1, KeepsSame, FreshJobs, JobsKept DEF ClaimReadinessStep
  <2>. QED BY <2>1, <2>2, KeepsSame DEF RefOK, RunsOK, LedgerOK, StepStatus
<1>2. CASE SettlePreAcquire
  <2>1. UNCHANGED <<ref, pushed, run, ledger, forsaken>> /\ c \in Chains
    BY <1>0, <1>2 DEF SettlePreAcquire, JobOK
  <2>2. step' \in [Chains -> StepStatus]
    BY <1>2, <2>1 DEF SettlePreAcquire, StepStatus
  <2>3. PICK j \in {Idle, Releasing(c, "stop", 0)} : job' = [job EXCEPT ![Tick] = j]
    BY <1>2 DEF SettlePreAcquire, Stop
  <2>4. JobOK(j, ledger') BY <2>1, <2>3, FreshJobs
  <2>5. JobsOK' BY <1>0, <2>1, <2>3, <2>4, KeepsSame, JobsKept
  <2>. QED BY <2>1, <2>2, <2>5, KeepsSame DEF RefOK, RunsOK, LedgerOK
<1>3. CASE AcquirePush
  <2>1. UNCHANGED <<step, run, ledger, forsaken>> /\ c \in Chains
    BY <1>0, <1>3 DEF AcquirePush, JobOK
  <2>2. RefOK'
    BY <1>3, <2>1, LeaseAssumption DEF AcquirePush, RefOK, Holders, Shas
  <2>3. JobOK([job[Tick] EXCEPT !.pc = "pushed"], ledger')
    BY <1>0, <1>3, <2>1, NextPc DEF AcquirePush, Pc
  <2>4. JobsOK'
    BY <1>0, <1>3, <2>1, <2>3, KeepsSame, JobsKept DEF AcquirePush, Goto
  <2>. QED BY <2>1, <2>2, <2>4, KeepsSame DEF RunsOK, LedgerOK
<1>4. CASE AcquireRead
  <2>1. UNCHANGED <<ref, pushed, step, run, ledger, forsaken>> BY <1>4 DEF AcquireRead
  <2>2. PICK j \in {Idle, [job[Tick] EXCEPT !.pc = "window"]} : job' = [job EXCEPT ![Tick] = j]
    BY <1>4 DEF AcquireRead, Goto, Stop
  <2>3. JobOK(j, ledger')
    <3>1. JobOK([job[Tick] EXCEPT !.pc = "window"], ledger)
      BY <1>0, <1>4, NextPc DEF AcquireRead, Pc
    <3>. QED BY <2>1, <2>2, <3>1, FreshJobs
  <2>4. JobsOK' BY <1>0, <2>1, <2>2, <2>3, KeepsSame, JobsKept
  <2>. QED BY <2>1, <2>4, KeepsSame DEF RefOK, RunsOK, LedgerOK
<1>5. CASE Authorize
  <2>1. UNCHANGED <<ref, pushed, forsaken>> /\ c \in Chains /\ Len(run[c]) < MaxRuns
    BY <1>0, <1>5 DEF Authorize, JobOK
  <2>2. step' \in [Chains -> StepStatus] BY <1>5, <2>1 DEF Authorize, StepStatus
  <2>3. run[c] \in Seq(RunStatus) /\ "QUEUED" \in RunStatus BY <2>1 DEF RunsOK, RunStatus
  <2>. DEFINE row == Append(run[c], "QUEUED")
  <2>4. RunsOK(run')
    <3>1. row \in Seq(RunStatus) /\ Len(row) = Len(run[c]) + 1 BY <2>3
    <3>2. run' = [run EXCEPT ![c] = row] BY <1>5 DEF Authorize
    <3>. HIDE DEF row
    <3>. QED BY <2>1, <2>3, <3>1, <3>2, LeaseAssumption DEF RunsOK
  <2>5. Len(run[c]) + 1 \in 0..MaxRuns BY <2>1, <2>3, LeaseAssumption
  <2>6. OpenEvent(c, "HANDOFF_PENDING", Len(run[c]) + 1, "integrator") \in Event
    BY <2>1, <2>5, OpenEventType DEF OpenStates
  <2>7. LedgerOK(ledger') /\ Keeps(ledger, ledger')
    BY <1>5, <2>6, AppendOK DEF Authorize
  <2>8. JobsOK'
    BY <1>0, <1>5, <2>7, FreshJobs, JobsKept DEF Authorize, Stop
  <2>. QED BY <2>1, <2>2, <2>4, <2>7, <2>8 DEF RefOK, LedgerOK
<1>6. CASE SettleHeld
  <2>1. UNCHANGED <<ref, pushed, run, ledger, forsaken>> /\ c \in Chains
    BY <1>0, <1>6 DEF SettleHeld, JobOK
  <2>2. step' \in [Chains -> StepStatus] BY <1>6, <2>1 DEF SettleHeld, StepStatus
  <2>3. JobsOK'
    BY <1>0, <1>6, <2>1, KeepsSame, FreshJobs, JobsKept DEF SettleHeld
  <2>. QED BY <2>1, <2>2, <2>3, KeepsSame DEF RefOK, RunsOK, LedgerOK
<1>7. CASE CallbackThrows
  <2>1. UNCHANGED <<ref, pushed, step, run, ledger, forsaken>> /\ c \in Chains
    BY <1>0, <1>7 DEF CallbackThrows, JobOK
  <2>2. JobsOK'
    BY <1>0, <1>7, <2>1, KeepsSame, FreshJobs, JobsKept DEF CallbackThrows
  <2>. QED BY <2>1, <2>2, KeepsSame DEF RefOK, RunsOK, LedgerOK
<1>8. CASE RequeueException
  <2>1. UNCHANGED <<ref, pushed, run, ledger, forsaken>> /\ c \in Chains
    BY <1>0, <1>8 DEF RequeueException, JobOK
  <2>2. step' \in [Chains -> StepStatus] BY <1>8, <2>1 DEF RequeueException, StepStatus
  <2>3. JobsOK'
    BY <1>0, <1>8, <2>1, KeepsSame, FreshJobs, JobsKept DEF RequeueException
  <2>. QED BY <2>1, <2>2, <2>3, KeepsSame DEF RefOK, RunsOK, LedgerOK
<1>. QED BY <1>1, <1>2, <1>3, <1>4, <1>5, <1>6, <1>7, <1>8, Zenon DEF ReadinessTick

\* Releases and what is recorded about them.
LEMMA ReleaseOK ==
    ASSUME IInv, NEW p \in Procs, Release(p)
    PROVE  IInv' /\ Keeps(ledger, ledger')
<1>. USE DEF IInv
<1>. DEFINE c == job[p].chain
            e == job[p].event
<1>0. JobOK(job[p], ledger) BY DEF JobsOK
<1>1. CASE ReleaseLoad(p)
  <2>1. UNCHANGED <<ref, pushed, step, run, ledger, forsaken>> /\ job[p].pc = "load"
    BY <1>1 DEF ReleaseLoad
  <2>. DEFINE d == [job[p] EXCEPT !.pc = "delete", !.sha = ref.sha]
  <2>2. JobOK(d, ledger) BY <1>0, <2>1 DEF JobOK, Job, Pc, RefOK
  <2>3. JobOK(Skipped(p), ledger) /\ JobOK(Confirmed(p), ledger)
    BY <1>0, <2>1, AfterRelease
  <2>4. PICK j \in {Confirmed(p), Skipped(p), d} : job' = [job EXCEPT ![p] = j]
    BY <1>1 DEF ReleaseLoad
  <2>5. JobsOK' BY <2>1, <2>2, <2>3, <2>4, KeepsSame, JobsKept
  <2>. QED BY <2>1, <2>5, KeepsSame DEF RefOK, RunsOK, LedgerOK
<1>2. CASE ReleaseDelete(p)
  <2>1. UNCHANGED <<pushed, step, run, ledger, forsaken>> /\ job[p].pc = "delete"
    BY <1>2 DEF ReleaseDelete
  <2>2. RefOK'
    BY <1>2, <2>1, LeaseAssumption DEF ReleaseDelete, DeletedRef, Free, RefOK, Holders, Shas
  <2>3. PICK pc \in {"hold", "failed"} : job' = [job EXCEPT ![p].pc = pc]
    BY <1>2 DEF ReleaseDelete, Goto
  <2>4. JobOK([job[p] EXCEPT !.pc = pc], ledger') BY <1>0, <2>1, NextPc DEF Pc
  <2>5. JobsOK' BY <2>1, <2>3, <2>4, KeepsSame, JobsKept
  <2>. QED BY <2>1, <2>2, <2>5, KeepsSame DEF RunsOK, LedgerOK
<1>3. CASE ReleaseUnreachable(p)
  <2>1. UNCHANGED <<ref, pushed, step, run, ledger, forsaken>> /\ job[p].pc # "idle"
    BY <1>3 DEF ReleaseUnreachable
  <2>2. JobOK([job[p] EXCEPT !.pc = "failed"], ledger') BY <1>0, <2>1, NextPc DEF Pc
  <2>3. JobsOK'
    BY <1>3, <2>1, <2>2, KeepsSame, JobsKept DEF ReleaseUnreachable, Goto
  <2>. QED BY <2>1, <2>3, KeepsSame DEF RefOK, RunsOK, LedgerOK
<1>4. CASE RecordMergeLeaseHold(p)
  <2>1. UNCHANGED <<ref, pushed, step, run>> /\ job[p].pc = "hold" BY <1>4 DEF RecordMergeLeaseHold
  <2>2. c \in Chains /\ job[p].sha \in Shas BY <1>0, <2>1 DEF JobOK, Job
  <2>3. LedgerOK(ledger') /\ Keeps(ledger, ledger')
    <3>1. PICK l \in WithEvidence(ledger, c, job[p].sha) : Len(l) <= MaxEvents /\ ledger' = l
      BY <1>4 DEF RecordMergeLeaseHold
    <3>. QED BY <2>2, <3>1, EvidenceOK
  <2>4. JobOK(Confirmed(p), ledger) BY <1>0, <2>1, AfterRelease
  <2>5. JobOK(Confirmed(p), ledger') BY <2>3, <2>4 DEF JobOK, LedgerOK, Keeps
  <2>6. JobsOK' BY <1>4, <2>3, <2>5, JobsKept DEF RecordMergeLeaseHold
  <2>7. forsaken' \subseteq Shas BY <1>4, ForsakeOK DEF RecordMergeLeaseHold
  <2>. QED BY <2>1, <2>3, <2>6, <2>7 DEF RefOK, RunsOK, LedgerOK
<1>5. CASE SettleEvent(p)
  <2>1. UNCHANGED <<ref, pushed, step, run>> BY <1>5 DEF SettleEvent
  <2>2. e \in DOMAIN ledger BY <1>0, <1>5 DEF SettleEvent, JobOK
  <2>3. LedgerOK(ledger') /\ Keeps(ledger, ledger') BY <1>5, <2>2, ClosedOK DEF SettleEvent
  <2>4. JobsOK' BY <1>5, <2>3, FreshJobs, JobsKept DEF SettleEvent, Stop
  <2>5. forsaken' \subseteq Shas BY <1>5, ForsakeOK DEF SettleEvent
  <2>. QED BY <2>1, <2>3, <2>4, <2>5 DEF RefOK, RunsOK, LedgerOK
<1>6. CASE FailHeld(p)
  <2>1. UNCHANGED <<ref, pushed, step, run>> BY <1>6 DEF FailHeld
  <2>2. c \in Chains BY <1>0, <1>6 DEF FailHeld, JobOK
  <2>3. OpenEvent(c, "RELEASE_DEFERRED", 0, "regression") \in Event
    BY <2>2, LeaseAssumption, OpenEventType DEF OpenStates
  <2>4. LedgerOK(ledger') /\ Keeps(ledger, ledger')
    BY <1>6, <2>3, AppendOK, KeepsSame DEF FailHeld, DeferredByTick
  <2>5. JobsOK' BY <1>6, <2>4, FreshJobs, JobsKept DEF FailHeld, Stop
  <2>6. forsaken' \subseteq Shas BY <1>6, ForsakeOK DEF FailHeld
  <2>. QED BY <2>1, <2>4, <2>5, <2>6 DEF RefOK, RunsOK, LedgerOK
<1>7. CASE FailKept(p) \/ FailStop(p)
  <2>1. UNCHANGED <<ref, pushed, step, run, ledger>> BY <1>7 DEF FailKept, FailStop
  <2>2. JobsOK' BY <1>7, <2>1, KeepsSame, FreshJobs, JobsKept DEF FailKept, FailStop, Stop
  <2>3. forsaken' \subseteq Shas BY <1>7, ForsakeOK DEF FailKept, FailStop
  <2>. QED BY <2>1, <2>2, <2>3, KeepsSame DEF RefOK, RunsOK, LedgerOK
<1>8. CASE FailReason(p)
  <2>1. UNCHANGED <<ref, pushed, step, run>> BY <1>8 DEF FailReason
  <2>2. c \in Chains /\ e \in DOMAIN ledger BY <1>0, <1>8 DEF FailReason, JobOK
  <2>3. OpenEvent(c, "RELEASE_DEFERRED", 0, "integrator") \in Event
    BY <2>2, LeaseAssumption, OpenEventType DEF OpenStates
  <2>. DEFINE l == Closed(ledger, e, "INVALID")
  <2>4. LedgerOK(l) /\ Keeps(ledger, l) /\ Len(l) = Len(ledger) BY <2>2, ClosedOK
  <2>5. ASSUME Len(ledger) < MaxEvents,
               ledger' = Append(l, OpenEvent(c, "RELEASE_DEFERRED", 0, "integrator"))
        PROVE  LedgerOK(ledger') /\ Keeps(ledger, ledger')
    <3>. HIDE DEF l
    <3>1. LedgerOK(ledger') /\ Keeps(l, ledger') BY <2>3, <2>4, <2>5, AppendOK
    <3>2. Keeps(ledger, ledger') BY <2>4, <3>1 DEF Keeps, LedgerOK
    <3>. QED BY <3>1, <3>2
  <2>6. LedgerOK(ledger') /\ Keeps(ledger, ledger')
    BY <1>8, <2>5, KeepsSame DEF FailReason
  <2>7. JobsOK' BY <1>8, <2>6, FreshJobs, JobsKept DEF FailReason, Stop
  <2>8. forsaken' \subseteq Shas BY <1>8, ForsakeOK DEF FailReason
  <2>. QED BY <2>1, <2>6, <2>7, <2>8 DEF RefOK, RunsOK, LedgerOK
<1>. QED BY <1>1, <1>2, <1>3, <1>4, <1>5, <1>6, <1>7, <1>8, Zenon DEF Release

\* The mechanical Run, the sweeps and everybody else.
LEMMA RunOK ==
    ASSUME IInv, NEW c \in Chains,
           ActivateReadiness(c) \/ ClaimRun(c) \/ RetryCompletes(c) \/ LoseRun(c)
    PROVE  IInv' /\ Keeps(ledger, ledger')
<1>. USE DEF IInv
<1>1. CASE ActivateReadiness(c)
  <2>1. UNCHANGED <<ref, pushed, run, ledger, job, forsaken>>
    BY <1>1 DEF ActivateReadiness
  <2>2. step' \in [Chains -> StepStatus] BY <1>1 DEF ActivateReadiness, StepStatus
  <2>. QED BY <2>1, <2>2, KeepsSame DEF RefOK, RunsOK, LedgerOK, JobsOK
<1>2. CASE ClaimRun(c)
  <2>1. UNCHANGED <<ref, pushed, step, ledger, job, forsaken>> BY <1>2 DEF ClaimRun
  <2>2. RunsOK(run') BY <1>2, SettledOK DEF ClaimRun, RunStatus
  <2>. QED BY <2>1, <2>2, KeepsSame DEF RefOK, LedgerOK, JobsOK
<1>3. CASE RetryCompletes(c)
  <2>1. UNCHANGED <<ref, pushed, step, job, forsaken>> /\ Len(run[c]) < MaxRuns
    BY <1>3 DEF RetryCompletes
  <2>2. RunsOK(run') BY <1>3, RequeuedOK DEF RetryCompletes, RunStatus
  <2>3. Len(run[c]) + 1 \in 0..MaxRuns BY <2>1, LeaseAssumption DEF RunsOK
  <2>4. LedgerOK(ledger') /\ Keeps(ledger, ledger')
    BY <1>3, <2>3, TransferOK DEF RetryCompletes
  <2>5. JobsOK' BY <2>1, <2>4, JobsStand
  <2>. QED BY <2>1, <2>2, <2>4, <2>5 DEF RefOK, LedgerOK
<1>4. CASE LoseRun(c)
  <2>1. UNCHANGED <<ref, pushed, step, ledger, job, forsaken>> BY <1>4 DEF LoseRun
  <2>2. RunsOK(run') BY <1>4, RequeuedOK DEF LoseRun, RunStatus
  <2>. QED BY <2>1, <2>2, KeepsSame DEF RefOK, LedgerOK, JobsOK
<1>. QED BY <1>1, <1>2, <1>3, <1>4

LEMMA EndOK ==
    ASSUME IInv, NEW p \in Handlers, NEW c \in Chains,
           MergeCompletes(p, c) \/ FailCompletes(p, c) \/ LoseLast(p, c)
    PROVE  IInv' /\ Keeps(ledger, ledger')
<1>. USE DEF IInv
<1>1. UNCHANGED <<ref, pushed, step, ledger, forsaken>> /\ p \in Procs
  BY DEF MergeCompletes, FailCompletes, LoseLast, Procs
<1>2. PICK s \in {"MERGED", "FAILED", "LOST"} : Ends(p, c, s)
  BY DEF MergeCompletes, FailCompletes, LoseLast
<1>3. RunsOK(run') BY <1>2, SettledOK DEF Ends, RunStatus
<1>4. PICK j : JobOK(j, ledger) /\ job' = [job EXCEPT ![p] = j]
  <2>1. JobOK(Releasing(c, "stop", 0), ledger) BY FreshJobs
  <2>2. \A i \in OwnHandoff(c) : JobOK(Releasing(c, "reason", i), ledger)
    BY FreshJobs DEF OwnHandoff, OpenEvents
  <2>. QED BY <2>1, <2>2 DEF MergeCompletes, FailCompletes, LoseLast
<1>5. JobsOK' BY <1>1, <1>4, KeepsSame, JobsKept
<1>. QED BY <1>1, <1>3, <1>5, KeepsSame DEF RefOK, LedgerOK

LEMMA RestOK ==
    ASSUME IInv,
           \/ \E p \in Handlers, i \in DOMAIN ledger : Sweep(p, i)
           \/ \E p \in Procs : Crash(p)
           \/ OutsideTakes \/ OutsideReleases
           \/ UNCHANGED vars
    PROVE  IInv' /\ Keeps(ledger, ledger')
<1>. USE DEF IInv
<1>1. ASSUME NEW p \in Handlers, NEW i \in DOMAIN ledger, Sweep(p, i)
      PROVE  IInv' /\ Keeps(ledger, ledger')
  <2>1. UNCHANGED <<ref, pushed, step, run, ledger, forsaken>> /\ p \in Procs
    BY <1>1 DEF Sweep, Procs
  <2>2. ledger[i].chain \in Chains
    <3>1. ledger[i] \in Event BY <1>1 DEF LedgerOK
    <3>. QED BY <3>1 DEF Event
  <2>3. JobOK(Releasing(ledger[i].chain, "sweep", i), ledger) BY <1>1, <2>2, FreshJobs
  <2>4. JobsOK' BY <1>1, <2>1, <2>3, KeepsSame, JobsKept DEF Sweep
  <2>. QED BY <2>1, <2>4, KeepsSame DEF RefOK, RunsOK, LedgerOK
<1>2. ASSUME NEW p \in Procs, Crash(p) PROVE IInv' /\ Keeps(ledger, ledger')
  <2>1. UNCHANGED <<ref, pushed, step, run, ledger>> BY <1>2 DEF Crash
  <2>2. JobsOK' BY <1>2, <2>1, KeepsSame, FreshJobs, JobsKept DEF Crash, Stop
  <2>3. forsaken' \subseteq Shas BY <1>2, ForsakeOK DEF Crash
  <2>. QED BY <2>1, <2>2, <2>3, KeepsSame DEF RefOK, RunsOK, LedgerOK
<1>3. CASE OutsideTakes
  <2>1. UNCHANGED <<step, run, ledger, job, forsaken>> BY <1>3 DEF OutsideTakes
  <2>2. RefOK' BY <1>3, LeaseAssumption DEF OutsideTakes, RefOK, Holders, Shas
  <2>. QED BY <2>1, <2>2, KeepsSame DEF RunsOK, LedgerOK, JobsOK
<1>4. CASE OutsideReleases
  <2>1. UNCHANGED <<pushed, step, run, ledger, job, forsaken>> BY <1>4 DEF OutsideReleases
  <2>2. RefOK' BY <1>4, LeaseAssumption DEF OutsideReleases, Free, RefOK, Holders, Shas
  <2>. QED BY <2>1, <2>2, KeepsSame DEF RunsOK, LedgerOK, JobsOK
<1>5. CASE UNCHANGED vars
  BY <1>5, KeepsSame DEF vars, RefOK, RunsOK, LedgerOK, JobsOK
<1>. QED BY <1>1, <1>2, <1>3, <1>4, <1>5

LEMMA StepOK == ASSUME IInv, [Next]_vars PROVE IInv' /\ Keeps(ledger, ledger')
BY TickOK, ReleaseOK, RunOK, EndOK, RestOK, Zenon DEF Next

LEMMA InitOK == Init => IInv
<1>. SUFFICES ASSUME Init PROVE IInv OBVIOUS
<1>1. RefOK BY LeaseAssumption DEF Init, Free, RefOK, Holders, Shas
<1>2. RunsOK(run) /\ step \in [Chains -> StepStatus]
  BY LeaseAssumption DEF Init, RunsOK, StepStatus
<1>3. LedgerOK(ledger) BY LeaseAssumption DEF Init, LedgerOK
<1>4. JobsOK
  <2>1. \A p \in Procs : job[p] = Idle BY DEF Init
  <2>2. JobOK(Idle, ledger) /\ Idle \in Job BY <1>3, FreshJobs DEF JobOK
  <2>3. job = [p \in Procs |-> Idle] BY DEF Init
  <2>. QED BY <2>1, <2>2, <2>3 DEF JobsOK
<1>. QED BY <1>1, <1>2, <1>3, <1>4 DEF Init, IInv

-----------------------------------------------------------------------------
(***************************************************************************)
(* The theorems.                                                           *)
(***************************************************************************)
\* Every reachable state is well formed, and so is what the proof needs to
\* know of the handlers.
THEOREM Invariant == Spec => []IInv
BY InitOK, StepOK, PTL DEF Spec

\* Rows, jobs, Runs and the ref keep their types, whatever the interleaving of
\* handlers, crashes and answers of origin.
THEOREM TypeCorrect == Spec => []TypeOK
<1>1. IInv => TypeOK BY DEF IInv, RefOK, RunsOK, LedgerOK, JobsOK, TypeOK
<1>. QED BY <1>1, Invariant, PTL

\* No handler, however late, writes a row that was released or closed.
THEOREM SettledForGood == Spec => SettledStaysSettled
<1>. DEFINE Still == \A i \in DOMAIN ledger :
                        ledger[i].state \notin OpenStates => ledger'[i] = ledger[i]
<1>1. IInv /\ [Next]_vars => Still BY StepOK DEF Keeps
<1>2. Spec => [][Still]_vars BY <1>1, Invariant, PTL DEF Spec
<1>. QED BY <1>2 DEF SettledStaysSettled

-----------------------------------------------------------------------------
(***************************************************************************)
(* Whose lease a release deletes.  LoadedOK is needed for it: the blob a   *)
(* handler has loaded and not yet deleted is, for as long as it stands,    *)
(* the handler's Chain's, since every lease taken later has a newer blob.  *)
(***************************************************************************)
Loaded(j, r, n) ==
    j.pc = "delete" => j.sha \in 1..n /\ (r.sha = j.sha => r.holder = j.chain)

LoadedOK == \A p \in Procs : Loaded(job[p], ref, pushed)

\* The ref stays, goes, or gets a newer blob.
RefMoves ==
    \/ UNCHANGED <<ref, pushed>>
    \/ ref' = Free /\ UNCHANGED pushed
    \/ ref'.sha = pushed + 1 /\ pushed' = pushed + 1

LEMMA RefStep == ASSUME [Next]_vars PROVE RefMoves
<1>1. ASSUME NEW p, Release(p) PROVE RefMoves
  BY <1>1 DEF Release, RefMoves, ReleaseLoad, ReleaseDelete, DeletedRef, ReleaseUnreachable,
              RecordMergeLeaseHold, SettleEvent, FailHeld, FailKept, FailStop, FailReason
<1>2. CASE ReadinessTick
  BY <1>2 DEF ReadinessTick, RefMoves, ClaimReadinessStep, SettlePreAcquire, AcquirePush,
              AcquireRead, Authorize, SettleHeld, CallbackThrows, RequeueException
<1>3. ASSUME NEW c, \/ ActivateReadiness(c) \/ ClaimRun(c) \/ RetryCompletes(c) \/ LoseRun(c)
                    \/ \E p \in Handlers : MergeCompletes(p, c) \/ FailCompletes(p, c)
                                           \/ LoseLast(p, c)
      PROVE  RefMoves
  BY <1>3 DEF RefMoves, ActivateReadiness, ClaimRun, RetryCompletes, LoseRun,
              MergeCompletes, FailCompletes, LoseLast
<1>4. ASSUME NEW p, Crash(p) \/ \E i \in DOMAIN ledger : Sweep(p, i) PROVE RefMoves
  BY <1>4 DEF RefMoves, Crash, Sweep
<1>5. CASE OutsideTakes \/ OutsideReleases \/ UNCHANGED vars
  BY <1>5 DEF RefMoves, OutsideTakes, OutsideReleases, vars
<1>. QED BY <1>1, <1>2, <1>3, <1>4, <1>5, Zenon DEF Next

\* A handler that is about to delete was so before, or has just loaded.
JobMoves(p) ==
    \/ job'[p].pc # "delete"
    \/ job'[p] = job[p]
    \/ /\ ref.sha # 0 /\ UNCHANGED <<ref, pushed>>
       /\ job'[p].sha = ref.sha /\ job'[p].chain = ref.holder

\* No job but the loaded one is about to delete.
LEMMA NotLoaded ==
    ASSUME NEW j, NEW pc \in Pc \ {"delete"}, j \in Job
    PROVE  [j EXCEPT !.pc = pc].pc # "delete"
BY DEF Job

LEMMA OneJobMoves ==
    ASSUME JobsOK, NEW p \in Procs, NEW q \in Procs, NEW j, j.pc # "delete",
           job' = [job EXCEPT ![q] = j]
    PROVE  JobMoves(p)
BY DEF JobsOK, JobMoves

LEMMA JobStep == ASSUME IInv, [Next]_vars, NEW p \in Procs PROVE JobMoves(p)
<1>0. JobsOK /\ Tick \in Procs /\ Handlers \subseteq Procs BY DEF IInv, Procs
<1>1. /\ Idle.pc # "delete"
      /\ \A c : Claiming(c).pc # "delete"
      /\ \A c, why, e : Releasing(c, why, e).pc # "delete"
  BY DEF Idle, Claiming, Releasing
<1>2. ASSUME NEW q \in Procs, Stop(q) PROVE JobMoves(p)
  BY <1>0, <1>1, <1>2, OneJobMoves DEF Stop
<1>3. ASSUME NEW q \in Procs, NEW pc \in Pc \ {"delete"}, Goto(q, pc) PROVE JobMoves(p)
  BY <1>0, <1>3, NotLoaded, OneJobMoves DEF Goto, JobsOK
<1>4. ASSUME NEW q \in Procs, NEW c, NEW why, NEW e, job' = [job EXCEPT ![q] = Releasing(c, why, e)]
      PROVE  JobMoves(p)
  BY <1>0, <1>1, <1>4, OneJobMoves
<1>5. ASSUME NEW q \in Procs, job' = [job EXCEPT ![q] = Confirmed(q)], job[q].pc # "delete"
      PROVE  JobMoves(p)
  <2>1. Skipped(q).pc # "delete" BY <1>0, <1>1, NotLoaded DEF Skipped, JobsOK, Pc
  <2>2. Confirmed(q).pc # "delete" BY <1>0, <2>1, NotLoaded DEF Confirmed, JobsOK, Pc
  <2>. QED BY <1>0, <1>5, <2>2, OneJobMoves
<1>6. CASE ReadinessTick
  <2>1. ASSUME NEW c \in Chains, ClaimReadinessStep(c) PROVE JobMoves(p)
    BY <1>0, <1>1, <2>1, OneJobMoves DEF ClaimReadinessStep
  <2>2. CASE SettlePreAcquire BY <1>0, <1>2, <1>4, <2>2 DEF SettlePreAcquire
  <2>3. CASE AcquirePush \/ AcquireRead BY <1>0, <1>2, <1>3, <2>3 DEF AcquirePush, AcquireRead, Pc
  <2>4. CASE Authorize BY <1>0, <1>2, <2>4 DEF Authorize
  <2>5. CASE SettleHeld \/ CallbackThrows \/ RequeueException
    BY <1>0, <1>4, <2>5 DEF SettleHeld, CallbackThrows, RequeueException
  <2>. QED BY <1>6, <2>1, <2>2, <2>3, <2>4, <2>5, Zenon DEF ReadinessTick
<1>7. ASSUME NEW q \in Procs, Release(q) PROVE JobMoves(p)
  <2>1. CASE ReleaseLoad(q)
    <3>. DEFINE d == [job[q] EXCEPT !.pc = "delete", !.sha = ref.sha]
    <3>1. CASE ref.sha # 0 /\ ref.holder = job[q].chain
      <4>1. job' = [job EXCEPT ![q] = d] /\ UNCHANGED <<ref, pushed>>
        BY <2>1, <3>1 DEF ReleaseLoad
      <4>2. d.sha = ref.sha /\ d.chain = job[q].chain BY <1>0 DEF JobsOK, Job
      <4>. HIDE DEF d
      <4>. QED BY <1>0, <3>1, <4>1, <4>2 DEF JobMoves, JobsOK
    <3>2. CASE ref.sha = 0 BY <1>5, <2>1, <3>2 DEF ReleaseLoad
    <3>3. CASE ref.sha # 0 /\ ref.holder # job[q].chain
      <4>1. job' = [job EXCEPT ![q] = Skipped(q)] BY <2>1, <3>3 DEF ReleaseLoad
      <4>2. Skipped(q).pc # "delete" BY <1>0, <1>1, NotLoaded DEF Skipped, JobsOK, Pc
      <4>. QED BY <1>0, <4>1, <4>2, OneJobMoves
    <3>. QED BY <3>1, <3>2, <3>3
  <2>2. CASE ReleaseDelete(q) \/ ReleaseUnreachable(q)
    BY <1>3, <2>2 DEF ReleaseDelete, ReleaseUnreachable, Pc
  <2>3. CASE RecordMergeLeaseHold(q) BY <1>5, <2>3 DEF RecordMergeLeaseHold
  <2>4. CASE SettleEvent(q) \/ FailHeld(q) \/ FailKept(q) \/ FailStop(q) \/ FailReason(q)
    BY <1>2, <2>4 DEF SettleEvent, FailHeld, FailKept, FailStop, FailReason
  <2>. QED BY <1>7, <2>1, <2>2, <2>3, <2>4, Zenon DEF Release
<1>8. ASSUME NEW q \in Handlers, NEW c \in Chains,
             MergeCompletes(q, c) \/ FailCompletes(q, c) \/ LoseLast(q, c)
      PROVE  JobMoves(p)
  BY <1>0, <1>4, <1>8 DEF MergeCompletes, FailCompletes, LoseLast
<1>9. ASSUME NEW q \in Handlers, NEW i \in DOMAIN ledger, Sweep(q, i) PROVE JobMoves(p)
  BY <1>0, <1>4, <1>9 DEF Sweep
<1>10. ASSUME NEW q \in Procs, Crash(q) PROVE JobMoves(p) BY <1>2, <1>10 DEF Crash
<1>11. ASSUME UNCHANGED job PROVE JobMoves(p) BY <1>11 DEF JobMoves
<1>12. ASSUME NEW c \in Chains,
              ActivateReadiness(c) \/ ClaimRun(c) \/ RetryCompletes(c) \/ LoseRun(c)
       PROVE  JobMoves(p)
  BY <1>11, <1>12 DEF ActivateReadiness, ClaimRun, RetryCompletes, LoseRun
<1>13. CASE OutsideTakes \/ OutsideReleases \/ UNCHANGED vars
  BY <1>11, <1>13 DEF OutsideTakes, OutsideReleases, vars
<1>. QED BY <1>6, <1>7, <1>8, <1>9, <1>10, <1>12, <1>13, Zenon DEF Next

LEMMA LoadedStep == ASSUME IInv, LoadedOK, [Next]_vars PROVE LoadedOK'
<1>. SUFFICES ASSUME NEW p \in Procs, job'[p].pc = "delete"
              PROVE  /\ job'[p].sha \in 1..pushed'
                     /\ ref'.sha = job'[p].sha => ref'.holder = job'[p].chain
  BY DEF LoadedOK, Loaded
<1>1. pushed \in Nat /\ ref.sha \in Nat /\ ref.sha <= pushed
  BY LeaseAssumption DEF IInv, RefOK, Shas
<1>2. JobMoves(p) /\ RefMoves BY JobStep, RefStep
<1>3. CASE job'[p] = job[p]
  <2>1. job[p].sha \in 1..pushed /\ (ref.sha = job[p].sha => ref.holder = job[p].chain)
    BY <1>3 DEF LoadedOK, Loaded
  <2>. QED BY <1>1, <1>2, <1>3, <2>1 DEF RefMoves, Free
<1>. QED BY <1>1, <1>2, <1>3 DEF JobMoves

THEOREM Ownership == Spec => [](IInv /\ LoadedOK)
<1>1. Init => LoadedOK BY DEF Init, LoadedOK, Loaded, Idle
<1>. QED BY <1>1, LoadedStep, Invariant, PTL DEF Spec

\* A lease leaves the ref by the hand of a handler of its own Chain that loaded
\* this very lease, or because somebody outside took it or returned their own.
THEOREM ReleaseOwned == Spec => ReleaseTakesOnlyItsOwn
<1>. DEFINE Own == ref'.sha # ref.sha /\ ref.sha # 0 =>
                     \/ ref'.holder = Outside /\ ref'.sha > ref.sha
                     \/ ref.holder = Outside /\ OutsideReleases
                     \/ \E p \in Procs : /\ job[p].pc = "delete" /\ job[p].sha = ref.sha
                                         /\ job[p].chain = ref.holder
<1>1. ASSUME IInv, LoadedOK, [Next]_vars PROVE Own
  <2>1. CASE UNCHANGED ref BY <2>1
  <2>2. ASSUME NEW p \in Procs, ReleaseDelete(p) PROVE Own
    BY <1>1, <2>2 DEF ReleaseDelete, DeletedRef, LoadedOK, Loaded
  <2>3. CASE AcquirePush BY <2>3 DEF AcquirePush
  <2>4. CASE OutsideTakes
    BY <1>1, <2>4, LeaseAssumption DEF OutsideTakes, IInv, RefOK, Shas
  <2>5. CASE OutsideReleases BY <2>5 DEF OutsideReleases, Held
  <2>6. ASSUME ReadinessTick PROVE Own
    BY <2>1, <2>3, <2>6 DEF ReadinessTick, ClaimReadinessStep, SettlePreAcquire, AcquireRead,
                            Authorize, SettleHeld, CallbackThrows, RequeueException
  <2>7. ASSUME NEW p \in Procs, Release(p) PROVE Own
    BY <2>1, <2>2, <2>7 DEF Release, ReleaseLoad, ReleaseUnreachable, RecordMergeLeaseHold,
                            SettleEvent, FailHeld, FailKept, FailStop, FailReason
  <2>8. ASSUME NEW p, Crash(p) \/ \E i \in DOMAIN ledger : Sweep(p, i) PROVE Own
    BY <2>1, <2>8 DEF Crash, Sweep
  <2>9. ASSUME NEW c, \/ ActivateReadiness(c) \/ ClaimRun(c) \/ RetryCompletes(c) \/ LoseRun(c)
                      \/ \E p \in Handlers : MergeCompletes(p, c) \/ FailCompletes(p, c)
                                             \/ LoseLast(p, c)
        PROVE  Own
    BY <2>1, <2>9 DEF ActivateReadiness, ClaimRun, RetryCompletes, LoseRun,
                      MergeCompletes, FailCompletes, LoseLast
  <2>10. CASE UNCHANGED vars BY <2>1, <2>10 DEF vars
  <2>. HIDE DEF Own
  <2>. QED BY <1>1, <2>4, <2>5, <2>6, <2>7, <2>8, <2>9, <2>10, Zenon DEF Next
<1>2. Spec => [][Own]_vars
  <2>. HIDE DEF Own
  <2>. QED BY <1>1, Ownership, PTL DEF Spec
<1>. QED BY <1>2 DEF ReleaseTakesOnlyItsOwn

-----------------------------------------------------------------------------
(***************************************************************************)
(* Who answers for a lease.  LeaseIsAnsweredFor counts every handler that  *)
(* works for the Chain, which is more than the next step can rely on: a    *)
(* handler past its delete (hold, settle) may find a lease taken after it, *)
(* and one of a thrown window or a sweep gives up without a trace.  Owes   *)
(* counts those only that end in a record or in Forsake; what the others   *)
(* leave is a claimed Step or the swept row itself.                        *)
(***************************************************************************)
Owes(j, c) ==
    /\ j.chain = c /\ j.pc \in {"load", "delete", "failed"}
    /\ j.why \in {"held", "stop", "reason"}

Deferred(l, c) == \E i \in DOMAIN l : l[i].chain = c /\ l[i].state = "RELEASE_DEFERRED"

Backed(c) ==
    \/ step[c] \in {"TODO", "DOING"}
    \/ LastRun(c) \in {"QUEUED", "CLAIMED"}
    \/ Deferred(ledger, c)
    \/ ref.sha \in forsaken

Answered(c) == (\E p \in Procs : Owes(job[p], c)) \/ Backed(c)

AnsweredOK ==
    /\ \A c \in Chains : Held(c) => Answered(c)
    /\ job[Tick].pc = "claimed" => step[job[Tick].chain] \in {"TODO", "DOING"}

LEMMA AnsweredEnough == ASSUME IInv, AnsweredOK PROVE LeaseIsAnsweredFor
<1>. SUFFICES ASSUME NEW c \in Chains, Held(c)
              PROVE  \/ \E p \in Procs : job[p].pc # "idle" /\ job[p].chain = c
                     \/ step[c] \in {"TODO", "DOING"}
                     \/ LastRun(c) \in {"QUEUED", "CLAIMED"}
                     \/ \E i \in OpenEvents(ledger, c) : Unresolved(i)
                     \/ ref.sha \in forsaken
  BY DEF LeaseIsAnsweredFor
<1>1. Answered(c) BY DEF AnsweredOK
<1>2. CASE \E p \in Procs : Owes(job[p], c) BY <1>2 DEF Owes
<1>3. CASE Deferred(ledger, c)
  BY <1>3 DEF Deferred, OpenEvents, OpenStates, Unresolved
<1>. QED BY <1>1, <1>2, <1>3 DEF Answered, Backed

\* A lease still held is answered for when at most one handler moved on, and
\* it still owes the release or left something behind.
LEMMA JobAnswers ==
    ASSUME JobsOK, NEW c \in Chains, Answered(c), NEW q \in Procs, NEW j,
           job' = [job EXCEPT ![q] = j],
           Backed(c) => Answered(c)', Owes(job[q], c) => Owes(j, c) \/ Backed(c)'
    PROVE  Answered(c)'
<1>1. job'[q] = j /\ \A p \in Procs : p # q => job'[p] = job[p] BY DEF JobsOK
<1>. QED BY <1>1 DEF Answered

\* What backs a lease stays, unless the Step, the Run or the rows of the Chain do not.
LEMMA BackedStays ==
    ASSUME NEW c \in Chains, Backed(c), UNCHANGED ref, forsaken \subseteq forsaken',
           step'[c] = step[c] \/ step'[c] \in {"TODO", "DOING"},
           run'[c] = run[c] \/ LastRun(c)' \in {"QUEUED", "CLAIMED"},
           Deferred(ledger, c) => Deferred(ledger', c) \/ ref.sha \in forsaken'
    PROVE  Backed(c)'
BY DEF Backed, LastRun


\* The readiness tick: a claimed Step is backing enough for the window, and
\* what the tick gives back it releases.
LEMMA TickAnswers == ASSUME IInv, AnsweredOK, ReadinessTick PROVE AnsweredOK'
<1>. USE DEF IInv
<1>0. Tick \in Procs /\ JobsOK /\ job[Tick] \in Job /\ step \in [Chains -> StepStatus]
  BY DEF Procs, JobsOK
<1>. DEFINE d == job[Tick].chain
            Kept == \A c \in Chains : Held(c)' => Answered(c)'
            Claimed == job'[Tick].pc = "claimed" => step'[job'[Tick].chain] \in {"TODO", "DOING"}
<1>1. \A c \in Chains : Held(c) => Answered(c) BY DEF AnsweredOK
<1>2. \A c, why, e : Releasing(c, why, e).pc = "load" /\ Releasing(c, why, e).chain = c
                     /\ Releasing(c, why, e).why = why
  BY DEF Releasing
<1>3. ASSUME NEW c \in Chains, ClaimReadinessStep(c) PROVE Kept /\ Claimed
  <2>1. /\ job' = [job EXCEPT ![Tick] = Claiming(c)] /\ job[Tick].pc = "idle"
        /\ step' = [step EXCEPT ![c] = "DOING"] /\ UNCHANGED <<ref, run, ledger, forsaken>>
    BY <1>3 DEF ClaimReadinessStep
  <2>2. ASSUME NEW b \in Chains, Held(b)' PROVE Answered(b)'
    <3>1. Answered(b) BY <1>1, <2>1, <2>2 DEF Held
    <3>2. Backed(b) => Backed(b)' BY <1>0, <2>1, BackedStays
    <3>. QED BY <1>0, <2>1, <3>1, <3>2, JobAnswers DEF Owes, Answered
  <2>3. Claimed BY <1>0, <2>1 DEF JobsOK, Claiming
  <2>. QED BY <2>2, <2>3
<1>4. ASSUME SettlePreAcquire \/ SettleHeld \/ RequeueException PROVE Kept /\ Claimed
  <2>1. /\ d \in Chains /\ job[Tick].pc \in {"claimed", "window", "requeue"}
        /\ \A b \in Chains \ {d} : step'[b] = step[b]
        /\ UNCHANGED <<ref, run, ledger, forsaken>>
    BY <1>0, <1>4 DEF SettlePreAcquire, SettleHeld, RequeueException, JobsOK, JobOK
  <2>2. \/ job' = [job EXCEPT ![Tick] = Idle] /\ step'[d] = step[d]
        \/ \E why \in {"held", "stop"} : job' = [job EXCEPT ![Tick] = Releasing(d, why, 0)]
    BY <1>4 DEF SettlePreAcquire, SettleHeld, RequeueException, Stop
  <2>3. job'[Tick].pc # "claimed" BY <1>0, <1>2, <2>2 DEF JobsOK, Idle
  <2>4. ASSUME NEW b \in Chains, Held(b)' PROVE Answered(b)'
    <3>1. Answered(b) BY <1>1, <2>1, <2>4 DEF Held
    <3>2. ~Owes(job[Tick], b) BY <2>1 DEF Owes
    <3>3. step'[b] = step[b] => (Backed(b) => Answered(b)') BY <2>1, BackedStays DEF Answered
    <3>4. CASE step'[b] = step[b]
      BY <1>0, <2>2, <3>1, <3>2, <3>3, <3>4, JobAnswers
    <3>5. CASE step'[b] # step[b]
      <4>1. b = d BY <2>1, <3>5
      <4>2. PICK why \in {"held", "stop"} : job' = [job EXCEPT ![Tick] = Releasing(d, why, 0)]
        BY <2>2, <3>5, <4>1
      <4>3. Owes(job'[Tick], b) BY <1>0, <1>2, <4>1, <4>2 DEF JobsOK, Owes
      <4>. QED BY <1>0, <4>3 DEF Answered
    <3>. QED BY <3>4, <3>5
  <2>. QED BY <2>3, <2>4
<1>5. ASSUME AcquirePush PROVE Kept /\ Claimed
  <2>1. /\ d \in Chains /\ job[Tick].pc = "claimed" /\ job' = [job EXCEPT ![Tick].pc = "pushed"]
        /\ UNCHANGED <<step, run, ledger, forsaken>>
        /\ UNCHANGED ref \/ ref'.holder = d
    BY <1>0, <1>5 DEF AcquirePush, Goto, JobsOK, JobOK
  <2>2. step[d] \in {"TODO", "DOING"} BY <2>1 DEF AnsweredOK
  <2>3. ASSUME NEW b \in Chains, Held(b)' PROVE Answered(b)'
    <3>1. CASE b = d BY <2>1, <2>2, <3>1 DEF Answered, Backed
    <3>2. CASE b # d
      <4>1. UNCHANGED ref BY <2>1, <2>3, <3>2 DEF Held
      <4>2. Answered(b) BY <1>1, <2>3, <4>1 DEF Held
      <4>3. Backed(b) => Answered(b)' BY <2>1, <4>1, BackedStays DEF Answered
      <4>. QED BY <1>0, <2>1, <4>2, <4>3, JobAnswers DEF Owes
    <3>. QED BY <3>1, <3>2
  <2>4. Claimed BY <1>0, <2>1 DEF JobsOK, Job
  <2>. QED BY <2>3, <2>4
<1>6. ASSUME AcquireRead \/ CallbackThrows PROVE Kept /\ Claimed
  <2>1. /\ job[Tick].pc \in {"pushed", "window"} /\ UNCHANGED <<ref, step, run, ledger, forsaken>>
    BY <1>6 DEF AcquireRead, CallbackThrows
  <2>. DEFINE Opened == [job[Tick] EXCEPT !.pc = "window"]
              Thrown == Releasing(d, "thrown", 0)
  <2>2. Opened.pc = "window" /\ Thrown.pc = "load" /\ Idle.pc = "idle"
    BY <1>0, <1>2 DEF Job, Idle
  <2>3. \/ job' = [job EXCEPT ![Tick] = Opened]
        \/ job' = [job EXCEPT ![Tick] = Thrown]
        \/ job' = [job EXCEPT ![Tick] = Idle]
    BY <1>0, <1>6 DEF AcquireRead, CallbackThrows, Goto, Stop, JobsOK
  <2>. HIDE DEF Opened, Thrown
  <2>4. PICK j : job' = [job EXCEPT ![Tick] = j] /\ j.pc # "claimed" BY <2>2, <2>3
  <2>5. ASSUME NEW b \in Chains, Held(b)' PROVE Answered(b)'
    <3>1. Answered(b) BY <1>1, <2>1, <2>5 DEF Held
    <3>2. Backed(b) => Answered(b)' BY <2>1, BackedStays DEF Answered
    <3>. QED BY <1>0, <2>1, <2>4, <3>1, <3>2, JobAnswers DEF Owes
  <2>6. Claimed BY <1>0, <2>4 DEF JobsOK
  <2>. QED BY <2>5, <2>6
<1>7. ASSUME Authorize PROVE Kept /\ Claimed
  <2>1. /\ d \in Chains /\ job[Tick].pc = "window" /\ job' = [job EXCEPT ![Tick] = Idle]
        /\ \A b \in Chains \ {d} : step'[b] = step[b] /\ run'[b] = run[b]
        /\ run'[d] = Append(run[d], "QUEUED") /\ run[d] \in Seq(RunStatus)
        /\ UNCHANGED <<ref, forsaken>>
    BY <1>0, <1>7 DEF Authorize, Stop, JobsOK, JobOK, RunsOK
  <2>2. ASSUME NEW b \in Chains, b = d PROVE LastRun(b)' = "QUEUED"
    <3>1. \A r \in Seq(RunStatus) :
            Append(r, "QUEUED") # <<>> /\ Append(r, "QUEUED")[Len(Append(r, "QUEUED"))] = "QUEUED"
      BY DEF RunStatus
    <3>. QED BY <2>1, <2>2, <3>1 DEF LastRun
  <2>3. \A b \in Chains : Deferred(ledger, b) => Deferred(ledger', b)
    <3>1. LedgerOK(ledger) /\ \E e : ledger' = Append(ledger, e) BY <1>7 DEF Authorize
    <3>. QED BY <3>1 DEF Deferred, LedgerOK
  <2>4. ASSUME NEW b \in Chains, Held(b)' PROVE Answered(b)'
    <3>1. Answered(b) BY <1>1, <2>1, <2>4 DEF Held
    <3>2. CASE b = d
      <4>1. LastRun(b)' = "QUEUED" BY <2>2, <3>2
      <4>2. Backed(b)' BY <4>1 DEF Backed
      <4>. QED BY <4>2 DEF Answered
    <3>3. CASE b # d
      <4>1. Backed(b) => Answered(b)' BY <2>1, <2>3, <3>3, BackedStays DEF Answered
      <4>. QED BY <1>0, <2>1, <3>1, <4>1, JobAnswers DEF Owes
    <3>. QED BY <3>2, <3>3
  <2>5. Claimed BY <1>0, <2>1 DEF JobsOK, Idle
  <2>. QED BY <2>4, <2>5
<1>8. Kept /\ Claimed
  <2>. HIDE DEF Kept, Claimed
  <2>. QED BY <1>3, <1>4, <1>5, <1>6, <1>7, Zenon DEF ReadinessTick
<1>. QED BY <1>8 DEF AnsweredOK

\* The row a handler is to settle is one of its own Chain: without this, closing
\* it could take the deferral of another Chain away.
NamedOK == \A p \in Procs : job[p].event # 0 => ledger[job[p].event].chain = job[p].chain

SameChains(l, m) == \A i \in DOMAIN l : i \in DOMAIN m /\ m[i].chain = l[i].chain

JobNames(p) ==
    \/ job'[p].event = 0
    \/ job'[p].event = job[p].event /\ job'[p].chain = job[p].chain
    \/ job'[p].event \in DOMAIN ledger /\ ledger[job'[p].event].chain = job'[p].chain

LEMMA LedgerStep == ASSUME IInv, [Next]_vars PROVE SameChains(ledger, ledger')
<1>. USE DEF IInv
<1>0. LedgerOK(ledger) /\ LeaseAssumption BY LeaseAssumption DEF LeaseAssumption
<1>1. \A i \in DOMAIN ledger : ledger[i] \in Event BY <1>0 DEF LedgerOK
<1>2. ASSUME UNCHANGED ledger PROVE SameChains(ledger, ledger') BY <1>2 DEF SameChains
<1>3. ASSUME NEW e, ledger' = Append(ledger, e) PROVE SameChains(ledger, ledger')
  BY <1>0, <1>3 DEF SameChains, LedgerOK
<1>4. ASSUME NEW i \in DOMAIN ledger, NEW n, ledger' = [ledger EXCEPT ![i].run = n]
      PROVE  SameChains(ledger, ledger')
  BY <1>0, <1>1, <1>4 DEF SameChains, LedgerOK, Event
<1>5. ASSUME NEW i \in DOMAIN ledger, NEW state PROVE SameChains(ledger, Closed(ledger, i, state))
  BY <1>0, <1>1, <1>5 DEF SameChains, LedgerOK, Event, Closed
<1>6. ASSUME NEW p \in Procs, Release(p) PROVE SameChains(ledger, ledger')
  <2>0. JobOK(job[p], ledger) BY DEF JobsOK
  <2>1. CASE RecordMergeLeaseHold(p)
    <3>1. ledger' \in WithEvidence(ledger, job[p].chain, job[p].sha)
      BY <2>1 DEF RecordMergeLeaseHold
    <3>2. ASSUME NEW i \in OpenEvents(ledger, job[p].chain),
                 ledger' = [ledger EXCEPT ![i].state = "RELEASED", ![i].sha = job[p].sha]
          PROVE  SameChains(ledger, ledger')
      BY <1>0, <1>1, <3>2 DEF SameChains, LedgerOK, Event, OpenEvents
    <3>. QED BY <1>2, <1>3, <3>1, <3>2 DEF WithEvidence
  <2>2. CASE SettleEvent(p) BY <1>5, <2>0, <2>2 DEF SettleEvent, JobOK
  <2>3. CASE FailHeld(p) BY <1>2, <1>3, <2>3 DEF FailHeld, DeferredByTick
  <2>4. CASE FailReason(p)
    <3>. DEFINE l == Closed(ledger, job[p].event, "INVALID")
    <3>1. job[p].event \in DOMAIN ledger BY <2>0, <2>4 DEF FailReason, JobOK
    <3>2. SameChains(ledger, l) /\ LedgerOK(l) BY <1>0, <1>5, <3>1, ClosedOK
    <3>3. UNCHANGED ledger \/ \E e : ledger' = Append(l, e) BY <2>4 DEF FailReason
    <3>. HIDE DEF l
    <3>. QED BY <1>2, <3>2, <3>3 DEF SameChains, LedgerOK
  <2>5. CASE UNCHANGED ledger BY <1>2, <2>5
  <2>. QED BY <1>6, <2>1, <2>2, <2>3, <2>4, <2>5
           DEF Release, ReleaseLoad, ReleaseDelete, ReleaseUnreachable, FailKept, FailStop
<1>7. CASE ReadinessTick
  BY <1>2, <1>3, <1>7 DEF ReadinessTick, ClaimReadinessStep, SettlePreAcquire, AcquirePush,
                          AcquireRead, Authorize, SettleHeld, CallbackThrows, RequeueException
<1>8. ASSUME NEW c \in Chains, RetryCompletes(c) PROVE SameChains(ledger, ledger')
  BY <1>3, <1>4, <1>8 DEF RetryCompletes, Transferred, OwnHandoff, OpenEvents
<1>9. ASSUME NEW c, \/ ActivateReadiness(c) \/ ClaimRun(c) \/ LoseRun(c)
                    \/ \E p \in Handlers : MergeCompletes(p, c) \/ FailCompletes(p, c)
                                           \/ LoseLast(p, c)
      PROVE  SameChains(ledger, ledger')
  BY <1>2, <1>9 DEF ActivateReadiness, ClaimRun, LoseRun, MergeCompletes, FailCompletes, LoseLast
<1>10. ASSUME NEW p, Crash(p) \/ \E i \in DOMAIN ledger : Sweep(p, i)
       PROVE  SameChains(ledger, ledger')
  BY <1>2, <1>10 DEF Crash, Sweep
<1>11. CASE OutsideTakes \/ OutsideReleases \/ UNCHANGED vars
  BY <1>2, <1>11 DEF OutsideTakes, OutsideReleases, vars
<1>. QED BY <1>6, <1>7, <1>8, <1>9, <1>10, <1>11, Zenon DEF Next

LEMMA NameStep == ASSUME IInv, [Next]_vars, NEW p \in Procs PROVE JobNames(p)
<1>0. JobsOK /\ Tick \in Procs /\ Handlers \subseteq Procs BY DEF IInv, Procs
<1>1. /\ Idle.event = 0
      /\ \A c : Claiming(c).event = 0
      /\ \A c, why, e : Releasing(c, why, e).event = e /\ Releasing(c, why, e).chain = c
  BY DEF Idle, Claiming, Releasing
<1>2. ASSUME NEW q \in Procs, NEW j, job' = [job EXCEPT ![q] = j],
             j.event = 0 \/ (j.event = job[q].event /\ j.chain = job[q].chain)
      PROVE  JobNames(p)
  BY <1>0, <1>2 DEF JobsOK, JobNames
<1>3. ASSUME NEW q \in Procs, Stop(q) PROVE JobNames(p) BY <1>1, <1>2, <1>3 DEF Stop
<1>4. ASSUME NEW q \in Procs, NEW pc, NEW sha PROVE
        /\ [job[q] EXCEPT !.pc = pc].event = job[q].event
        /\ [job[q] EXCEPT !.pc = pc].chain = job[q].chain
        /\ [job[q] EXCEPT !.pc = pc, !.sha = sha].event = job[q].event
        /\ [job[q] EXCEPT !.pc = pc, !.sha = sha].chain = job[q].chain
  BY <1>0 DEF JobsOK, Job
<1>5. ASSUME NEW q \in Procs, NEW pc, Goto(q, pc) PROVE JobNames(p)
  <2>. DEFINE j == [job[q] EXCEPT !.pc = pc]
  <2>1. job' = [job EXCEPT ![q] = j] BY <1>0, <1>5 DEF Goto, JobsOK
  <2>2. j.event = job[q].event /\ j.chain = job[q].chain BY <1>4
  <2>. HIDE DEF j
  <2>. QED BY <1>2, <2>1, <2>2
<1>6. ASSUME NEW q \in Procs, NEW c, NEW why, job' = [job EXCEPT ![q] = Releasing(c, why, 0)]
      PROVE  JobNames(p)
  <2>1. Releasing(c, why, 0).event = 0 BY <1>1
  <2>. QED BY <1>2, <1>6, <2>1, Zenon
<1>7. ASSUME NEW q \in Procs
      PROVE  \A j \in {Skipped(q), Confirmed(q)} :
                j.event = 0 \/ (j.event = job[q].event /\ j.chain = job[q].chain)
  BY <1>0, <1>1 DEF Skipped, Confirmed, JobsOK, Job
<1>8. CASE ReadinessTick
  <2>1. ASSUME NEW c \in Chains, ClaimReadinessStep(c) PROVE JobNames(p)
    BY <1>0, <1>1, <1>2, <2>1 DEF ClaimReadinessStep
  <2>2. CASE SettlePreAcquire BY <1>0, <1>3, <1>6, <2>2 DEF SettlePreAcquire
  <2>3. CASE AcquirePush \/ AcquireRead BY <1>0, <1>3, <1>5, <2>3 DEF AcquirePush, AcquireRead
  <2>4. CASE Authorize BY <1>0, <1>3, <2>4 DEF Authorize
  <2>5. CASE SettleHeld \/ CallbackThrows \/ RequeueException
    <3>1. \E why : job' = [job EXCEPT ![Tick] = Releasing(job[Tick].chain, why, 0)]
      BY <2>5 DEF SettleHeld, CallbackThrows, RequeueException
    <3>2. PICK why : job' = [job EXCEPT ![Tick] = Releasing(job[Tick].chain, why, 0)] BY <3>1
    <3>. QED BY <1>0, <1>6, <3>2
  <2>. QED BY <1>8, <2>1, <2>2, <2>3, <2>4, <2>5, Zenon DEF ReadinessTick
<1>9. ASSUME NEW q \in Procs, Release(q) PROVE JobNames(p)
  <2>1. CASE ReleaseLoad(q)
    <3>. DEFINE d == [job[q] EXCEPT !.pc = "delete", !.sha = ref.sha]
    <3>1. \E j \in {Skipped(q), Confirmed(q), d} : job' = [job EXCEPT ![q] = j]
      BY <2>1 DEF ReleaseLoad
    <3>2. d.event = job[q].event /\ d.chain = job[q].chain BY <1>0 DEF JobsOK, Job
    <3>. HIDE DEF d
    <3>. QED BY <1>2, <1>7, <3>1, <3>2
  <2>2. CASE ReleaseDelete(q) \/ ReleaseUnreachable(q)
    BY <1>5, <2>2 DEF ReleaseDelete, ReleaseUnreachable
  <2>3. CASE RecordMergeLeaseHold(q) BY <1>2, <1>7, <2>3 DEF RecordMergeLeaseHold
  <2>4. CASE SettleEvent(q) \/ FailHeld(q) \/ FailKept(q) \/ FailStop(q) \/ FailReason(q)
    BY <1>3, <2>4 DEF SettleEvent, FailHeld, FailKept, FailStop, FailReason
  <2>. QED BY <1>9, <2>1, <2>2, <2>3, <2>4, Zenon DEF Release
<1>10. ASSUME NEW q \in Handlers, NEW c \in Chains, NEW why, NEW e \in DOMAIN ledger,
              ledger[e].chain = c, job' = [job EXCEPT ![q] = Releasing(c, why, e)]
       PROVE  JobNames(p)
  BY <1>0, <1>1, <1>10 DEF JobsOK, JobNames
<1>11. ASSUME NEW q \in Handlers, NEW c \in Chains,
              MergeCompletes(q, c) \/ FailCompletes(q, c) \/ LoseLast(q, c)
       PROVE  JobNames(p)
  <2>1. CASE \E why : job' = [job EXCEPT ![q] = Releasing(c, why, 0)] BY <1>0, <1>6, <2>1
  <2>2. CASE \E e \in OwnHandoff(c) : job' = [job EXCEPT ![q] = Releasing(c, "reason", e)]
    BY <1>10, <2>2 DEF OwnHandoff, OpenEvents
  <2>. QED BY <1>11, <2>1, <2>2 DEF MergeCompletes, FailCompletes, LoseLast
<1>12. ASSUME NEW q \in Handlers, NEW i \in DOMAIN ledger, Sweep(q, i) PROVE JobNames(p)
  <2>1. ledger[i].chain \in Chains
    <3>1. ledger[i] \in Event BY DEF IInv, LedgerOK
    <3>. QED BY <3>1 DEF Event
  <2>. QED BY <1>10, <1>12, <2>1 DEF Sweep
<1>13. ASSUME NEW q \in Procs, Crash(q) PROVE JobNames(p) BY <1>3, <1>13 DEF Crash
<1>14. ASSUME UNCHANGED job PROVE JobNames(p) BY <1>14 DEF JobNames
<1>15. ASSUME NEW c \in Chains,
              ActivateReadiness(c) \/ ClaimRun(c) \/ RetryCompletes(c) \/ LoseRun(c)
       PROVE  JobNames(p)
  BY <1>14, <1>15 DEF ActivateReadiness, ClaimRun, RetryCompletes, LoseRun
<1>16. CASE OutsideTakes \/ OutsideReleases \/ UNCHANGED vars
  BY <1>14, <1>16 DEF OutsideTakes, OutsideReleases, vars
<1>. QED BY <1>8, <1>9, <1>11, <1>12, <1>13, <1>15, <1>16, Zenon DEF Next

LEMMA NamedStep == ASSUME IInv, NamedOK, [Next]_vars PROVE NamedOK'
<1>. SUFFICES ASSUME NEW p \in Procs, job'[p].event # 0
              PROVE  ledger'[job'[p].event].chain = job'[p].chain
  BY DEF NamedOK
<1>1. SameChains(ledger, ledger') /\ JobNames(p) BY LedgerStep, NameStep
<1>2. job[p].event # 0 => job[p].event \in DOMAIN ledger BY DEF IInv, JobsOK, JobOK
<1>. QED BY <1>1, <1>2 DEF SameChains, JobNames, NamedOK

\* A release that moves on leaves every lease answered for, if what it owed it
\* still owes, left in the ledger, or gave up where Forsake counts.
LEMMA OneReleases ==
    ASSUME IInv, AnsweredOK, NEW p \in Procs, NEW j, job' = [job EXCEPT ![p] = j],
           j.pc # "claimed", UNCHANGED <<step, run>>, forsaken \subseteq forsaken',
           UNCHANGED ref \/ ref'.sha = 0,
           \A b \in Chains : Held(b) /\ Deferred(ledger, b)
              => Deferred(ledger', b) \/ ref.sha \in forsaken',
           \A b \in Chains : Held(b) /\ Owes(job[p], b)
              => Owes(j, b) \/ Deferred(ledger', b) \/ ref.sha \in forsaken'
    PROVE  AnsweredOK'
<1>0. JobsOK BY DEF IInv
<1>1. ASSUME NEW b \in Chains, Held(b)' PROVE Answered(b)'
  <2>1. UNCHANGED ref /\ Held(b) BY <1>1 DEF Held
  <2>2. Answered(b) BY <2>1 DEF AnsweredOK
  <2>3. Backed(b) => Answered(b)' BY <2>1, BackedStays DEF Answered
  <2>4. Owes(job[p], b) => Owes(j, b) \/ Backed(b)' BY <2>1 DEF Backed
  <2>. QED BY <1>0, <2>2, <2>3, <2>4, JobAnswers
<1>2. job'[Tick].pc = "claimed" => step'[job'[Tick].chain] \in {"TODO", "DOING"}
  BY <1>0 DEF JobsOK, AnsweredOK
<1>. QED BY <1>1, <1>2 DEF AnsweredOK

\* Forsake counts a lease that stands.
LEMMA ForsakeCounts ==
    ASSUME NEW c, Forsake(c)
    PROVE  forsaken \subseteq forsaken' /\ (Held(c) => ref.sha \in forsaken')
BY DEF Forsake

\* Closing or replacing a row of a Chain touches the rows of no other.
LEMMA OthersDeferred ==
    ASSUME SameChains(ledger, ledger'), NEW c,
           \A i \in DOMAIN ledger : ledger[i].chain # c => ledger'[i] = ledger[i],
           NEW b, b # c, Deferred(ledger, b)
    PROVE  Deferred(ledger', b)
BY DEF Deferred, SameChains

LEMMA ReleaseAnswers ==
    ASSUME IInv, NamedOK, AnsweredOK, NEW p \in Procs, Release(p)
    PROVE  AnsweredOK'
<1>. DEFINE c == job[p].chain
            e == job[p].event
            Rows == \A b \in Chains : Held(b) /\ Deferred(ledger, b)
                       => Deferred(ledger', b) \/ ref.sha \in forsaken'
            Own(j) == \A b \in Chains : Held(b) /\ Owes(job[p], b)
                         => Owes(j, b) \/ Deferred(ledger', b) \/ ref.sha \in forsaken'
<1>0. /\ JobOK(job[p], ledger) /\ job[p] \in Job /\ job \in [Procs -> Job] /\ LedgerOK(ledger)
      /\ e # 0 => e \in DOMAIN ledger /\ ledger[e].chain = c
  BY DEF IInv, JobsOK, JobOK, NamedOK
<1>a. SameChains(ledger, ledger') BY LedgerStep DEF Next
<1>1. Idle.pc = "idle" /\ Skipped(p).pc # "claimed" /\ Confirmed(p).pc # "claimed"
  BY <1>0 DEF Idle, Skipped, Confirmed, Job
<1>2. ASSUME UNCHANGED ledger PROVE Rows BY <1>2
<1>3. CASE ReleaseLoad(p)
  <2>. DEFINE d == [job[p] EXCEPT !.pc = "delete", !.sha = ref.sha]
  <2>1. /\ job[p].pc = "load" /\ UNCHANGED <<ref, step, run, ledger, forsaken>>
        /\ \/ job' = [job EXCEPT ![p] = d]
           \/ ~Held(c) /\ \E j \in {Skipped(p), Confirmed(p)} : job' = [job EXCEPT ![p] = j]
    BY <1>3 DEF ReleaseLoad, Held
  <2>2. d.pc = "delete" /\ d.chain = c /\ d.why = job[p].why BY <1>0 DEF Job
  <2>. HIDE DEF d
  <2>3. Own(d) BY <2>2 DEF Owes
  <2>4. ~Held(c) => Own(Skipped(p)) /\ Own(Confirmed(p)) BY DEF Owes
  <2>5. CASE job' = [job EXCEPT ![p] = d]
    BY <1>2, <2>1, <2>2, <2>3, <2>5, OneReleases
  <2>6. ASSUME NEW j \in {Skipped(p), Confirmed(p)}, ~Held(c), job' = [job EXCEPT ![p] = j]
        PROVE  AnsweredOK'
    <3>1. Own(j) /\ j.pc # "claimed" BY <1>1, <2>4, <2>6
    <3>. QED BY <1>2, <2>1, <2>6, <3>1, OneReleases
  <2>. QED BY <2>1, <2>5, <2>6
<1>4. CASE ReleaseDelete(p) \/ ReleaseUnreachable(p)
  <2>1. /\ UNCHANGED <<step, run, ledger, forsaken>>
        /\ UNCHANGED ref \/ ref'.sha = 0
        /\ \/ Goto(p, "failed")
           \/ ref'.sha = 0 /\ Goto(p, "hold")
    BY <1>4 DEF ReleaseDelete, ReleaseUnreachable, DeletedRef, Free
  <2>. DEFINE j(pc) == [job[p] EXCEPT !.pc = pc]
  <2>2. \A pc : j(pc).pc = pc /\ j(pc).chain = c /\ j(pc).why = job[p].why BY <1>0 DEF Job
  <2>3. \A pc : Goto(p, pc) => job' = [job EXCEPT ![p] = j(pc)] BY <1>0 DEF Goto
  <2>. HIDE DEF j
  <2>4. Own(j("failed")) BY <2>2 DEF Owes
  <2>5. CASE Goto(p, "failed") BY <1>2, <2>1, <2>2, <2>3, <2>4, <2>5, OneReleases
  <2>6. CASE ref'.sha = 0 /\ Goto(p, "hold")
    <3>1. \A b \in Chains : ~Held(b)' BY <2>6 DEF Held
    <3>2. job' = [job EXCEPT ![p] = j("hold")] /\ j("hold").pc = "hold" BY <2>2, <2>3, <2>6
    <3>3. job'[Tick].pc = "claimed" => step'[job'[Tick].chain] \in {"TODO", "DOING"}
      BY <1>0, <2>1, <3>2 DEF AnsweredOK
    <3>. QED BY <3>1, <3>3 DEF AnsweredOK
  <2>. QED BY <2>1, <2>5, <2>6
<1>5. CASE RecordMergeLeaseHold(p)
  <2>1. /\ job[p].pc = "hold" /\ job' = [job EXCEPT ![p] = Confirmed(p)]
        /\ UNCHANGED <<ref, step, run>> /\ ledger' \in WithEvidence(ledger, c, job[p].sha)
        /\ OpenEvents(ledger, c) # OpenEvents(ledger', c) => Forsake(c)
        /\ OpenEvents(ledger, c) = OpenEvents(ledger', c) => UNCHANGED forsaken
    BY <1>5 DEF RecordMergeLeaseHold
  <2>2. forsaken \subseteq forsaken' BY <2>1, ForsakeCounts
  <2>3. Own(Confirmed(p)) BY <2>1 DEF Owes
  <2>4. ASSUME NEW b \in Chains, Held(b), Deferred(ledger, b)
        PROVE  Deferred(ledger', b) \/ ref.sha \in forsaken'
    <3>1. CASE UNCHANGED ledger BY <2>4, <3>1
    <3>2. ASSUME NEW x, ledger' = Append(ledger, x) PROVE Deferred(ledger', b)
      BY <1>0, <2>4, <3>2 DEF Deferred, LedgerOK
    <3>3. ASSUME NEW i \in OpenEvents(ledger, c),
                 ledger' = [ledger EXCEPT ![i].state = "RELEASED", ![i].sha = job[p].sha]
          PROVE  Deferred(ledger', b) \/ ref.sha \in forsaken'
      <4>1. i \in DOMAIN ledger /\ ledger[i].chain = c /\ ledger[i] \in Event
        BY <1>0, <3>3 DEF OpenEvents, LedgerOK
      <4>2. CASE b # c
        <5>1. \A k \in DOMAIN ledger : ledger[k].chain # c => ledger'[k] = ledger[k]
          BY <1>0, <3>3, <4>1 DEF LedgerOK
        <5>. QED BY <1>a, <2>4, <4>2, <5>1, OthersDeferred
      <4>3. CASE b = c
        <5>1. ledger'[i].state = "RELEASED" BY <1>0, <3>3, <4>1 DEF LedgerOK, Event
        <5>2. i \notin OpenEvents(ledger', c) BY <5>1 DEF OpenEvents, OpenStates
        <5>3. Forsake(c) BY <2>1, <3>3, <5>2
        <5>. QED BY <2>4, <4>3, <5>3, ForsakeCounts
      <4>. QED BY <4>2, <4>3
    <3>. QED BY <2>1, <3>1, <3>2, <3>3 DEF WithEvidence
  <2>. QED BY <1>1, <2>1, <2>2, <2>3, <2>4, OneReleases
<1>6. CASE SettleEvent(p)
  <2>1. /\ job[p].pc = "settle" /\ job' = [job EXCEPT ![p] = Idle] /\ UNCHANGED <<ref, step, run>>
        /\ ledger' = Closed(ledger, e, "RELEASED") /\ e \in DOMAIN ledger /\ ledger[e].chain = c
        /\ ledger' # ledger => Forsake(c)
        /\ ledger' = ledger => UNCHANGED forsaken
    BY <1>0, <1>6 DEF SettleEvent, Stop, JobOK
  <2>2. forsaken \subseteq forsaken' BY <2>1, ForsakeCounts
  <2>3. Own(Idle) BY <2>1 DEF Owes
  <2>4. ASSUME NEW b \in Chains, Held(b), Deferred(ledger, b)
        PROVE  Deferred(ledger', b) \/ ref.sha \in forsaken'
    <3>1. CASE UNCHANGED ledger BY <2>4, <3>1
    <3>2. CASE ledger' # ledger /\ b = c
      BY <2>1, <2>4, <3>2, ForsakeCounts
    <3>3. CASE b # c
      <4>1. \A k \in DOMAIN ledger : ledger[k].chain # c => ledger'[k] = ledger[k]
        BY <1>0, <2>1 DEF LedgerOK, Closed
      <4>. QED BY <1>a, <2>4, <3>3, <4>1, OthersDeferred
    <3>. QED BY <3>1, <3>2, <3>3
  <2>. QED BY <1>1, <2>1, <2>2, <2>3, <2>4, OneReleases
<1>7. CASE FailHeld(p)
  <2>1. /\ job' = [job EXCEPT ![p] = Idle] /\ UNCHANGED <<ref, step, run>>
        /\ ledger' = DeferredByTick(ledger, c)
        /\ OpenEvents(ledger, c) = {} \/ TickDeferred(c) \/ Forsake(c)
        /\ UNCHANGED forsaken \/ Forsake(c)
        /\ c \in Chains
    BY <1>0, <1>7 DEF FailHeld, Stop, JobOK
  <2>2. forsaken \subseteq forsaken' BY <2>1, ForsakeCounts
  <2>3. Rows
    <3>1. UNCHANGED ledger \/ \E x : ledger' = Append(ledger, x) BY <2>1 DEF DeferredByTick
    <3>. QED BY <1>0, <3>1 DEF Deferred, LedgerOK
  <2>4. Deferred(ledger', c) \/ (Held(c) => ref.sha \in forsaken')
    <3>1. CASE OpenEvents(ledger, c) = {}
      <4>. DEFINE x == OpenEvent(c, "RELEASE_DEFERRED", 0, "regression")
      <4>1. ledger' = Append(ledger, x) BY <2>1, <3>1 DEF DeferredByTick
      <4>2. x.chain = c /\ x.state = "RELEASE_DEFERRED" BY DEF OpenEvent
      <4>. HIDE DEF x
      <4>3. Len(ledger) + 1 \in DOMAIN ledger' /\ ledger'[Len(ledger) + 1] = x
        BY <1>0, <4>1 DEF LedgerOK
      <4>. QED BY <4>2, <4>3 DEF Deferred
    <3>2. CASE TickDeferred(c) BY <3>2 DEF TickDeferred, OpenEvents, Deferred
    <3>. QED BY <2>1, <3>1, <3>2, ForsakeCounts
  <2>5. Own(Idle) BY <2>4 DEF Owes
  <2>. QED BY <1>1, <2>1, <2>2, <2>3, <2>5, OneReleases
<1>8. CASE FailKept(p)
  <2>1. /\ job' = [job EXCEPT ![p] = Idle] /\ UNCHANGED <<ref, step, run, ledger, forsaken>>
        /\ job[p].why \in {"thrown", "sweep"}
    BY <1>8 DEF FailKept, Stop
  <2>2. Own(Idle) BY <2>1 DEF Owes
  <2>. QED BY <1>1, <1>2, <2>1, <2>2, OneReleases
<1>9. CASE FailStop(p)
  <2>1. /\ job' = [job EXCEPT ![p] = Idle] /\ UNCHANGED <<ref, step, run, ledger>> /\ Forsake(c)
    BY <1>9 DEF FailStop, Stop
  <2>2. Own(Idle) BY <2>1, ForsakeCounts DEF Owes
  <2>. QED BY <1>1, <1>2, <2>1, <2>2, OneReleases, ForsakeCounts
<1>10. CASE FailReason(p)
  <2>. DEFINE l == Closed(ledger, e, "INVALID")
              x == OpenEvent(c, "RELEASE_DEFERRED", 0, "integrator")
  <2>1. /\ job' = [job EXCEPT ![p] = Idle] /\ UNCHANGED <<ref, step, run>>
        /\ e \in DOMAIN ledger /\ ledger[e].chain = c
        /\ \/ ledger' = Append(l, x) /\ UNCHANGED forsaken
           \/ Forsake(c) /\ UNCHANGED ledger
    BY <1>0, <1>10 DEF FailReason, Stop, JobOK
  <2>2. forsaken \subseteq forsaken' BY <2>1, ForsakeCounts
  <2>3. x.chain = c /\ x.state = "RELEASE_DEFERRED" BY DEF OpenEvent
  <2>4. LedgerOK(l) /\ Len(l) = Len(ledger) BY <1>0, <2>1, ClosedOK
  <2>5. \A k \in DOMAIN ledger : ledger[k].chain # c => l[k] = ledger[k]
    BY <1>0, <2>1 DEF LedgerOK, Closed
  <2>. HIDE DEF l, x
  <2>6. ledger' = Append(l, x) => Deferred(ledger', c)
    <3>1. ledger' = Append(l, x) => Len(l) + 1 \in DOMAIN ledger' /\ ledger'[Len(l) + 1] = x
      BY <2>4 DEF LedgerOK
    <3>. QED BY <2>3, <3>1 DEF Deferred
  <2>7. ledger' = Append(l, x) =>
          \A k \in DOMAIN ledger : ledger[k].chain # c => ledger'[k] = ledger[k]
    BY <1>0, <2>4, <2>5 DEF LedgerOK
  <2>8. Rows
    <3>. SUFFICES ASSUME NEW b \in Chains, Held(b), Deferred(ledger, b), ledger' = Append(l, x)
                  PROVE  Deferred(ledger', b)
      BY <2>1
    <3>1. CASE b = c BY <2>6, <3>1
    <3>2. CASE b # c BY <1>a, <2>7, <3>2, OthersDeferred
    <3>. QED BY <3>1, <3>2
  <2>9. Own(Idle) BY <2>1, <2>6, ForsakeCounts DEF Owes
  <2>. QED BY <1>1, <2>1, <2>2, <2>8, <2>9, OneReleases
<1>. QED
  BY <1>3, <1>4, <1>5, <1>6, <1>7, <1>8, <1>9, <1>10, Zenon DEF Release

\* A Run that is queued or claimed backs its Chain; one that ends hands its
\* lease to the handler that ended it.
LEMMA RunAnswers ==
    ASSUME IInv, AnsweredOK, NEW c \in Chains,
           \/ ActivateReadiness(c) \/ ClaimRun(c) \/ RetryCompletes(c) \/ LoseRun(c)
           \/ \E p \in Handlers : MergeCompletes(p, c) \/ FailCompletes(p, c) \/ LoseLast(p, c)
    PROVE  AnsweredOK'
<1>. USE DEF IInv
<1>0. /\ job \in [Procs -> Job] /\ JobsOK /\ LedgerOK(ledger) /\ step \in [Chains -> StepStatus]
      /\ run \in [Chains -> Seq(RunStatus)] /\ Handlers \subseteq Procs
  BY DEF JobsOK, RunsOK, Procs
<1>1. \A b \in Chains : Held(b) => Answered(b) BY DEF AnsweredOK
<1>2. CASE ActivateReadiness(c)
  <2>1. /\ step' = [step EXCEPT ![c] = "TODO"] /\ UNCHANGED <<ref, run, ledger, job, forsaken>>
    BY <1>2 DEF ActivateReadiness
  <2>2. \A b \in Chains : Backed(b) => Backed(b)' BY <1>0, <2>1, BackedStays
  <2>. QED BY <1>0, <1>1, <2>1, <2>2 DEF AnsweredOK, Answered, Held
\* What a Run's status does to its Chain.
<1>3. ASSUME NEW status, NEW r, r = Settled(c, status), LastRun(c) # "NONE"
      PROVE  /\ r[c] # <<>> /\ r[c][Len(r[c])] = status
             /\ \A b \in Chains \ {c} : r[b] = run[b]
  <2>1. run[c] \in Seq(RunStatus) /\ run[c] # <<>> BY <1>0, <1>3 DEF LastRun
  <2>2. Len(run[c]) \in 1..Len(run[c]) BY <2>1
  <2>3. r[c] = [run[c] EXCEPT ![Len(run[c])] = status] BY <1>0, <1>3 DEF Settled
  <2>4. Len(r[c]) = Len(run[c]) /\ r[c][Len(run[c])] = status BY <2>1, <2>2, <2>3
  <2>. QED BY <1>0, <1>3, <2>1, <2>2, <2>3, <2>4 DEF Settled
<1>4. CASE ClaimRun(c)
  <2>1. run' = Settled(c, "CLAIMED") /\ LastRun(c) # "NONE"
        /\ UNCHANGED <<ref, step, ledger, job, forsaken>>
    BY <1>4 DEF ClaimRun
  <2>2. LastRun(c)' = "CLAIMED" BY <1>3, <2>1 DEF LastRun
  <2>3. \A b \in Chains \ {c} : run'[b] = run[b] BY <1>3, <2>1
  <2>4. \A b \in Chains : Backed(b) => Backed(b)' BY <2>1, <2>2, <2>3, BackedStays
  <2>. QED BY <1>0, <1>1, <2>1, <2>4 DEF AnsweredOK, Answered, Held
<1>5. CASE RetryCompletes(c) \/ LoseRun(c)
  <2>1. PICK s \in {"FAILED", "LOST"} : run' = [run EXCEPT ![c] = Append(Settled(c, s)[c], "QUEUED")]
    BY <1>5 DEF RetryCompletes, LoseRun
  <2>2. UNCHANGED <<ref, step, job, forsaken>> /\ LastRun(c) = "CLAIMED"
    BY <1>5 DEF RetryCompletes, LoseRun
  <2>3. LastRun(c)' = "QUEUED"
    <3>. DEFINE r == Settled(c, s)[c]
    <3>1. r \in Seq(RunStatus)
      <4>1. run[c] \in Seq(RunStatus) /\ run[c] # <<>> BY <1>0, <2>2 DEF LastRun
      <4>2. r = [run[c] EXCEPT ![Len(run[c])] = s] BY <1>0 DEF Settled
      <4>3. s \in RunStatus BY DEF RunStatus
      <4>. QED BY <4>1, <4>2, <4>3
    <3>2. run'[c] = Append(r, "QUEUED") BY <1>0, <2>1
    <3>. HIDE DEF r
    <3>3. Append(r, "QUEUED") # <<>> /\ Append(r, "QUEUED")[Len(Append(r, "QUEUED"))] = "QUEUED"
      BY <3>1 DEF RunStatus
    <3>. QED BY <3>2, <3>3 DEF LastRun
  <2>4. \A b \in Chains \ {c} : run'[b] = run[b] BY <1>0, <2>1
  <2>5. \A b \in Chains : Deferred(ledger, b) => Deferred(ledger', b)
    <3>1. CASE UNCHANGED ledger BY <3>1
    <3>2. ASSUME NEW x, ledger' = Append(ledger, x), NEW b \in Chains, Deferred(ledger, b)
          PROVE  Deferred(ledger', b)
      <4>1. \A k \in DOMAIN ledger : k \in DOMAIN ledger' /\ ledger'[k] = ledger[k]
        BY <1>0, <3>2 DEF LedgerOK
      <4>. QED BY <3>2, <4>1 DEF Deferred
    <3>3. ASSUME NEW i \in OwnHandoff(c), NEW n, ledger' = [ledger EXCEPT ![i].run = n]
          PROVE  \A b \in Chains : Deferred(ledger, b) => Deferred(ledger', b)
      <4>1. i \in DOMAIN ledger /\ ledger[i] \in Event /\ ledger[i].state = "HANDOFF_PENDING"
        BY <1>0, <3>3 DEF OwnHandoff, OpenEvents, LedgerOK
      <4>2. DOMAIN ledger' = DOMAIN ledger /\ \A k \in DOMAIN ledger : k # i => ledger'[k] = ledger[k]
        BY <1>0, <3>3 DEF LedgerOK
      <4>. QED BY <4>1, <4>2 DEF Deferred
    <3>. QED BY <1>5, <3>1, <3>2, <3>3 DEF RetryCompletes, LoseRun, Transferred
  <2>6. \A b \in Chains : Backed(b) => Backed(b)' BY <2>2, <2>3, <2>4, <2>5, BackedStays
  <2>. QED BY <1>0, <1>1, <2>2, <2>6 DEF AnsweredOK, Answered, Held
<1>6. ASSUME NEW p \in Handlers, MergeCompletes(p, c) \/ FailCompletes(p, c) \/ LoseLast(p, c)
      PROVE  AnsweredOK'
  <2>1. \E why \in {"stop", "reason"} : \E e : job' = [job EXCEPT ![p] = Releasing(c, why, e)]
    BY <1>6 DEF MergeCompletes, FailCompletes, LoseLast
  <2>2. PICK j : job' = [job EXCEPT ![p] = j] /\ Owes(j, c) /\ j.pc = "load"
    <3>1. \A why \in {"stop", "reason"} : \A e :
             Owes(Releasing(c, why, e), c) /\ Releasing(c, why, e).pc = "load"
      BY DEF Releasing, Owes
    <3>. QED BY <2>1, <3>1
  <2>3. PICK s : run' = Settled(c, s) /\ LastRun(c) # "NONE"
    BY <1>6 DEF MergeCompletes, FailCompletes, LoseLast, Ends
  <2>4. job[p].pc = "idle" /\ UNCHANGED <<ref, step, ledger, forsaken>>
    BY <1>6 DEF MergeCompletes, FailCompletes, LoseLast, Ends
  <2>5. ASSUME NEW b \in Chains, Held(b)' PROVE Answered(b)'
    <3>1. CASE b = c
      <4>1. Owes(job'[p], b) BY <1>0, <2>2, <3>1
      <4>. QED BY <1>0, <4>1 DEF Answered
    <3>2. CASE b # c
      <4>1. run'[b] = run[b] BY <1>3, <2>3, <3>2
      <4>2. Backed(b) => Answered(b)' BY <2>4, <4>1, BackedStays DEF Answered
      <4>3. ~Owes(job[p], b) BY <2>4 DEF Owes
      <4>4. Answered(b) BY <1>1, <2>4, <2>5 DEF Held
      <4>. QED BY <1>0, <2>2, <4>2, <4>3, <4>4, JobAnswers
    <3>. QED BY <3>1, <3>2
  <2>6. p # Tick BY LeaseAssumption
  <2>7. job'[Tick] = job[Tick] BY <1>0, <2>2, <2>6 DEF Procs
  <2>. QED BY <2>4, <2>5, <2>7 DEF AnsweredOK
<1>. QED BY <1>2, <1>4, <1>5, <1>6

\* A sweep takes nothing away, and a handler that dies leaves its Step, its row
\* or a lease that Forsake counts.
LEMMA RestAnswers ==
    ASSUME IInv, AnsweredOK,
           \/ \E p \in Procs : Crash(p)
           \/ \E p \in Handlers, i \in DOMAIN ledger : Sweep(p, i)
           \/ OutsideTakes \/ OutsideReleases \/ UNCHANGED vars
    PROVE  AnsweredOK'
<1>1. ASSUME NEW p \in Procs, Crash(p) PROVE AnsweredOK'
  <2>1. /\ job' = [job EXCEPT ![p] = Idle] /\ UNCHANGED <<ref, step, run, ledger>>
        /\ \/ UNCHANGED forsaken
           \/ Forsake(job[p].chain)
        /\ \/ job[p].pc \in {"claimed", "pushed", "window"} \/ job[p].why \in {"thrown", "sweep"}
           \/ Forsake(job[p].chain)
    BY <1>1 DEF Crash, Stop
  <2>2. Idle.pc = "idle" BY DEF Idle
  <2>3. \A b \in Chains : Held(b) /\ Owes(job[p], b) => ref.sha \in forsaken'
    BY <2>1, ForsakeCounts DEF Owes
  <2>. QED BY <2>1, <2>2, <2>3, ForsakeCounts, OneReleases
<1>2. ASSUME NEW p \in Handlers, NEW i \in DOMAIN ledger, Sweep(p, i) PROVE AnsweredOK'
  <2>. DEFINE j == Releasing(ledger[i].chain, "sweep", i)
  <2>1. /\ job[p].pc = "idle" /\ job' = [job EXCEPT ![p] = j] /\ p \in Procs
        /\ UNCHANGED <<ref, step, run, ledger, forsaken>>
    BY <1>2 DEF Sweep, Procs
  <2>2. j.pc = "load" BY DEF Releasing
  <2>. HIDE DEF j
  <2>3. \A b : ~Owes(job[p], b) BY <2>1 DEF Owes
  <2>. QED BY <2>1, <2>2, <2>3, OneReleases
<1>3. CASE OutsideTakes \/ OutsideReleases
  <2>1. UNCHANGED <<step, job>> /\ \A b \in Chains : ~Held(b)'
    BY <1>3, LeaseAssumption DEF OutsideTakes, OutsideReleases, Held, Free
  <2>. QED BY <2>1 DEF AnsweredOK
<1>4. CASE UNCHANGED vars
  BY <1>4 DEF vars, AnsweredOK, Answered, Backed, Held, LastRun
<1>. QED BY <1>1, <1>2, <1>3, <1>4

\* Whatever crashes, whatever origin fails to answer and whatever the sweeps and
\* completions do to each other's rows, a lease that stands has somebody left
\* who will release it, a record that asks for it, or a Forsake that counts it.
THEOREM LeasesAreAnswered == Spec => []LeaseIsAnsweredFor
<1>. DEFINE Inv == IInv /\ NamedOK /\ AnsweredOK
<1>1. Init => Inv
  <2>1. ASSUME Init PROVE AnsweredOK /\ NamedOK
    <3>1. ref.sha = 0 /\ \A p \in Procs : job[p].event = 0 /\ job[p].pc = "idle"
      BY <2>1 DEF Init, Free, Idle
    <3>. QED BY <3>1 DEF AnsweredOK, NamedOK, Held, Procs
  <2>. QED BY <2>1, InitOK
<1>2. Inv /\ [Next]_vars => Inv'
  <2>. SUFFICES ASSUME Inv, [Next]_vars PROVE AnsweredOK' BY StepOK, NamedStep
  <2>1. CASE ReadinessTick BY <2>1, TickAnswers
  <2>2. ASSUME NEW p \in Procs, Release(p) PROVE AnsweredOK' BY <2>2, ReleaseAnswers
  <2>. HIDE DEF Inv
  <2>3. IInv /\ AnsweredOK BY DEF Inv
  <2>4. ASSUME NEW c \in Chains,
               \/ ActivateReadiness(c) \/ ClaimRun(c) \/ RetryCompletes(c) \/ LoseRun(c)
               \/ \E p \in Handlers : MergeCompletes(p, c) \/ FailCompletes(p, c) \/ LoseLast(p, c)
        PROVE  AnsweredOK'
    BY <2>3, <2>4, RunAnswers
  <2>5. ASSUME \/ \E p \in Procs : Crash(p)
               \/ \E p \in Handlers, i \in DOMAIN ledger : Sweep(p, i)
               \/ OutsideTakes \/ OutsideReleases \/ UNCHANGED vars
        PROVE  AnsweredOK'
    BY <2>3, <2>5, RestAnswers
  <2>. QED BY <2>1, <2>2, <2>4, <2>5, Zenon DEF Next
<1>3. Inv => LeaseIsAnsweredFor BY AnsweredEnough
<1>. QED
  <2>. HIDE DEF Inv
  <2>. QED BY <1>1, <1>2, <1>3, PTL DEF Spec

=============================================================================
