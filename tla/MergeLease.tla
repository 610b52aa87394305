------------------------------ MODULE MergeLease ------------------------------
(***************************************************************************)
(* The Merge Lease: one ref on origin that serialises the merge window, a  *)
(* ledger that says who still owes its release, and the handlers that take *)
(* it, hand it to a mechanical merge Run and give it back.                 *)
(*                                                                         *)
(* The ref and the ledger are two stores: every handler commits first and  *)
(* then talks to origin, so each step of merge-lease.sh and each           *)
(* transaction after it is an action of its own, and origin may fail to    *)
(* answer between any two.                                                 *)
(***************************************************************************)
EXTENDS Integers, Sequences

CONSTANTS
    Chains,         \* Chains that deliver to one repository
    Handlers,       \* concurrent completions and sweeps of the API
    Tick,           \* the readiness worker; one tick is in flight at a time
    Outside,        \* a holder that is not a Chain: an operator, a train
    MayCrash,       \* whether a handler may die between two of its steps
    MaxSha,         \* bound: leases ever pushed
    MaxRuns,        \* bound: mechanical Runs of a Chain
    MaxEvents       \* bound: rows of the ledger

ASSUME LeaseAssumption ==
    /\ Tick \notin Handlers
    /\ Outside \notin Chains
    /\ MayCrash \in BOOLEAN
    /\ MaxSha \in Nat /\ MaxRuns \in Nat /\ MaxEvents \in Nat

VARIABLES
    ref,            \* refs/merge-lease/holder: task and blob; sha 0 when absent
    pushed,         \* lease blobs that reached the ref so far
    step,           \* status of each Chain's readiness Task
    run,            \* statuses of each Chain's mechanical Runs, oldest first
    ledger,         \* MergeLeaseEvent rows, oldest first
    job,            \* what each handler is doing
    forsaken        \* history: leases a handler left to nobody, see Forsake

vars == <<ref, pushed, step, run, ledger, job, forsaken>>

Procs == Handlers \union {Tick}
Holders == Chains \union {Outside}
Shas == 0..MaxSha

\* WAIT stands for every status in which the worker does not take the Step:
\* parked in REVIEW, or waiting for the Regression it depends on.
StepStatus == {"WAIT", "TODO", "DOING", "DONE"}
RunStatus == {"QUEUED", "CLAIMED", "LOST", "FAILED", "MERGED"}
Ended == {"LOST", "FAILED", "MERGED"}

EventState == {"HANDOFF_PENDING", "RELEASE_DEFERRED", "RELEASED", "INVALID"}
OpenStates == {"HANDOFF_PENDING", "RELEASE_DEFERRED"}

\* run is handedOffRunId, sha leaseSha (0: null), owner owningTaskId.
Event == [chain: Chains, state: EventState, run: 0..MaxRuns, sha: Shas,
          owner: {"regression", "integrator"}]

\* How a release came about, which decides what is recorded about it:
\*   held      the tick gives its window back      thrown  its callback threw
\*   stop      a committed stop, no event          sweep   a sweep's event
\*   reason    a failed completion's own handoff event
Why == {"held", "thrown", "stop", "sweep", "reason"}
Pc == {"idle", "claimed", "pushed", "window", "load", "delete", "hold",
       "settle", "failed", "requeue"}
Job == [pc: Pc, chain: Holders, why: Why, event: 0..MaxEvents, sha: Shas]

Idle == [pc |-> "idle", chain |-> Outside, why |-> "stop", event |-> 0, sha |-> 0]
Releasing(c, why, e) ==
    [pc |-> "load", chain |-> c, why |-> why, event |-> e, sha |-> 0]

Claiming(c) ==
    [pc |-> "claimed", chain |-> c, why |-> "stop", event |-> 0, sha |-> 0]

Free == [holder |-> Outside, sha |-> 0]

Init ==
    /\ ref = Free
    /\ pushed = 0
    /\ step = [c \in Chains |-> "TODO"]
    /\ run = [c \in Chains |-> <<>>]
    /\ ledger = <<>>
    /\ job = [p \in Procs |-> Idle]
    /\ forsaken = {}

-----------------------------------------------------------------------------
Held(c) == ref.sha # 0 /\ ref.holder = c

LastRun(c) == IF run[c] = <<>> THEN "NONE" ELSE run[c][Len(run[c])]
Settled(c, status) == [run EXCEPT ![c][Len(run[c])] = status]

OpenEvents(l, c) == {i \in DOMAIN l : l[i].chain = c /\ l[i].state \in OpenStates}

OpenEvent(c, state, n, owner) ==
    [chain |-> c, state |-> state, run |-> n, sha |-> 0, owner |-> owner]

\* The open handoff that names the last Run of c, as a set.
OwnHandoff(c) ==
    {i \in OpenEvents(ledger, c) :
        ledger[i].state = "HANDOFF_PENDING" /\ ledger[i].run = Len(run[c])}

Goto(p, pc) == job' = [job EXCEPT ![p].pc = pc]
Stop(p) == job' = [job EXCEPT ![p] = Idle]

\* A handler gives the lease of c up, if it stands, and records nothing; or it
\* closes a row of c for an older lease than the one that stands.
Forsake(c) == forsaken' = IF Held(c) THEN forsaken \union {ref.sha} ELSE forsaken

-----------------------------------------------------------------------------
(***************************************************************************)
(* The readiness tick.                                                     *)
(***************************************************************************)
\* The Regression of c passed (again): its readiness Step may be taken.
ActivateReadiness(c) ==
    /\ step[c] = "WAIT" \/ (step[c] = "DONE" /\ LastRun(c) \in {"LOST", "FAILED"})
    /\ LastRun(c) \notin {"QUEUED", "CLAIMED"}
    /\ step' = [step EXCEPT ![c] = "TODO"]
    /\ UNCHANGED <<ref, pushed, run, ledger, job, forsaken>>

\* A Step in DOING is taken again once the claim of an earlier tick expired.
ClaimReadinessStep(c) ==
    /\ job[Tick].pc = "idle"
    /\ step[c] \in {"TODO", "DOING"}
    /\ step' = [step EXCEPT ![c] = "DOING"]
    /\ job' = [job EXCEPT ![Tick] = Claiming(c)]
    /\ UNCHANGED <<ref, pushed, run, ledger, forsaken>>

\* Before the Lease: a wait keeps the claim, a stop or requeue gives the Step
\* back and releases whatever the Chain may still hold.
SettlePreAcquire ==
    LET c == job[Tick].chain IN
    /\ job[Tick].pc = "claimed"
    /\ \/ Stop(Tick) /\ UNCHANGED step
       \/ \E s \in {"TODO", "WAIT"} :
            /\ step' = [step EXCEPT ![c] = s]
            /\ job' = [job EXCEPT ![Tick] = Releasing(c, "stop", 0)]
    /\ UNCHANGED <<ref, pushed, run, ledger, forsaken>>

\* merge-lease.sh acquire: the push creates the ref if there is none.
AcquirePush ==
    /\ job[Tick].pc = "claimed"
    /\ \/ /\ ref.sha = 0 /\ pushed < MaxSha
          /\ pushed' = pushed + 1
          /\ ref' = [holder |-> job[Tick].chain, sha |-> pushed + 1]
       \/ UNCHANGED <<ref, pushed>>
    /\ Goto(Tick, "pushed")
    /\ UNCHANGED <<step, run, ledger, forsaken>>

\* ... and only what origin shows afterwards decides.  A lease of the same
\* Chain counts as acquired; an unreadable one leaves the Step claimed.
AcquireRead ==
    /\ job[Tick].pc = "pushed"
    /\ \/ Held(job[Tick].chain) /\ Goto(Tick, "window")
       \/ Stop(Tick)
    /\ UNCHANGED <<ref, pushed, step, run, ledger, forsaken>>

\* The decision under the Lease authorises: the Step, the successor Run and
\* its handoff row commit together, or the ledger refuses a second open row.
Authorize ==
    LET c == job[Tick].chain IN
    /\ job[Tick].pc = "window"
    /\ OpenEvents(ledger, c) = {}
    /\ Len(run[c]) < MaxRuns /\ Len(ledger) < MaxEvents
    /\ step' = [step EXCEPT ![c] = "DONE"]
    /\ run' = [run EXCEPT ![c] = Append(@, "QUEUED")]
    /\ ledger' = Append(ledger, OpenEvent(c, "HANDOFF_PENDING", Len(run[c]) + 1, "integrator"))
    /\ Stop(Tick)
    /\ UNCHANGED <<ref, pushed, forsaken>>

\* Any other decision: wait, return the Step, or stop.
SettleHeld ==
    LET c == job[Tick].chain IN
    /\ job[Tick].pc = "window"
    /\ \E s \in {"DOING", "TODO", "WAIT"} : step' = [step EXCEPT ![c] = s]
    /\ job' = [job EXCEPT ![Tick] = Releasing(c, "held", 0)]
    /\ UNCHANGED <<ref, pushed, run, ledger, forsaken>>

\* The callback threw, for one because the ledger refused the handoff.
CallbackThrows ==
    /\ job[Tick].pc = "window"
    /\ job' = [job EXCEPT ![Tick] = Releasing(job[Tick].chain, "thrown", 0)]
    /\ UNCHANGED <<ref, pushed, step, run, ledger, forsaken>>

\* After the release of a thrown window the exception reaches the tick.
RequeueException ==
    LET c == job[Tick].chain IN
    /\ job[Tick].pc = "requeue"
    /\ \E s \in {"TODO", "WAIT"} : step' = [step EXCEPT ![c] = s]
    /\ job' = [job EXCEPT ![Tick] = Releasing(c, "stop", 0)]
    /\ UNCHANGED <<ref, pushed, run, ledger, forsaken>>

-----------------------------------------------------------------------------
(***************************************************************************)
(* merge-lease.sh release, and what the caller records about its answer.   *)
(***************************************************************************)
\* The release is over.  Skipped leaves the event open, for a newer holder
\* owns the ref; released and not-held confirm it.
Skipped(p) == IF job[p].why = "thrown" THEN [job[p] EXCEPT !.pc = "requeue"] ELSE Idle

Confirmed(p) == IF job[p].event = 0 THEN Skipped(p) ELSE [job[p] EXCEPT !.pc = "settle"]

ReleaseLoad(p) ==
    /\ job[p].pc = "load"
    /\ job' = [job EXCEPT ![p] =
                 IF ref.sha = 0 THEN Confirmed(p)
                 ELSE IF ref.holder # job[p].chain THEN Skipped(p)
                 ELSE [job[p] EXCEPT !.pc = "delete", !.sha = ref.sha]]
    /\ UNCHANGED <<ref, pushed, step, run, ledger, forsaken>>

\* Mutant: a delete without the expected blob.
DeletedRef_Force(p) == Free

\* The compare-and-swap delete: the ref goes only if it is still the blob
\* that was loaded.
DeletedRef(p) == IF ref.sha = job[p].sha THEN Free ELSE ref

\* The script answers released when the ref is absent after its push, whoever
\* removed it, and fails when it cannot see that.
ReleaseDelete(p) ==
    /\ job[p].pc = "delete"
    /\ ref' = DeletedRef(p)
    /\ IF ref'.sha = 0 THEN Goto(p, "hold") \/ Goto(p, "failed") ELSE Goto(p, "failed")
    /\ UNCHANGED <<pushed, step, run, ledger, forsaken>>

\* Origin did not answer, or the push did not get through.
ReleaseUnreachable(p) ==
    /\ job[p].pc \in {"load", "delete"}
    /\ Goto(p, "failed")
    /\ UNCHANGED <<ref, pushed, step, run, ledger, forsaken>>

\* settleLeaseEvent by evidence: a blob is recorded once, on the open row of
\* the Chain if it has one, else on a row of its own.
WithEvidence(l, c, sha) ==
    IF \E i \in DOMAIN l : l[i].chain = c /\ l[i].sha = sha THEN {l}
    ELSE IF OpenEvents(l, c) # {}
         THEN {[l EXCEPT ![i].state = "RELEASED", ![i].sha = sha] : i \in OpenEvents(l, c)}
         ELSE {Append(l, [chain |-> c, state |-> "RELEASED", run |-> 0,
                          sha |-> sha, owner |-> "integrator"])}

RecordMergeLeaseHold(p) ==
    /\ job[p].pc = "hold"
    /\ \E l \in WithEvidence(ledger, job[p].chain, job[p].sha) :
          Len(l) <= MaxEvents /\ ledger' = l
    /\ job' = [job EXCEPT ![p] = Confirmed(p)]
    /\ IF OpenEvents(ledger, job[p].chain) # OpenEvents(ledger', job[p].chain)
       THEN Forsake(job[p].chain) ELSE UNCHANGED forsaken
    /\ UNCHANGED <<ref, pushed, step, run>>

\* Mutant: the row is written whatever its state.
Closed_Always(l, e, state) == [l EXCEPT ![e].state = state]

\* settleLeaseEvent by id touches open rows only.
Closed(l, e, state) ==
    IF l[e].state \in OpenStates THEN [l EXCEPT ![e].state = state] ELSE l

SettleEvent(p) ==
    /\ job[p].pc = "settle"
    /\ ledger' = Closed(ledger, job[p].event, "RELEASED")
    /\ Stop(p)
    /\ IF ledger' # ledger THEN Forsake(job[p].chain) ELSE UNCHANGED forsaken
    /\ UNCHANGED <<ref, pushed, step, run>>

-----------------------------------------------------------------------------
(***************************************************************************)
(* A release that failed, by what it was for.                              *)
(***************************************************************************)
\* Mutant: the window's failed release leaves no row.
DeferredByTick_Dropped(l, c) == l

\* recordLeaseDeferral: a new open row, or the Regression's own open deferral.
DeferredByTick(l, c) ==
    IF OpenEvents(l, c) = {} THEN Append(l, OpenEvent(c, "RELEASE_DEFERRED", 0, "regression"))
                             ELSE l

TickDeferred(c) ==
    \E i \in OpenEvents(ledger', c) :
        ledger'[i].state = "RELEASE_DEFERRED" /\ ledger'[i].owner = "regression"

\* withMergeLease defers for the Regression Task.  Another open row refuses.
FailHeld(p) ==
    LET c == job[p].chain IN
    /\ job[p].pc = "failed" /\ job[p].why = "held"
    /\ Len(ledger) < MaxEvents
    /\ ledger' = DeferredByTick(ledger, c)
    /\ IF OpenEvents(ledger, c) = {} \/ TickDeferred(c) THEN UNCHANGED forsaken ELSE Forsake(c)
    /\ Stop(p)
    /\ UNCHANGED <<ref, pushed, step, run>>

\* Of a thrown window only a marker is written and the claim is kept; a sweep's
\* event stays open and is swept again.
FailKept(p) ==
    /\ job[p].pc = "failed" /\ job[p].why \in {"thrown", "sweep"}
    /\ Stop(p)
    /\ UNCHANGED <<ref, pushed, step, run, ledger, forsaken>>

\* A committed stop without an event only reports the failure.
FailStop(p) ==
    /\ job[p].pc = "failed" /\ job[p].why = "stop"
    /\ Forsake(job[p].chain)
    /\ Stop(p)
    /\ UNCHANGED <<ref, pushed, step, run, ledger>>

\* The ended Run's handoff becomes a deferral in one transaction, which is
\* rolled back when the row was settled meanwhile.
FailReason(p) ==
    LET c == job[p].chain
        e == job[p].event
    IN
    /\ job[p].pc = "failed" /\ job[p].why = "reason"
    /\ \/ /\ ledger[e].state \in OpenStates
          /\ Len(ledger) < MaxEvents
          /\ ledger' = Append(Closed(ledger, e, "INVALID"),
                              OpenEvent(c, "RELEASE_DEFERRED", 0, "integrator"))
          /\ UNCHANGED forsaken
       \/ ledger[e].state \notin OpenStates /\ Forsake(c) /\ UNCHANGED ledger
    /\ Stop(p)
    /\ UNCHANGED <<ref, pushed, step, run>>

-----------------------------------------------------------------------------
(***************************************************************************)
(* The mechanical merge Run and the sweeps.                                *)
(***************************************************************************)
ClaimRun(c) ==
    /\ LastRun(c) = "QUEUED"
    /\ run' = Settled(c, "CLAIMED")
    /\ UNCHANGED <<ref, pushed, step, ledger, job, forsaken>>

\* An idle handler commits the Run's end and then releases.
Ends(p, c, status) ==
    /\ job[p].pc = "idle" /\ LastRun(c) = "CLAIMED"
    /\ run' = Settled(c, status)

\* A merged Run's completion stops the Lease and names no event.
MergeCompletes(p, c) ==
    /\ Ends(p, c, "MERGED")
    /\ job' = [job EXCEPT ![p] = Releasing(c, "stop", 0)]
    /\ UNCHANGED <<ref, pushed, step, ledger, forsaken>>

\* A Run that ended without merging names the handoff that names it.
FailCompletes(p, c) ==
    /\ Ends(p, c, "FAILED")
    /\ \/ \E e \in OwnHandoff(c) : job' = [job EXCEPT ![p] = Releasing(c, "reason", e)]
       \/ OwnHandoff(c) = {} /\ job' = [job EXCEPT ![p] = Releasing(c, "stop", 0)]
    /\ UNCHANGED <<ref, pushed, step, ledger, forsaken>>

\* recordLeaseHandoff with a source Run: its pending row moves to the new Run,
\* a Run without one gets a row, and any other open row refuses.
Transferred(l, c, n) ==
    IF OwnHandoff(c) # {} THEN {[l EXCEPT ![i].run = n] : i \in OwnHandoff(c)}
    ELSE {k \in {Append(l, OpenEvent(c, "HANDOFF_PENDING", n, "integrator"))} :
             OpenEvents(l, c) = {} /\ Len(l) < MaxEvents}

RetryCompletes(c) ==
    /\ LastRun(c) = "CLAIMED" /\ Len(run[c]) < MaxRuns
    /\ run' = [run EXCEPT ![c] = Append(Settled(c, "FAILED")[c], "QUEUED")]
    /\ ledger' \in Transferred(ledger, c, Len(run[c]) + 1)
    /\ UNCHANGED <<ref, pushed, step, job, forsaken>>

\* Reconciliation replaces a lost Run; the ledger keeps naming the lost one.
LoseRun(c) ==
    /\ LastRun(c) = "CLAIMED" /\ Len(run[c]) < MaxRuns
    /\ run' = [run EXCEPT ![c] = Append(Settled(c, "LOST")[c], "QUEUED")]
    /\ UNCHANGED <<ref, pushed, step, ledger, job, forsaken>>

\* ... or, the budget spent or the retry refused, stops the Lease.
LoseLast(p, c) ==
    /\ Ends(p, c, "LOST")
    /\ job' = [job EXCEPT ![p] = Releasing(c, "stop", 0)]
    /\ UNCHANGED <<ref, pushed, step, ledger, forsaken>>

\* listUnresolvedLeaseEvents: a handoff whose Run is still queued, a deferral.
Unresolved(i) ==
    \/ ledger[i].state = "RELEASE_DEFERRED"
    \/ /\ ledger[i].state = "HANDOFF_PENDING"
       /\ run[ledger[i].chain][ledger[i].run] = "QUEUED"

Sweep(p, i) ==
    /\ job[p].pc = "idle" /\ Unresolved(i)
    /\ job' = [job EXCEPT ![p] = Releasing(ledger[i].chain, "sweep", i)]
    /\ UNCHANGED <<ref, pushed, step, run, ledger, forsaken>>

-----------------------------------------------------------------------------
(***************************************************************************)
(* The environment.                                                        *)
(***************************************************************************)
\* A claimed Step and a swept row outlive the handler; a stop does not.
Crash(p) ==
    /\ MayCrash /\ job[p].pc # "idle"
    /\ Stop(p)
    /\ IF job[p].pc \in {"claimed", "pushed", "window"} \/ job[p].why \in {"thrown", "sweep"}
       THEN UNCHANGED forsaken ELSE Forsake(job[p].chain)
    /\ UNCHANGED <<ref, pushed, step, run, ledger>>

\* acquire or steal by somebody else, and the release that ends it.
OutsideTakes ==
    /\ pushed < MaxSha
    /\ pushed' = pushed + 1
    /\ ref' = [holder |-> Outside, sha |-> pushed + 1]
    /\ UNCHANGED <<step, run, ledger, job, forsaken>>

OutsideReleases ==
    /\ Held(Outside)
    /\ ref' = Free
    /\ UNCHANGED <<pushed, step, run, ledger, job, forsaken>>

-----------------------------------------------------------------------------
ReadinessTick ==
    \/ \E c \in Chains : ClaimReadinessStep(c)
    \/ SettlePreAcquire \/ AcquirePush \/ AcquireRead
    \/ Authorize \/ SettleHeld \/ CallbackThrows \/ RequeueException

Release(p) ==
    \/ ReleaseLoad(p) \/ ReleaseDelete(p) \/ ReleaseUnreachable(p)
    \/ RecordMergeLeaseHold(p) \/ SettleEvent(p)
    \/ FailHeld(p) \/ FailKept(p) \/ FailStop(p) \/ FailReason(p)

Next ==
    \/ ReadinessTick
    \/ \E p \in Procs : Release(p) \/ Crash(p)
    \/ \E c \in Chains : ActivateReadiness(c) \/ ClaimRun(c) \/ RetryCompletes(c) \/ LoseRun(c)
    \/ \E p \in Handlers, c \in Chains :
            MergeCompletes(p, c) \/ FailCompletes(p, c) \/ LoseLast(p, c)
    \/ \E p \in Handlers, i \in DOMAIN ledger : Sweep(p, i)
    \/ OutsideTakes \/ OutsideReleases

Spec == Init /\ [][Next]_vars

-----------------------------------------------------------------------------
(***************************************************************************)
(* Properties.                                                             *)
(***************************************************************************)
\* Types: every blob on the ref and in the ledger was pushed, every row and
\* every job is well formed.
TypeOK ==
    /\ ref \in [holder: Holders, sha: Shas]
    /\ pushed \in Shas
    /\ step \in [Chains -> StepStatus]
    /\ run \in [Chains -> Seq(RunStatus)]
    /\ \A c \in Chains : Len(run[c]) <= MaxRuns
    /\ ledger \in Seq(Event) /\ Len(ledger) <= MaxEvents
    /\ job \in [Procs -> Job]
    /\ forsaken \subseteq Shas

\* Whatever the interleaving, a lease leaves the ref in two ways only: a
\* handler that loaded exactly this lease for the Chain that holds it deletes
\* it, or somebody outside steals it or gives their own back.
ReleaseTakesOnlyItsOwn ==
    [][ref'.sha # ref.sha /\ ref.sha # 0 =>
         \/ ref'.holder = Outside /\ ref'.sha > ref.sha
         \/ ref.holder = Outside /\ OutsideReleases
         \/ \E p \in Procs : /\ job[p].pc = "delete" /\ job[p].sha = ref.sha
                             /\ job[p].chain = ref.holder]_vars

\* A settled row is history: no later release, sweep or completion, however
\* late it comes, changes a RELEASED or INVALID row.
SettledStaysSettled ==
    [][\A i \in DOMAIN ledger :
          ledger[i].state \notin OpenStates => ledger'[i] = ledger[i]]_vars

\* A Chain's lease on the ref is never orphaned in silence: a handler works for
\* the Chain, or its readiness Step will be taken again, or its Run is still to
\* end, or a deferral or handoff is still to be swept, or the lease was given
\* up in one of the ways Forsake counts.
LeaseIsAnsweredFor ==
    \A c \in Chains : Held(c) =>
        \/ \E p \in Procs : job[p].pc # "idle" /\ job[p].chain = c
        \/ step[c] \in {"TODO", "DOING"}
        \/ LastRun(c) \in {"QUEUED", "CLAIMED"}
        \/ \E i \in OpenEvents(ledger, c) : Unresolved(i)
        \/ ref.sha \in forsaken

\* docs/operator-api.md on a Run that ended without merging: "If the
\* completion release fails, it records a deferred release for
\* reconciliation".
FailedReleaseIsDeferred ==
    [][\A p \in Handlers :
          LET c == job[p].chain IN
          job[p].pc = "failed" /\ job'[p].pc = "idle" /\ c \in Chains /\ LastRun(c) = "FAILED"
            => \E i \in OpenEvents(ledger', c) : ledger'[i].state = "RELEASE_DEFERRED"]_vars

=============================================================================
