---------------------------- MODULE QuietWindow ----------------------------
(***************************************************************************)
(* The quiet window of an automatic deployment: the claims of the fleet    *)
(* against the wait loop of the deploying hosts.                           *)
(*                                                                         *)
(* Two things stop dispatch.  The deploy barrier is a PostgreSQL advisory  *)
(* lock: a deploy holds its exclusive session form, a claim takes the      *)
(* shared transaction form first and gives up when it cannot (packages/db  *)
(* deploy-barrier.ts, packages/api run-claim.ts).  The dispatch drain is a *)
(* row with a deadline which a wait over its budget inserts beside the     *)
(* polling loop, renews with every delivered alert, and deletes on its way *)
(* out; claims of agent Runs are refused while some row has not expired    *)
(* (scripts/deploy quiet-window-deploy.mjs and quiet-window-deadlines.mjs). *)
(*                                                                         *)
(* Time is counted in ticks of the order of the alert interval.  A waiting *)
(* process polls at least once in a tick and a database write does not     *)
(* outlast one; nothing bounds how long a notice to the Inbox may take     *)
(* when NoticeMayStall holds.                                              *)
(***************************************************************************)
EXTENDS Naturals, FiniteSets

CONSTANTS
  Hosts,          \* the hosts that deploy: one control plane, runner hosts
  ControlPlane,   \* the host whose deploy waits for every agent Run
  AgentRuns,      \* places for Runs that start an agent session
  MergeRuns,      \* places for mechanical merge and readiness Runs
  HostOf,         \* the host whose runner claims into a place
  Nobody,         \* not a host: the barrier is free
  Budget,         \* ticks a deploy waits before it drains dispatch
  AlertEvery,     \* ticks between two delivered alerts of one wait
  Deadline,       \* ticks a drain row outlives its last renewal
  MaxAttempts,    \* bound: attempts per host
  NoticeMayStall  \* a notice may stay in flight across ticks

Runs == AgentRuns \cup MergeRuns

ASSUME HostsAssumption == ControlPlane \in Hosts /\ Nobody \notin Hosts
ASSUME RunsAssumption ==
  AgentRuns \cap MergeRuns = {} /\ HostOf \in [Runs -> Hosts]
ASSUME TimeAssumption ==
  /\ Budget \in Nat \ {0} /\ AlertEvery \in Nat \ {0} /\ Deadline \in Nat \ {0}
  /\ MaxAttempts \in Nat /\ NoticeMayStall \in BOOLEAN

VARIABLES
  run,         \* place -> "idle", "queued", "claiming" (transaction open), "live"
  refusable,   \* place -> the open claim read an unexpired drain
  barrier,     \* the host whose session holds the exclusive lock, or Nobody
  stage,       \* host -> where its deploy process is
  mayWait,     \* host -> the attempt is past the cadence floor
  polled,      \* host -> the wait loop polled in this tick
  elapsed,     \* host -> ticks waited, up to Budget
  since,       \* host -> ticks since the last alert, up to AlertEvery
  alert,       \* host -> "idle", "extending", "notifying"
  drain,       \* host -> "none", "inserting", "open", "failed"
  left,        \* host -> ticks until its row expires
  orphan,      \* ticks until the longest-lived row without a process expires
  interrupted, \* host -> the abort signal of the process is set
  retain,      \* host -> "no", "yes", "seen": keep the barrier until cleared
  marker,      \* host -> an escalation that blocks every attempt is on disk
  terminated,  \* host -> the migration of its attempt was killed, not vouched for yet
  attempts     \* host -> attempts opened

fleet == <<run, refusable>>
waitVars == <<mayWait, polled, elapsed>>
drainVars == <<alert, since, drain, left, orphan>>
holdVars == <<retain, marker, terminated>>
vars == <<fleet, barrier, stage, waitVars, drainVars, interrupted, holdVars, attempts>>

Waiting == {"waiting", "trying", "checking"}
Stages == Waiting \cup
  {"off", "held", "restarting", "failing", "releasing", "retaining", "undrain", "dead"}

larger(a, b) == IF a > b THEN a ELSE b

TypeOK ==
  /\ run \in [Runs -> {"idle", "queued", "claiming", "live"}]
  /\ refusable \in [Runs -> BOOLEAN]
  /\ barrier \in Hosts \cup {Nobody}
  /\ stage \in [Hosts -> Stages]
  /\ mayWait \in [Hosts -> BOOLEAN] /\ polled \in [Hosts -> BOOLEAN]
  /\ elapsed \in [Hosts -> 0..Budget] /\ since \in [Hosts -> 0..AlertEvery]
  /\ alert \in [Hosts -> {"idle", "extending", "notifying"}]
  /\ drain \in [Hosts -> {"none", "inserting", "open", "failed"}]
  /\ left \in [Hosts -> 0..Deadline] /\ orphan \in 0..Deadline
  /\ interrupted \in [Hosts -> BOOLEAN]
  /\ retain \in [Hosts -> {"no", "yes", "seen"}]
  /\ marker \in [Hosts -> BOOLEAN] /\ terminated \in [Hosts -> BOOLEAN]
  /\ attempts \in [Hosts -> 0..MaxAttempts]

Init ==
  /\ run = [r \in Runs |-> "idle"] /\ refusable = [r \in Runs |-> FALSE]
  /\ barrier = Nobody
  /\ stage = [h \in Hosts |-> "off"]
  /\ mayWait = [h \in Hosts |-> FALSE] /\ polled = [h \in Hosts |-> FALSE]
  /\ elapsed = [h \in Hosts |-> 0] /\ since = [h \in Hosts |-> AlertEvery]
  /\ alert = [h \in Hosts |-> "idle"] /\ drain = [h \in Hosts |-> "none"]
  /\ left = [h \in Hosts |-> 0] /\ orphan = 0
  /\ interrupted = [h \in Hosts |-> FALSE]
  /\ retain = [h \in Hosts |-> "no"]
  /\ marker = [h \in Hosts |-> FALSE] /\ terminated = [h \in Hosts |-> FALSE]
  /\ attempts = [h \in Hosts |-> 0]

-----------------------------------------------------------------------------
(* The fleet: a Run is queued, claimed in one transaction, and ends.       *)

\* Mutant: claims do not read the drain rows.
NoDrainRead == FALSE

\* activeDispatchDrain: some row whose deadline is in the future.
DrainActive == (\E h \in Hosts : drain[h] = "open" /\ left[h] > 0) \/ orphan > 0

\* deployBarrierAllowsClaim: the shared half is only granted while no session
\* holds the exclusive one.
BarrierAllowsClaim == barrier = Nobody

Queue(r) ==
  /\ run[r] = "idle"
  /\ run' = [run EXCEPT ![r] = "queued"]
  /\ UNCHANGED <<refusable, barrier, stage, waitVars, drainVars, interrupted, holdVars, attempts>>

\* The first statements of the claim transaction: the shared half of the
\* barrier, then the drain in force.
BeginClaim(r) ==
  /\ run[r] = "queued" /\ BarrierAllowsClaim
  /\ run' = [run EXCEPT ![r] = "claiming"]
  /\ refusable' = [refusable EXCEPT ![r] = DrainActive]
  /\ UNCHANGED <<barrier, stage, waitVars, drainVars, interrupted, holdVars, attempts>>

\* An agent candidate is refused under a drain; a mechanical one is admitted.
EndClaim(r) ==
  /\ run[r] = "claiming"
  /\ \/ run' = [run EXCEPT ![r] = "queued"]    \* refused, conflict, nothing to take
     \/ /\ refusable[r] => r \in MergeRuns
        /\ run' = [run EXCEPT ![r] = "live"]
  /\ refusable' = [refusable EXCEPT ![r] = FALSE]
  /\ UNCHANGED <<barrier, stage, waitVars, drainVars, interrupted, holdVars, attempts>>

EndRun(r) ==
  /\ run[r] = "live"
  /\ run' = [run EXCEPT ![r] = "idle"]
  /\ UNCHANGED <<refusable, barrier, stage, waitVars, drainVars, interrupted, holdVars, attempts>>

\* The agent Runs a deploy waits for: every one for the control plane, those
\* of its own runners for a runner host.  Mechanical work is not counted.
Blocking(h) ==
  {r \in AgentRuns : run[r] = "live" /\ (h = ControlPlane \/ HostOf[r] = h)}

-----------------------------------------------------------------------------
(* The wait loop.                                                          *)

OverBudget(h) == elapsed[h] >= Budget /\ alert[h] = "idle" /\ since[h] >= AlertEvery

\* Mutant: a renewal never extends the row it opened.
Alert_NeverRenews(h) ==
  IF ~OverBudget(h) THEN UNCHANGED drainVars
  ELSE /\ since' = [since EXCEPT ![h] = 0]
       /\ alert' = [alert EXCEPT ![h] = "notifying"]
       /\ IF drain[h] = "none"
          THEN drain' = [drain EXCEPT ![h] = "inserting"] /\ left' = [left EXCEPT ![h] = Deadline]
          ELSE UNCHANGED <<drain, left>>
       /\ UNCHANGED orphan

\* alertIfOverBudget: the first crossing opens the drain without waiting for
\* the insert, each later one renews it before the notice is sent.
Alert(h) ==
  IF ~OverBudget(h) THEN UNCHANGED drainVars
  ELSE /\ since' = [since EXCEPT ![h] = 0]
       /\ IF drain[h] = "none"
          THEN /\ drain' = [drain EXCEPT ![h] = "inserting"]
               /\ left' = [left EXCEPT ![h] = Deadline]
               /\ alert' = [alert EXCEPT ![h] = "notifying"]
          ELSE /\ alert' = [alert EXCEPT ![h] = "extending"]
               /\ UNCHANGED <<drain, left>>
       /\ UNCHANGED orphan

\* A tick before the cadence floor is admitted only when nothing blocks it.
Start(h) ==
  /\ stage[h] = "off" /\ ~marker[h] /\ attempts[h] < MaxAttempts
  /\ \E past \in BOOLEAN :
       /\ ~past => (h = ControlPlane /\ Blocking(h) = {})
       /\ mayWait' = [mayWait EXCEPT ![h] = past]
  /\ stage' = [stage EXCEPT ![h] = "waiting"]
  /\ attempts' = [attempts EXCEPT ![h] = @ + 1]
  /\ terminated' = [terminated EXCEPT ![h] = FALSE]
  /\ UNCHANGED <<fleet, barrier, polled, elapsed, drainVars, interrupted, retain, marker>>

\* The interval passes while an early attempt is still contending.
ReachFloor(h) ==
  /\ stage[h] \in Waiting /\ ~mayWait[h]
  /\ mayWait' = [mayWait EXCEPT ![h] = TRUE]
  /\ UNCHANGED <<fleet, barrier, stage, polled, elapsed, drainVars, interrupted, holdVars, attempts>>

\* Wait for the next poll, alerting when over budget; an early attempt is
\* coalesced into a later tick instead.
KeepWaiting(h) ==
  IF mayWait[h]
  THEN /\ stage' = [stage EXCEPT ![h] = "waiting"]
       /\ polled' = [polled EXCEPT ![h] = TRUE]
       /\ Alert(h)
       /\ UNCHANGED <<mayWait, elapsed>>
  ELSE stage' = [stage EXCEPT ![h] = "releasing"] /\ UNCHANGED <<waitVars, drainVars>>

SeeBlockers(h) ==
  /\ stage[h] = "waiting" /\ ~interrupted[h] /\ Blocking(h) # {}
  /\ KeepWaiting(h)
  /\ UNCHANGED <<fleet, barrier, interrupted, holdVars, attempts>>

SeeQuiet(h) ==
  /\ stage[h] = "waiting" /\ ~interrupted[h] /\ Blocking(h) = {}
  /\ stage' = [stage EXCEPT ![h] = "trying"]
  /\ UNCHANGED <<fleet, barrier, waitVars, drainVars, interrupted, holdVars, attempts>>

BarrierFree == barrier = Nobody /\ \A r \in Runs : run[r] # "claiming"

Contended(h) ==
  /\ stage[h] = "trying" /\ ~interrupted[h] /\ ~BarrierFree
  /\ KeepWaiting(h)
  /\ UNCHANGED <<fleet, barrier, interrupted, holdVars, attempts>>

Acquire(h) ==
  /\ stage[h] = "trying" /\ ~interrupted[h] /\ BarrierFree
  /\ barrier' = h
  /\ stage' = [stage EXCEPT ![h] = "checking"]
  /\ UNCHANGED <<fleet, waitVars, drainVars, interrupted, holdVars, attempts>>

FreeBarrier(h) == barrier' = IF barrier = h THEN Nobody ELSE barrier

\* Mutant: the window counts as quiet without the second look.
Recheck_Trusts(h) ==
  /\ stage[h] = "checking" /\ ~interrupted[h]
  /\ stage' = [stage EXCEPT ![h] = "held"]
  /\ UNCHANGED <<fleet, barrier, waitVars, drainVars, interrupted, holdVars, attempts>>

\* Under the barrier the blocking Runs are read again: a claim may have
\* committed between the first look and the lock.
Recheck(h) ==
  /\ stage[h] = "checking" /\ ~interrupted[h]
  /\ IF Blocking(h) = {}
     THEN /\ stage' = [stage EXCEPT ![h] = "held"]
          /\ IF mayWait[h] THEN Alert(h) ELSE UNCHANGED drainVars
          /\ UNCHANGED <<barrier, waitVars>>
     ELSE FreeBarrier(h) /\ KeepWaiting(h)
  /\ UNCHANGED <<fleet, interrupted, holdVars, attempts>>

-----------------------------------------------------------------------------
(* The alert and its drain row, beside the loop.                           *)

\* A failed write interrupts the deploy, but only while the wait is what the
\* drain protects.
WriteFailed(h) ==
  interrupted' = IF stage[h] \in Waiting THEN [interrupted EXCEPT ![h] = TRUE] ELSE interrupted

InsertSettles(h) ==
  /\ drain[h] = "inserting"
  /\ \/ drain' = [drain EXCEPT ![h] = "open"] /\ UNCHANGED interrupted
     \/ drain' = [drain EXCEPT ![h] = "failed"] /\ WriteFailed(h)
  /\ UNCHANGED <<fleet, barrier, stage, waitVars, alert, since, left, orphan, holdVars, attempts>>

\* renew: awaits the insert, then extends the row; a released or failed row
\* is left alone.
RenewSettles(h) ==
  /\ alert[h] = "extending" /\ drain[h] # "inserting"
  /\ \/ /\ left' = IF drain[h] = "open" THEN [left EXCEPT ![h] = Deadline] ELSE left
        /\ UNCHANGED interrupted
     \/ drain[h] = "open" /\ WriteFailed(h) /\ UNCHANGED left
  /\ alert' = [alert EXCEPT ![h] = "notifying"]
  /\ UNCHANGED <<fleet, barrier, stage, waitVars, since, drain, orphan, holdVars, attempts>>

\* An undelivered alert does not consume its interval.
NoticeSettles(h) ==
  /\ alert[h] = "notifying"
  /\ alert' = [alert EXCEPT ![h] = "idle"]
  /\ since' \in {since, [since EXCEPT ![h] = AlertEvery]}
  /\ UNCHANGED <<fleet, barrier, stage, waitVars, drain, left, orphan, interrupted, holdVars, attempts>>

-----------------------------------------------------------------------------
(* The held window, its failures and the release of its resources.         *)

\* assertQuietBeforeRestart: the lock is still held by this session and no
\* Run blocks.
AssertQuiet(h) ==
  /\ stage[h] = "held" /\ ~interrupted[h]
  /\ stage' = [stage EXCEPT ![h] =
       IF barrier = h /\ Blocking(h) = {} THEN "restarting" ELSE "failing"]
  /\ UNCHANGED <<fleet, barrier, waitVars, drainVars, interrupted, holdVars, attempts>>

\* publishBuild, restartServices, verifyServices.
Activate(h) ==
  /\ stage[h] = "restarting"
  /\ stage' = [stage EXCEPT ![h] = "releasing"]
  /\ UNCHANGED <<fleet, barrier, waitVars, drainVars, interrupted, holdVars, attempts>>

\* The deadline of prisma migrate deploy, or an abort while it runs: the child
\* is killed with the schema in an unknown state.
MigrationTerminated(h) ==
  /\ h = ControlPlane /\ stage[h] = "held"
  /\ terminated' = [terminated EXCEPT ![h] = TRUE]
  /\ retain' = [retain EXCEPT ![h] = "yes"]
  /\ stage' = [stage EXCEPT ![h] = "failing"]
  /\ UNCHANGED <<fleet, barrier, waitVars, drainVars, interrupted, marker, attempts>>

\* Any phase, query or watchdog that throws, and the abort once it is seen.
\* The wait loop releases a barrier it has not handed over yet.
Fail(h) ==
  /\ stage[h] \in Waiting \cup {"held", "restarting"}
  /\ stage' = [stage EXCEPT ![h] = "failing"]
  /\ IF stage[h] = "checking" THEN FreeBarrier(h) ELSE UNCHANGED barrier
  /\ UNCHANGED <<fleet, waitVars, drainVars, interrupted, holdVars, attempts>>

\* SIGTERM, SIGINT or the barrier watchdog; refused while the hold lasts.
Interrupt(h) ==
  /\ stage[h] \in Waiting \cup {"held", "restarting"} /\ retain[h] = "no" /\ ~interrupted[h]
  /\ interrupted' = [interrupted EXCEPT ![h] = TRUE]
  /\ UNCHANGED <<fleet, barrier, stage, waitVars, drainVars, holdVars, attempts>>

\* handleFailure writes the marker before the attempt is released.  The marker
\* of a terminated migration blocks; the write itself may fail.
Escalate(h) ==
  /\ stage[h] = "failing"
  /\ stage' = [stage EXCEPT ![h] = "releasing"]
  /\ marker' \in {marker, [marker EXCEPT ![h] = marker[h] \/ retain[h] # "no"]}
  /\ UNCHANGED <<fleet, barrier, waitVars, drainVars, interrupted, retain, terminated, attempts>>

ReleaseBarrier(h) ==
  /\ stage[h] = "releasing"
  /\ IF retain[h] = "no"
     THEN FreeBarrier(h) /\ stage' = [stage EXCEPT ![h] = "undrain"]
     ELSE stage' = [stage EXCEPT ![h] = "retaining"] /\ UNCHANGED barrier
  /\ UNCHANGED <<fleet, waitVars, drainVars, interrupted, holdVars, attempts>>

SeeMarker(h) ==
  /\ stage[h] = "retaining" /\ barrier = h /\ marker[h] /\ retain[h] = "yes"
  /\ retain' = [retain EXCEPT ![h] = "seen"]
  /\ UNCHANGED <<fleet, barrier, stage, waitVars, drainVars, interrupted, marker, terminated, attempts>>

\* Mutant: an absent marker ends the hold before it was ever seen.
EndHold_Impatient(h) ==
  /\ stage[h] = "retaining" /\ barrier = h /\ ~marker[h]
  /\ FreeBarrier(h)
  /\ retain' = [retain EXCEPT ![h] = "no"]
  /\ stage' = [stage EXCEPT ![h] = "undrain"]
  /\ UNCHANGED <<fleet, waitVars, drainVars, interrupted, marker, terminated, attempts>>

\* waitForEscalationClear: the marker must have been seen, then be gone.
EndHold(h) ==
  /\ stage[h] = "retaining" /\ barrier = h /\ retain[h] = "seen" /\ ~marker[h]
  /\ FreeBarrier(h)
  /\ retain' = [retain EXCEPT ![h] = "no"]
  /\ stage' = [stage EXCEPT ![h] = "undrain"]
  /\ UNCHANGED <<fleet, waitVars, drainVars, interrupted, marker, terminated, attempts>>

\* A lost session ends the hold; the failure of the release is escalated too.
LoseHold(h) ==
  /\ stage[h] = "retaining" /\ barrier # h
  /\ marker' \in {marker, [marker EXCEPT ![h] = TRUE]}
  /\ retain' = [retain EXCEPT ![h] = "no"]
  /\ stage' = [stage EXCEPT ![h] = "undrain"]
  /\ UNCHANGED <<fleet, barrier, waitVars, drainVars, interrupted, terminated, attempts>>

\* What the process knew of its wait ends with it.
ForgetWait(h) ==
  /\ mayWait' = [mayWait EXCEPT ![h] = FALSE]
  /\ polled' = [polled EXCEPT ![h] = FALSE]
  /\ elapsed' = [elapsed EXCEPT ![h] = 0]
  /\ since' = [since EXCEPT ![h] = AlertEvery]
  /\ alert' = [alert EXCEPT ![h] = "idle"]
  /\ interrupted' = [interrupted EXCEPT ![h] = FALSE]

\* Mutant: the release does not wait for an insert still in flight.
CloseDrain_Impatient(h) ==
  /\ stage[h] = "undrain"
  /\ stage' = [stage EXCEPT ![h] = "off"]
  /\ ForgetWait(h)
  /\ drain' = [drain EXCEPT ![h] = IF @ = "inserting" THEN @ ELSE "none"]
  /\ left' = [left EXCEPT ![h] = IF drain[h] = "inserting" THEN @ ELSE 0]
  /\ UNCHANGED <<fleet, barrier, orphan, holdVars, attempts>>

\* The drain resource is released last: it awaits the insert and deletes the
\* row.  A delete that fails leaves the row to its deadline, and is escalated.
CloseDrain(h) ==
  /\ stage[h] = "undrain" /\ drain[h] # "inserting"
  /\ \/ orphan' = orphan
     \/ drain[h] = "open" /\ orphan' = larger(orphan, left[h])
  /\ stage' = [stage EXCEPT ![h] = "off"]
  /\ ForgetWait(h)
  /\ drain' = [drain EXCEPT ![h] = "none"]
  /\ left' = [left EXCEPT ![h] = 0]
  /\ UNCHANGED <<fleet, barrier, holdVars, attempts>>

-----------------------------------------------------------------------------
(* Faults, the operator and time.                                          *)

\* The pinned database session is lost while the process lives on.
SessionLost(h) ==
  /\ barrier = h
  /\ barrier' = Nobody
  /\ UNCHANGED <<fleet, stage, waitVars, drainVars, interrupted, holdVars, attempts>>

\* The process is killed: its session ends, its row stays, and an insert in
\* flight may still be committed.
Crash(h) ==
  /\ stage[h] \notin {"off", "dead"}
  /\ stage' = [stage EXCEPT ![h] = "dead"]
  /\ FreeBarrier(h)
  /\ \/ drain[h] # "open" /\ orphan' = orphan
     \/ drain[h] \in {"open", "inserting"} /\ orphan' = larger(orphan, left[h])
  /\ ForgetWait(h)
  /\ drain' = [drain EXCEPT ![h] = "none"]
  /\ left' = [left EXCEPT ![h] = 0]
  /\ retain' = [retain EXCEPT ![h] = "no"]
  /\ UNCHANGED <<fleet, marker, terminated, attempts>>

\* The next tick finds the lock of a dead owner and escalates it, host-scoped.
RecoverLock(h) ==
  /\ stage[h] = "dead"
  /\ stage' = [stage EXCEPT ![h] = "off"]
  /\ marker' = [marker EXCEPT ![h] = TRUE]
  /\ UNCHANGED <<fleet, barrier, waitVars, drainVars, interrupted, retain, terminated, attempts>>

\* --clear-escalation, once the operator has repaired the cause.
ClearEscalation(h) ==
  /\ marker[h]
  /\ marker' = [marker EXCEPT ![h] = FALSE]
  /\ terminated' = [terminated EXCEPT ![h] = FALSE]
  /\ UNCHANGED <<fleet, barrier, stage, waitVars, drainVars, interrupted, retain, attempts>>

InStep(h) ==
  /\ (stage[h] \in Waiting /\ ~interrupted[h]) => (stage[h] = "waiting" /\ polled[h])
  /\ drain[h] # "inserting" /\ alert[h] # "extending"
  /\ alert[h] = "notifying" => NoticeMayStall

down(n) == IF n = 0 THEN 0 ELSE n - 1

Tick ==
  /\ \A h \in Hosts : InStep(h)
  /\ polled' = [h \in Hosts |-> FALSE]
  /\ elapsed' = [h \in Hosts |->
       IF stage[h] \in Waiting /\ elapsed[h] < Budget THEN elapsed[h] + 1 ELSE elapsed[h]]
  /\ since' = [h \in Hosts |-> IF since[h] < AlertEvery THEN since[h] + 1 ELSE AlertEvery]
  /\ left' = [h \in Hosts |-> down(left[h])]
  /\ orphan' = down(orphan)
  /\ UNCHANGED <<fleet, barrier, stage, mayWait, alert, drain, interrupted, holdVars, attempts>>

RunStep(r) == Queue(r) \/ BeginClaim(r) \/ EndClaim(r) \/ EndRun(r)

WaitStep(h) ==
  \/ SeeBlockers(h) \/ SeeQuiet(h) \/ Contended(h) \/ Acquire(h) \/ Recheck(h)

NoticeStep(h) == InsertSettles(h) \/ RenewSettles(h) \/ NoticeSettles(h)

HeldStep(h) ==
  \/ AssertQuiet(h) \/ Activate(h) \/ Escalate(h)
  \/ ReleaseBarrier(h) \/ SeeMarker(h) \/ EndHold(h) \/ LoseHold(h) \/ CloseDrain(h)

FaultStep(h) ==
  \/ MigrationTerminated(h) \/ Fail(h) \/ Interrupt(h) \/ SessionLost(h) \/ Crash(h)
  \/ RecoverLock(h) \/ ClearEscalation(h)

HostStep(h) ==
  Start(h) \/ ReachFloor(h) \/ WaitStep(h) \/ NoticeStep(h) \/ HeldStep(h) \/ FaultStep(h)

Next == (\E r \in Runs : RunStep(r)) \/ (\E h \in Hosts : HostStep(h)) \/ Tick

Spec == Init /\ [][Next]_vars

(* The processes keep running: time passes, claims and Runs end, a waiting *)
(* deploy polls, its writes settle, an aborted or held attempt is released.*)
(* The loop only tries the lock, it never queues for it, and claims hold   *)
(* the shared half for moments: that moments without an open claim recur,  *)
(* and that polls meet them, is assumed of the schedule (the second and    *)
(* the last conjunct).                                                     *)
Fairness ==
  /\ SF_vars(Tick)
  /\ []<>(\A r \in Runs : run[r] # "claiming")
  /\ \A r \in Runs : WF_vars(EndClaim(r)) /\ WF_vars(EndRun(r))
  /\ \A h \in Hosts :
       /\ WF_vars(WaitStep(h)) /\ WF_vars(NoticeStep(h)) /\ WF_vars(HeldStep(h))
       /\ WF_vars(interrupted[h] /\ Fail(h))
       /\ SF_vars(BarrierFree /\ SeeQuiet(h)) /\ SF_vars(Acquire(h))

LiveSpec == Spec /\ Fairness

-----------------------------------------------------------------------------
(* Properties.                                                             *)

(* While a deploy works under the barrier it acquired, including a hold    *)
(* after a terminated migration, no agent Run it waits for is live and no  *)
(* claim is in flight: whatever was claimed between its two looks at the   *)
(* blocking Runs sent it back to waiting.                                  *)
BarrierShutsDispatch ==
  \A h \in Hosts :
    (barrier = h /\ stage[h] \notin Waiting) =>
      Blocking(h) = {} /\ \A r \in Runs : run[r] # "claiming"

(* A schema that a terminated migration may have left half-applied stays   *)
(* behind the barrier of that attempt until the operator clears the        *)
(* escalation, unless the session or the process is lost.                  *)
HalfAppliedIsFenced ==
  [][\A h \in Hosts :
       (terminated'[h] /\ barrier = h /\ barrier' # h) =>
         (stage'[h] = "dead" \/ stage' = stage)]_vars

(* A drain row with no process behind it was left by a killed process or   *)
(* by a delete that failed: an insert still in flight when the window opens *)
(* or the attempt fails is awaited and its row deleted.                     *)
RowHasOwner == \A h \in Hosts : stage[h] \in {"off", "dead"} => drain[h] = "none"

(* An attempt admitted before the cadence floor never stops dispatch.      *)
EarlyNeverDrains == \A h \in Hosts : drain[h] # "none" => mayWait[h]

(* The drain of a live wait does not lapse: its deadline measures silence, *)
(* so the fleet cannot resume claiming into the release the wait is to     *)
(* replace.                                                                *)
DrainCoversTheWait ==
  \A h \in Hosts :
    (stage[h] \in Waiting /\ ~interrupted[h] /\ drain[h] = "open") => left[h] > 0

(* The deploy barrier serializes merge execution too.                      *)
MergeExecutionSerialized ==
  \A h \in Hosts : (barrier = h /\ stage[h] = "held") =>
    \A r \in MergeRuns : run[r] # "live"

(* Dispatch always resumes: no deploy, alive or dead, drains it for good.  *)
DispatchResumes == DrainActive ~> ~DrainActive

(* A waiting deploy gets its window, or ends, although the fleet claims as *)
(* fast as it can: the drain lets the blocking Runs run out.               *)
WindowComes == \A h \in Hosts : stage[h] \in Waiting ~> stage[h] \notin Waiting

(* Neither side waits for ever: the deploy for its window, the fleet for   *)
(* the end of the drain.                                                   *)
WaitsEnd == WindowComes /\ DispatchResumes
=============================================================================
