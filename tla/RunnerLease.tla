------------------------------ MODULE RunnerLease ------------------------------
(***************************************************************************)
(* One Run on its host: executeClaim of every claim of it, with the run    *)
(* lease that renews, adopts what the control plane answers and stops the  *)
(* provider, beside the control plane's row of the Run.                    *)
(*                                                                         *)
(* Three things run side by side in a claim: the main flow, the renewal,   *)
(* and the tasks an adopted loss of authority starts.  They meet at awaits *)
(* only.  The claims of a Run share its workspace directory; a later claim *)
(* exists when the Run was suspended for a question and answered.          *)
(***************************************************************************)
EXTENDS Integers, FiniteSets

CONSTANTS
    MaxClaims,      \* bound: claims of the Run
    MaxRelaunches   \* PROVIDER_RESUME_MAX_ATTEMPTS

ASSUME RunnerAssumption == MaxClaims \in Nat /\ MaxRelaunches \in Nat

Claims == 1..MaxClaims

VARIABLES
    status,     \* Run.status as the control plane has it
    gen,        \* leaseGeneration: the latest claim
    cancelled,  \* cancelRequestedAt is set
    lapsed,     \* leaseExpiresAt has passed and the Run is not settled yet
    acked,      \* history: the claim whose runner acknowledged, 0 if none
    workspace,  \* the directory of the Run exists
    pc,         \* where executeClaim of each claim is
    authority,  \* what the claim's lease believes
    slot,       \* currentLaunch: open, started, or settled and gone
    provider,   \* the provider process of the claim
    revoking,   \* a stopCurrentProvider task of a revocation is pending
    cancelling, \* cancellationTask
    renewal,    \* renewalTask
    heard,      \* the renewal before a relaunch was answered
    relaunches, \* attempts after a disconnect; one more: the remediation
    threw       \* the main flow went through its catch block

run == <<status, gen, cancelled, lapsed, acked>>
lease == <<authority, slot, provider, revoking, cancelling, renewal, heard>>
flow == <<pc, relaunches, threw>>
vars == <<status, gen, cancelled, lapsed, acked, workspace, pc, authority, slot,
          provider, revoking, cancelling, renewal, heard, relaunches, threw>>

Statuses == {"QUEUED", "CLAIMED", "WAITING_INBOX", "COMPLETED", "ENDED"}
Authority == {"held", "revoked", "waiting-inbox", "cancelled"}
Closed == {"off", "finishing", "closing", "closed", "done"}
Places == Closed \union
    {"provision", "preflight", "gate", "credentials", "unlaunched", "starting",
     "running", "exited", "renewing", "relaunching", "wrapup", "remediating",
     "entering", "draining", "lost", "delivering", "reclaiming", "disposing",
     "caught", "settling"}

Init ==
    /\ status = "QUEUED" /\ gen = 0 /\ cancelled = FALSE /\ lapsed = FALSE /\ acked = 0
    /\ workspace = FALSE
    /\ pc = [c \in Claims |-> "off"]
    /\ authority = [c \in Claims |-> "held"]
    /\ slot = [c \in Claims |-> "open"]
    /\ provider = [c \in Claims |-> "none"]
    /\ revoking = [c \in Claims |-> FALSE]
    /\ cancelling = [c \in Claims |-> "none"]
    /\ renewal = [c \in Claims |-> "none"]
    /\ heard = [c \in Claims |-> FALSE]
    /\ relaunches = [c \in Claims |-> 0]
    /\ threw = [c \in Claims |-> FALSE]

Held(c) == authority[c] = "held"

-----------------------------------------------------------------------------
(* The control plane: what happens to the Run while a runner works on it. *)

\* The runner and the fencing token of claim c are those of the row; answering a
\* question clears them.
Owned(c) == gen = c /\ status \in {"CLAIMED", "WAITING_INBOX"}

\* The fence of a claim: the current one, its lease stands, nobody asked to
\* cancel it.
Live(c) == status = "CLAIMED" /\ gen = c /\ ~cancelled /\ ~lapsed

\* What a fenced call of claim c is answered: a 409 or nothing special.
CallVerdict(c) ==
    IF Live(c) THEN "held"
    ELSE IF status = "WAITING_INBOX" THEN "waiting-inbox" ELSE "revoked"

\* A heartbeat also learns of a requested cancellation, even if its lease ran out;
\* it does not get that lease back.
HeartbeatVerdict(c) ==
    IF Owned(c) /\ cancelled THEN "cancelled" ELSE CallVerdict(c)

Claim(c) ==
    /\ status = "QUEUED" /\ c = gen + 1
    /\ status' = "CLAIMED"
    /\ gen' = c
    /\ pc' = [pc EXCEPT ![c] = "provision"]
    /\ UNCHANGED <<cancelled, lapsed, acked, workspace, lease, relaunches, threw>>

\* The agent asks a question: the Run is suspended, its workspace recorded as
\* retained, and the runner is not told.
Suspend ==
    /\ gen > 0 /\ Live(gen) /\ provider[gen] = "running"
    /\ status' = "WAITING_INBOX"
    /\ UNCHANGED <<gen, cancelled, lapsed, acked, workspace, lease, flow>>

\* The question is answered, which queues the Run, or it expires.
Answered ==
    /\ status = "WAITING_INBOX"
    /\ status' \in {"QUEUED", "ENDED"}
    /\ UNCHANGED <<gen, cancelled, lapsed, acked, workspace, lease, flow>>

RequestCancel ==
    /\ Owned(gen) /\ ~cancelled
    /\ cancelled' = TRUE
    /\ UNCHANGED <<status, gen, lapsed, acked, workspace, lease, flow>>

\* A queued Run ends: an operator cancels it, or it cannot be claimed.
Dismiss ==
    /\ status = "QUEUED"
    /\ status' = "ENDED"
    /\ cancelled' \in {cancelled, TRUE}
    /\ UNCHANGED <<gen, lapsed, acked, workspace, lease, flow>>

\* No heartbeat came in time.
Lapse ==
    /\ status = "CLAIMED" /\ ~lapsed
    /\ lapsed' = TRUE
    /\ UNCHANGED <<status, gen, cancelled, acked, workspace, lease, flow>>

\* The sweep settles what ran out; a late salvage of the Run before this one
\* invalidates a claim that cloned without it.
Expire ==
    /\ status = "CLAIMED"
    /\ status' = "ENDED" /\ lapsed' = FALSE
    /\ UNCHANGED <<gen, cancelled, acked, workspace, lease, flow>>

Control == Suspend \/ Answered \/ RequestCancel \/ Dismiss \/ Lapse \/ Expire

-----------------------------------------------------------------------------
(* The lease: renewals, and what a refused one starts. *)

\* adopt: a cancellation is final, a suspension says more than a revocation.
Adopt(c, v) ==
    IF v = "held" \/ authority[c] = "cancelled" THEN
        UNCHANGED <<authority, cancelling, revoking>>
    ELSE IF v = "cancelled" THEN
        /\ authority' = [authority EXCEPT ![c] = v]
        /\ cancelling' = [cancelling EXCEPT ![c] = "stopping"]
        /\ UNCHANGED revoking
    ELSE
        /\ authority' = [authority EXCEPT ![c] =
                IF @ = "held" \/ v = "waiting-inbox" THEN v ELSE @]
        /\ revoking' = [revoking EXCEPT ![c] = TRUE]
        /\ UNCHANGED cancelling

\* renew: one renewal at a time, none once the authority is lost or the lease
\* closed.
Renewing(c) ==
    renewal' = [renewal EXCEPT ![c] =
        IF @ = "none" /\ Held(c) /\ pc[c] \notin Closed THEN "sent" ELSE @]

Tick(c) ==
    /\ renewal[c] = "none" /\ Held(c) /\ pc[c] \notin Closed
    /\ Renewing(c)
    /\ UNCHANGED <<run, workspace, authority, slot, provider, revoking,
                   cancelling, heard, flow>>

RenewalAnswered(c) ==
    /\ renewal[c] = "sent"
    /\ Adopt(c, HeartbeatVerdict(c))
    /\ renewal' = [renewal EXCEPT ![c] =
            IF HeartbeatVerdict(c) = "held" THEN "none" ELSE "adopting"]
    /\ heard' = [heard EXCEPT ![c] = pc[c] = "relaunching"]
    /\ UNCHANGED <<run, workspace, slot, provider, flow>>

RenewalFails(c) ==
    /\ renewal[c] = "sent"
    /\ renewal' = [renewal EXCEPT ![c] = "none"]
    /\ heard' = [heard EXCEPT ![c] = FALSE]
    /\ UNCHANGED <<run, workspace, authority, slot, provider, revoking,
                   cancelling, flow>>

Pending(c) == revoking[c] \/ cancelling[c] \in {"stopping", "acking"}

\* The renewal that adopted a loss awaits what it started.
RenewalSettles(c) ==
    /\ renewal[c] = "adopting" /\ ~Pending(c)
    /\ renewal' = [renewal EXCEPT ![c] = "none"]
    /\ UNCHANGED <<run, workspace, authority, slot, provider, revoking,
                   cancelling, heard, flow>>

\* An event flush or a note of the running claim meets a 409.
FlushRefused(c) ==
    /\ pc[c] \in {"starting", "running", "exited", "draining"}
    /\ CallVerdict(c) # "held"
    /\ Adopt(c, CallVerdict(c))
    /\ UNCHANGED <<run, workspace, slot, provider, renewal, heard, flow>>

\* stopCurrentProvider waits for a launch under way before it stops it.
LaunchSettled(c) == slot[c] = "gone"

Stopped(c) ==
    provider' = [provider EXCEPT ![c] = IF @ = "running" THEN "stopped" ELSE @]

\* Mutant: a revocation stops what it finds, also while a launch is under way.
RevocationStops_AtOnce(c) ==
    /\ revoking[c]
    /\ Stopped(c)
    /\ revoking' = [revoking EXCEPT ![c] = FALSE]
    /\ UNCHANGED <<run, workspace, authority, slot, cancelling, renewal, heard, flow>>

RevocationStops(c) ==
    /\ revoking[c] /\ LaunchSettled(c)
    /\ Stopped(c)
    /\ revoking' = [revoking EXCEPT ![c] = FALSE]
    /\ UNCHANGED <<run, workspace, authority, slot, cancelling, renewal, heard, flow>>

CancellationStops(c) ==
    /\ cancelling[c] = "stopping" /\ LaunchSettled(c)
    /\ Stopped(c)
    /\ cancelling' = [cancelling EXCEPT ![c] = "acking"]
    /\ UNCHANGED <<run, workspace, authority, slot, revoking, renewal, heard, flow>>

\* acknowledgeCancellation settles the Run; the call may also fail.
Acknowledge(c) ==
    /\ cancelling[c] = "acking"
    /\ cancelling' = [cancelling EXCEPT ![c] = "done"]
    /\ \/ /\ Owned(c) /\ cancelled
          /\ status' = "ENDED" /\ lapsed' = FALSE
          /\ acked' = c
       \/ UNCHANGED <<status, lapsed, acked>>
    /\ UNCHANGED <<gen, cancelled, workspace, authority, slot, provider,
                   revoking, renewal, heard, flow>>

Tasks(c) ==
    \/ RenewalAnswered(c) \/ RenewalFails(c) \/ RenewalSettles(c)
    \/ RevocationStops(c) \/ CancellationStops(c) \/ Acknowledge(c)

-----------------------------------------------------------------------------
(* The main flow: from provisioning to the first launch. *)

Goes(c, place) == pc' = [pc EXCEPT ![c] = place]

\* Mutant: the stop tasks are left waiting.
Abandon_Nothing(c) == UNCHANGED slot

\* abandonProviderLaunch: a stop task must not wait for a launch that never comes.
Abandon(c) ==
    slot' = [slot EXCEPT ![c] = IF @ = "open" THEN "gone" ELSE @]

\* A first claim creates the directory, a resumed one must find it.
Provision(c) ==
    /\ pc[c] = "provision"
    /\ \/ c = 1 /\ workspace' = TRUE /\ Goes(c, "preflight")
       \/ c > 1 /\ workspace /\ UNCHANGED workspace /\ Goes(c, "preflight")
       \/ c > 1 /\ ~workspace /\ UNCHANGED workspace /\ Goes(c, "caught")
       \/ UNCHANGED workspace /\ Goes(c, "caught")
    /\ UNCHANGED <<run, lease, relaunches, threw>>

Preflight(c) ==
    /\ pc[c] = "preflight"
    /\ IF ~Held(c) THEN Abandon(c) /\ Goes(c, "gate")
       ELSE \/ Abandon(c) /\ Goes(c, "disposing")
            \/ UNCHANGED slot /\ Goes(c, "credentials")
    /\ UNCHANGED <<run, workspace, authority, provider, revoking, cancelling,
                   renewal, heard, relaunches, threw>>

\* checkpoint: the renewal and every task it started are awaited.
Checkpoint(c) == renewal[c] = "none" /\ ~Pending(c)

Gate(c) ==
    /\ pc[c] = "gate" /\ Checkpoint(c)
    /\ Goes(c, IF authority[c] = "cancelled" THEN "closing" ELSE "reclaiming")
    /\ UNCHANGED <<run, workspace, lease, relaunches, threw>>

\* launch: the slot is taken while the provider starts.
Launching(c) ==
    /\ slot' = [slot EXCEPT ![c] = "started"]
    /\ Goes(c, "starting")

Credentials(c) ==
    /\ pc[c] = "credentials"
    /\ IF Held(c) THEN Launching(c) ELSE Abandon(c) /\ Goes(c, "unlaunched")
    /\ UNCHANGED <<run, workspace, authority, provider, revoking, cancelling,
                   renewal, heard, relaunches, threw>>

\* launch returned null, or the claim may not launch: what is pending is awaited.
Unlaunched(c) ==
    /\ pc[c] = "unlaunched" /\ Checkpoint(c)
    /\ Goes(c, IF relaunches[c] = 0 THEN "closing" ELSE "wrapup")
    /\ UNCHANGED <<run, workspace, lease, relaunches, threw>>

Started(c) ==
    /\ pc[c] = "starting"
    /\ slot' = [slot EXCEPT ![c] = "gone"]
    /\ \/ /\ provider' = [provider EXCEPT ![c] = "running"]
          /\ Goes(c, IF Held(c) THEN "running" ELSE "unlaunched")
       \/ UNCHANGED provider /\ Goes(c, "caught")
    /\ UNCHANGED <<run, workspace, authority, revoking, cancelling, renewal,
                   heard, relaunches, threw>>

-----------------------------------------------------------------------------
(* The main flow: execution, relaunches after a disconnect. *)

ProviderExits(c) ==
    /\ provider[c] = "running"
    /\ provider' = [provider EXCEPT ![c] = "exited"]
    /\ UNCHANGED <<run, workspace, authority, slot, revoking, cancelling,
                   renewal, heard, flow>>

\* The exit is observed; or session.start is refused with the provider running.
Running(c) ==
    /\ pc[c] = "running"
    /\ \/ provider[c] # "running" /\ Goes(c, "exited")
       \/ relaunches[c] = 0 /\ Goes(c, "caught")
    /\ UNCHANGED <<run, workspace, lease, relaunches, threw>>

\* decideProviderRelaunch up to its backoff; then one fresh renewal.
Exited(c) ==
    /\ pc[c] = "exited"
    /\ \/ Held(c) /\ relaunches[c] < MaxRelaunches /\ Goes(c, "renewing")
       \/ Goes(c, "wrapup")
    /\ UNCHANGED <<run, workspace, lease, relaunches, threw>>

\* renewNow awaits the round under way and starts one of its own.
RenewNow(c) ==
    /\ pc[c] = "renewing" /\ renewal[c] = "none"
    /\ Renewing(c)
    /\ Goes(c, "relaunching")
    /\ UNCHANGED <<run, workspace, authority, slot, provider, revoking,
                   cancelling, heard, relaunches, threw>>

Relaunch(c) ==
    /\ pc[c] = "relaunching" /\ Checkpoint(c)
    /\ IF Held(c) /\ heard[c]
       THEN /\ relaunches' = [relaunches EXCEPT ![c] = @ + 1]
            /\ Launching(c)
       ELSE Goes(c, "wrapup") /\ UNCHANGED <<relaunches, slot>>
    /\ heard' = [heard EXCEPT ![c] = FALSE]
    /\ UNCHANGED <<run, workspace, authority, provider, revoking, cancelling,
                   renewal, threw>>

\* A step without its output: its provider may be asked once more.  The fence is
\* read again after the workspace snapshot, before the launch.
Remediated == MaxRelaunches + 1

Unsatisfied(c) ==
    /\ pc[c] = "wrapup" /\ Held(c) /\ relaunches[c] # Remediated
    /\ Goes(c, "remediating") \/ Goes(c, "caught")
    /\ UNCHANGED <<run, workspace, lease, relaunches, threw>>

\* Mutant: the answer of before the snapshot is used.
Remediate_StaleFence(c) ==
    /\ pc[c] = "remediating"
    /\ Launching(c)
    /\ relaunches' = [relaunches EXCEPT ![c] = Remediated]
    /\ UNCHANGED <<run, workspace, authority, provider, revoking, cancelling,
                   renewal, heard, threw>>

Remediate(c) ==
    /\ pc[c] = "remediating"
    /\ IF Held(c) THEN Launching(c) ELSE Goes(c, "wrapup") /\ UNCHANGED slot
    /\ relaunches' = [relaunches EXCEPT ![c] = Remediated]
    /\ UNCHANGED <<run, workspace, authority, provider, revoking, cancelling,
                   renewal, heard, threw>>

-----------------------------------------------------------------------------
(* The main flow: delivery, disposal of the workspace, the terminal write. *)

\* A cancelled Run returns; any other opens its delivery with a renewal.
Wrapup(c) ==
    /\ pc[c] = "wrapup"
    /\ IF authority[c] = "cancelled"
       THEN Checkpoint(c) /\ Goes(c, "closing") /\ UNCHANGED renewal
       ELSE renewal[c] = "none" /\ Renewing(c) /\ Goes(c, "entering")
    /\ UNCHANGED <<run, workspace, authority, slot, provider, revoking,
                   cancelling, heard, relaunches, threw>>

EnterDelivery(c) ==
    /\ pc[c] = "entering" /\ renewal[c] = "none"
    /\ Goes(c, "draining")
    /\ UNCHANGED <<run, workspace, lease, relaunches, threw>>

\* The events are drained; the delivery deadline may pass while they are.
Drained(c) ==
    /\ pc[c] = "draining"
    /\ \/ Held(c) /\ Goes(c, "delivering")
       \/ Held(c) /\ Goes(c, "caught")
       \/ ~Held(c) /\ Goes(c, "lost")
    /\ UNCHANGED <<run, workspace, lease, relaunches, threw>>

Lost(c) ==
    /\ pc[c] = "lost" /\ Checkpoint(c)
    /\ Goes(c, IF authority[c] = "revoked" THEN "reclaiming" ELSE "closing")
    /\ UNCHANGED <<run, workspace, lease, relaunches, threw>>

\* deliverWorkspace: the push, or nothing to push, or a refused publication.
Deliver(c) ==
    /\ pc[c] = "delivering"
    /\ Goes(c, "disposing") \/ Goes(c, "caught")
    /\ UNCHANGED <<run, workspace, lease, relaunches, threw>>

\* disposeWorkspace: kept by policy, kept because unpublished work could not be
\* acknowledged, or removed.
Dispose(c) ==
    /\ pc[c] \in {"reclaiming", "disposing"}
    /\ workspace' \in {workspace, FALSE}
    /\ Goes(c, IF pc[c] = "disposing" THEN "finishing" ELSE "closing")
    /\ UNCHANGED <<run, lease, relaunches, threw>>

\* The lease is closed before the terminal write, which the fence may refuse.
Finish(c) ==
    /\ pc[c] = "finishing" /\ renewal[c] = "none"
    /\ \/ /\ Live(c)
          /\ status' = "COMPLETED"
          /\ Goes(c, "closing")
       \/ /\ UNCHANGED status
          /\ Goes(c, IF threw[c] THEN "closing" ELSE "caught")
    /\ UNCHANGED <<gen, cancelled, lapsed, acked, workspace, lease, relaunches, threw>>

\* catch: an error of this flow, adopted when it is a 409.
Caught(c) ==
    /\ pc[c] = "caught"
    /\ Abandon(c)
    /\ \E v \in {"held", CallVerdict(c)} : Adopt(c, v)
    /\ threw' = [threw EXCEPT ![c] = TRUE]
    /\ Goes(c, "settling")
    /\ UNCHANGED <<run, workspace, provider, renewal, heard, relaunches>>

Settling(c) ==
    /\ pc[c] = "settling" /\ Checkpoint(c)
    /\ IF Held(c) THEN Stopped(c) ELSE UNCHANGED provider
    /\ Goes(c, CASE authority[c] = "held" -> "disposing"
                 [] authority[c] = "revoked" -> "reclaiming"
                 [] OTHER -> "closing")
    /\ UNCHANGED <<run, workspace, authority, slot, revoking, cancelling,
                   renewal, heard, relaunches, threw>>

\* finally: no launch comes any more, and the renewal under way is awaited; the
\* locals of the call are gone.
Finally(c) ==
    /\ pc[c] = "closing"
    /\ Abandon(c)
    /\ Goes(c, "closed")
    /\ relaunches' = [relaunches EXCEPT ![c] = 0]
    /\ threw' = [threw EXCEPT ![c] = FALSE]
    /\ UNCHANGED <<run, workspace, authority, provider, revoking, cancelling,
                   renewal, heard>>

Close(c) ==
    /\ pc[c] = "closed" /\ renewal[c] = "none"
    /\ Goes(c, "done")
    /\ UNCHANGED <<run, workspace, lease, relaunches, threw>>

Main(c) ==
    \/ Provision(c) \/ Preflight(c) \/ Gate(c) \/ Credentials(c) \/ Unlaunched(c)
    \/ Started(c) \/ Running(c) \/ Exited(c) \/ RenewNow(c) \/ Relaunch(c)
    \/ Unsatisfied(c) \/ Remediate(c) \/ Wrapup(c) \/ EnterDelivery(c) \/ Drained(c) \/ Lost(c) \/ Deliver(c)
    \/ Dispose(c) \/ Finish(c) \/ Caught(c) \/ Settling(c)
    \/ Finally(c) \/ Close(c)

Next ==
    \/ Control
    \/ \E c \in Claims :
        \/ Claim(c) \/ Tick(c) \/ FlushRefused(c) \/ ProviderExits(c)
        \/ Tasks(c) \/ Main(c)

Spec == Init /\ [][Next]_vars

\* Calls are answered or time out, processes are stopped, and a provider ends by
\* itself or by its Run's duration.  The main flow awaits promises, not states:
\* a later renewal does not keep it waiting, hence strong fairness.
Fairness ==
    \A c \in Claims :
        /\ SF_vars(Main(c))
        /\ WF_vars(Tasks(c))
        /\ WF_vars(ProviderExits(c))
LiveSpec == Spec /\ Fairness

-----------------------------------------------------------------------------
TypeOK ==
    /\ status \in Statuses /\ gen \in 0..MaxClaims /\ cancelled \in BOOLEAN
    /\ lapsed \in BOOLEAN
    /\ acked \in 0..MaxClaims /\ workspace \in BOOLEAN
    /\ pc \in [Claims -> Places]
    /\ authority \in [Claims -> Authority]
    /\ slot \in [Claims -> {"open", "started", "gone"}]
    /\ provider \in [Claims -> {"none", "running", "stopped", "exited"}]
    /\ revoking \in [Claims -> BOOLEAN]
    /\ cancelling \in [Claims -> {"none", "stopping", "acking", "done"}]
    /\ renewal \in [Claims -> {"none", "sent", "adopting"}]
    /\ heard \in [Claims -> BOOLEAN]
    /\ relaunches \in [Claims -> 0..Remediated]
    /\ threw \in [Claims -> BOOLEAN]
    /\ \A c \in Claims : slot[c] = "started" => pc[c] = "starting"

\* However a claim ends, its provider does not outlive executeClaim: also when
\* the authority is lost while the provider is being launched.
NoOrphanProvider == \A c \in Claims : pc[c] = "done" => provider[c] # "running"

\* The control plane is told that a cancelled Run stopped only when it did, and
\* no provider is started for it afterwards.
AcknowledgedMeansStopped ==
    acked # 0 => provider[acked] # "running" /\ slot[acked] = "gone"

\* A suspended Run, and an answered one nobody claimed yet, has the workspace
\* its resumption needs.
SuspendedKeepsWorkspace ==
    status = "WAITING_INBOX" \/ (status = "QUEUED" /\ gen > 0) => workspace

\* Every claim ends: no await waits for a launch, a renewal or a task that
\* itself waits for the main flow.
ClaimsEnd == \A c \in Claims : pc[c] = "provision" ~> pc[c] = "done"

-----------------------------------------------------------------------------
(***************************************************************************)
(* The row of the Run is one of RunInterface, and all that RunInterface    *)
(* allows others to do to it is done by Control.                           *)
(***************************************************************************)
Seen == INSTANCE RunInterface

\* The claims of the Run do to its row only what the interface lets a runner do,
\* whatever their main flows, renewals and stops do and whenever they fail.
RowIsKept == Seen!RowSpec
=============================================================================
