--------------------------- MODULE DeployAttempt ---------------------------
(***************************************************************************)
(* Deploy attempts of the control-plane host, from the tick of the timer   *)
(* (or an operator's --now) to the state they leave behind: the process    *)
(* lock, the escalation marker that latches failures, the release pointers *)
(* and the services that follow them (scripts/deploy quiet-window-lib.mjs, *)
(* quiet-window-escalation.mjs, quiet-window-deploy.mjs,                   *)
(* release-pointer.mjs, deploy-preflight.mjs).                             *)
(*                                                                         *)
(* A failure is known by its class: "transient" for the reasons retried    *)
(* with a backoff, "host" and "interrupted" for those of this host,        *)
(* "commit" for every other.  The deployment ledger is record-only and     *)
(* left out; the quiet window itself is module QuietWindow, here one step. *)
(* A step is the code between two waits for a child process, the network   *)
(* or the database.                                                        *)
(***************************************************************************)
EXTENDS Naturals, FiniteSets

CONSTANTS
  Procs,      \* processes that may run at a time: ticks and operators
  Free,       \* the lock file is absent
  Dead,       \* the lock file names a process that is gone
  Units,      \* the services of the host
  Last,       \* bound: the newest commit of origin/main
  RetryCap,   \* failures of a transient marker before it backs off
  MaxCrashes, \* bound: processes killed without a chance to clean up
  FailsTwice  \* the release of the resources may fail after a failure that fenced the host

ASSUME ProcsAssumption == Free \notin Procs /\ Dead \notin Procs /\ Free # Dead
ASSUME BoundsAssumption == Last \in Nat \ {0} /\ RetryCap \in Nat \ {0} /\ MaxCrashes \in Nat
                              /\ FailsTwice \in BOOLEAN

Commits == 1..Last
Unknown == 0        \* no commit: a pointer that is absent, a target not determined

VARIABLES
  main,       \* the commit origin/main points at
  current,    \* the commit of the release `current` points at
  previous,   \* the commit of the release `previous` points at, or Unknown
  serving,    \* unit -> the commit it was started from
  schema,     \* the commit whose migrations the database has
  escalation, \* the escalation marker on disk
  lock,       \* the process lock file: its live owner, Dead or Free
  recent,     \* an automatic deploy succeeded within the cadence interval
  crashes,
  phase,      \* process -> where it is
  job         \* process -> what it knows

host == <<current, previous, serving, schema>>
attemptVars == <<main, host, escalation, lock, recent, crashes, phase, job>>

Reasons == {"transient", "commit", "host", "interrupted"}
Classes == {"transient", "commit", "host"}

Preparing == {"prefix", "artifact", "window", "backup", "migrate", "quiet"}
Activating == {"publish", "restart", "verify", "announce"}
Recovering == {"rollback", "restore", "settle", "failed"}
Pipeline == Preparing \cup Activating \cup Recovering
AttemptStages == Pipeline \cup
  {"off", "acquire", "reclaim", "check", "renotify", "supersede", "target", "selfclear", "release", "finish"}

NoMarker == [class |-> "none", to |-> Unknown, attempts |-> 0, due |-> FALSE, told |-> FALSE]

NoJob == [auto |-> FALSE, target |-> Unknown, from |-> Unknown, retry |-> FALSE, seen |-> "none",
          early |-> FALSE, facts |-> {}, todo |-> {}, reason |-> "none"]

Markers == {NoMarker} \cup
  [class : Classes, to : Commits \cup {Unknown}, attempts : 0..RetryCap, due : BOOLEAN, told : BOOLEAN]

Facts == {"upgrade", "activated", "proven", "deployed"}

Jobs ==
  [auto : BOOLEAN, target : Commits \cup {Unknown}, from : Commits \cup {Unknown}, retry : BOOLEAN,
   seen : {"none", "same", "changed"}, early : BOOLEAN, facts : SUBSET Facts,
   todo : SUBSET Units, reason : Reasons \cup {"none"}]

AttemptTypeOK ==
  /\ main \in Commits /\ current \in Commits /\ previous \in Commits \cup {Unknown}
  /\ serving \in [Units -> Commits] /\ schema \in Commits
  /\ escalation \in Markers
  /\ lock \in Procs \cup {Free, Dead}
  /\ recent \in BOOLEAN /\ crashes \in 0..MaxCrashes
  /\ phase \in [Procs -> AttemptStages] /\ job \in [Procs -> Jobs]

AttemptInit ==
  /\ main = 1 /\ current = 1 /\ previous = Unknown
  /\ serving = [u \in Units |-> 1] /\ schema = 1
  /\ escalation = NoMarker /\ lock = Free /\ recent = FALSE /\ crashes = 0
  /\ phase = [p \in Procs |-> "off"] /\ job = [p \in Procs |-> NoJob]

-----------------------------------------------------------------------------
(* The escalation marker.                                                  *)

Marked == escalation.class # "none"

\* escalationScope: an unproven activation and a failure without a target are
\* the host's, a transient reason is retried, the rest latches its commit.
Scope(reason, to, proven) ==
  CASE ~proven -> "host"
    [] proven /\ reason = "transient" -> "transient"
    [] proven /\ reason = "commit" /\ to # Unknown -> "commit"
    [] OTHER -> "host"

upTo(n, cap) == IF n < cap THEN n ELSE cap

\* writeEscalationWithAttempts: the record replaces whatever was there and
\* counts on from it when its reason is retried.
Escalated(reason, to, proven, told) ==
  LET n == IF reason = "transient" THEN upTo(escalation.attempts + 1, RetryCap) ELSE 0
  IN [class |-> Scope(reason, to, proven), to |-> to, attempts |-> n,
      due |-> (n < RetryCap), told |-> told]

\* A process that holds a copy of the marker will find it replaced.
Replaced(jobs) ==
  [q \in Procs |-> IF jobs[q].seen = "same" THEN [jobs[q] EXCEPT !.seen = "changed"] ELSE jobs[q]]

Go(p, where) == phase' = [phase EXCEPT ![p] = where]

\* The process ends; it unlinks the lock file only if the file is still its own.
Exit(p) ==
  /\ Go(p, "off")
  /\ lock' = IF lock = p THEN Free ELSE lock

\* Thrown out of the invocation: the lock is released and the marker written
\* without a target, the notice may or may not arrive.
Abandon(p, reason) ==
  /\ Exit(p)
  /\ \E told \in BOOLEAN : escalation' = Escalated(reason, Unknown, TRUE, told)
  /\ job' = Replaced([job EXCEPT ![p] = NoJob])

-----------------------------------------------------------------------------
(* The invocation: lock, marker, target, cadence.                          *)

\* The configuration of the host may be unusable, before the lock is taken.
Launch(p) ==
  /\ phase[p] = "off"
  /\ \/ /\ \E auto \in BOOLEAN : job' = [job EXCEPT ![p].auto = auto]
        /\ Go(p, "acquire")
        /\ UNCHANGED <<escalation, lock>>
     \/ Abandon(p, "host")
  /\ UNCHANGED <<main, host, recent, crashes>>

\* acquireProcessLock: create the file, skip beside a live owner, or set out to
\* reclaim the lock of a dead one.
TryLock(p) ==
  /\ phase[p] = "acquire"
  /\ \/ lock = Free /\ lock' = p /\ Go(p, "check") /\ UNCHANGED job
     \/ lock \in Procs /\ Exit(p) /\ job' = [job EXCEPT ![p] = NoJob]
     \/ lock = Dead /\ Go(p, "reclaim") /\ UNCHANGED <<lock, job>>
  /\ UNCHANGED <<main, host, escalation, recent, crashes>>

\* Mutant: the reclaimed lock is kept and the invocation goes on.
Reclaim_GoesOn(p) ==
  /\ phase[p] = "reclaim"
  /\ lock' = p /\ Go(p, "check")
  /\ UNCHANGED <<main, host, escalation, recent, crashes, job>>

\* The file found now is renamed away, whoever it belongs to by now, and the
\* invocation ends in stale-deploy-owner-recovered; if it is gone the lock is
\* simply taken.
Reclaim(p) ==
  /\ phase[p] = "reclaim"
  /\ IF lock = Free
     THEN lock' = p /\ Go(p, "check") /\ UNCHANGED <<escalation, job>>
     ELSE /\ lock' = Free
          /\ Go(p, "off")
          /\ \E told \in BOOLEAN : escalation' = Escalated("host", Unknown, TRUE, told)
          /\ job' = Replaced([job EXCEPT ![p] = NoJob])
  /\ UNCHANGED <<main, host, recent, crashes>>

\* Mutant: a marker at the cap latches for good.
MayRetry_Capped == escalation.class = "transient" /\ escalation.attempts < RetryCap

\* checkExistingEscalation admits a retry below the cap, and at it once the
\* backoff is over.
MayRetry == escalation.class = "transient" /\ (escalation.attempts < RetryCap \/ escalation.due)

Forget(p) == job' = [job EXCEPT ![p] = NoJob]

\* Mutant: whatever names a commit is superseded by another.
Latch_AnyTarget(p) ==
  IF escalation.to # Unknown
  THEN Go(p, "supersede") /\ UNCHANGED <<lock, job>>
  ELSE Exit(p) /\ Forget(p)

\* What a latched marker leaves to decide: whether main has moved on.
Latch(p) ==
  IF escalation.class = "commit"
  THEN Go(p, "supersede") /\ UNCHANGED <<lock, job>>
  ELSE Exit(p) /\ Forget(p)

\* checkExistingEscalation reads the marker and sends its notice again when it
\* never arrived.
Check(p) ==
  /\ phase[p] = "check"
  /\ \/ ~Marked /\ Go(p, "target") /\ UNCHANGED <<lock, job>>
     \/ /\ Marked /\ ~escalation.told
        /\ Go(p, "renotify") /\ job' = [job EXCEPT ![p].seen = "same", ![p].retry = MayRetry]
        /\ UNCHANGED lock
     \/ /\ Marked /\ escalation.told /\ MayRetry
        /\ Go(p, "target") /\ job' = [job EXCEPT ![p].seen = "same", ![p].retry = TRUE]
        /\ UNCHANGED lock
     \/ Marked /\ escalation.told /\ ~MayRetry /\ Latch(p)
  /\ UNCHANGED <<main, host, escalation, recent, crashes>>

\* An admitted retry goes on whether or not the notice arrived, unless the
\* marker was replaced meanwhile.
Retry(p) ==
  /\ phase[p] = "renotify" /\ job[p].retry
  /\ IF Marked
     THEN /\ \E told \in BOOLEAN : escalation' = [escalation EXCEPT !.told = @ \/ told]
          /\ IF job[p].seen = "same"
             THEN Go(p, "target") /\ UNCHANGED <<lock, job>>
             ELSE Exit(p) /\ Forget(p)
     ELSE /\ Go(p, "target") /\ job' = [job EXCEPT ![p].retry = FALSE, ![p].seen = "none"]
          /\ UNCHANGED <<lock, escalation>>
  /\ UNCHANGED <<main, host, recent, crashes>>

\* A latched marker ends the invocation, unless it latched one commit.  Its
\* notice must arrive, on a marker that is still there, or the invocation throws.
Latched(p) ==
  /\ phase[p] = "renotify" /\ ~job[p].retry
  /\ \/ Abandon(p, "host")
     \/ /\ Marked
        /\ escalation' = [escalation EXCEPT !.told = TRUE]
        /\ IF job[p].seen = "same" THEN Latch(p) ELSE Exit(p) /\ Forget(p)
  /\ UNCHANGED <<main, host, recent, crashes>>

\* supersedeLatchedCommit: only another commit than the one that latched is
\* attempted; the marker stays.  An unreadable remote proves nothing.
Supersede(p) ==
  /\ phase[p] = "supersede"
  /\ \/ /\ main # escalation.to
        /\ Go(p, "prefix") /\ job' = [job EXCEPT ![p].target = main, ![p].seen = "none"]
        /\ UNCHANGED lock
     \/ Exit(p) /\ Forget(p)
  /\ UNCHANGED <<main, host, escalation, recent, crashes>>

\* The target is read and the cadence consulted.  Within the interval a moved
\* target waits for a later tick or, when nothing blocks right now, starts
\* early.  An operator's --now is not held to the cadence.
ReadTarget(p) ==
  /\ phase[p] = "target"
  /\ \/ \E reason \in {"transient", "host"} : Abandon(p, reason)
     \/ /\ recent /\ job[p].auto /\ main # current
        /\ Exit(p) /\ Forget(p)
        /\ UNCHANGED escalation
     \/ /\ Go(p, "prefix")
        /\ job' = [job EXCEPT ![p].target = main, ![p].early = recent /\ job[p].auto /\ main # current]
        /\ UNCHANGED <<escalation, lock>>
  /\ UNCHANGED <<main, host, recent, crashes>>

-----------------------------------------------------------------------------
(* The phases.                                                             *)

Know(p, fact) == job' = [job EXCEPT ![p].facts = @ \cup {fact}]

\* A target that `current` already points at ends the attempt well.
ReadRevisions(p) ==
  /\ phase[p] = "prefix"
  /\ job' = [job EXCEPT ![p].from = current]
  /\ Go(p, IF current = job[p].target THEN "selfclear" ELSE "artifact")
  /\ UNCHANGED <<main, host, escalation, lock, recent, crashes>>

\* The artifact is built in the prefix and verified by the first upgrade phase.
BuildArtifact(p) ==
  /\ phase[p] = "artifact"
  /\ Go(p, "window") /\ Know(p, "upgrade")
  /\ UNCHANGED <<main, host, escalation, lock, recent, crashes>>

\* The window opens; under the barrier main is read again and its artifact
\* built in place of the one prepared.  An early attempt may find it closed.
AcquireWindow(p) ==
  /\ phase[p] = "window"
  /\ \/ Go(p, "backup") /\ job' = [job EXCEPT ![p].target = main]
     \/ job[p].early /\ Go(p, "release") /\ UNCHANGED job
  /\ UNCHANGED <<main, host, escalation, lock, recent, crashes>>

\* Operation workspace, stable service paths and the backup.
Backup(p) ==
  /\ phase[p] = "backup" /\ Go(p, "migrate")
  /\ UNCHANGED <<main, host, escalation, lock, recent, crashes, job>>

\* guardedMigration, then Prisma client and prompts of the operation workspace.
Migrate(p) ==
  /\ phase[p] = "migrate"
  /\ schema' = job[p].target
  /\ Go(p, "quiet")
  /\ UNCHANGED <<main, current, previous, serving, escalation, lock, recent, crashes, job>>

\* Mutant: the target is read again after the migration, not before it.
AssertStillQuiet_Retargets(p) ==
  /\ phase[p] = "quiet" /\ Go(p, "publish")
  /\ job' = [job EXCEPT ![p].target = main]
  /\ UNCHANGED <<main, host, escalation, lock, recent, crashes>>

\* The barrier and the window are looked at once more.
AssertStillQuiet(p) ==
  /\ phase[p] = "quiet" /\ Go(p, "publish")
  /\ UNCHANGED <<main, host, escalation, lock, recent, crashes, job>>

\* activateReleasePointer: `previous` first, then `current` in one rename.
Publish(p) ==
  /\ phase[p] = "publish"
  /\ current' = job[p].target
  /\ previous' = IF current = job[p].target THEN previous ELSE current
  /\ Go(p, "restart")
  /\ job' = [job EXCEPT ![p].facts = @ \cup {"activated", "proven", "deployed"}, ![p].todo = Units]
  /\ UNCHANGED <<main, serving, schema, escalation, lock, recent, crashes>>

\* A failed activation puts the pointers back, or cannot and says so in its
\* detail; a release that fails its verification leaves the outcome unproven.
PublishFails(p) ==
  /\ phase[p] = "publish"
  /\ \/ job' = [job EXCEPT ![p].facts = @ \cup {"activated", "proven"}, ![p].reason = "host"]
        /\ \/ UNCHANGED <<current, previous>>
           \/ current' = job[p].target /\ previous' \in {previous, current}
     \/ /\ job' = [job EXCEPT ![p].facts = @ \cup {"activated"}, ![p].reason = "commit"]
        /\ UNCHANGED <<current, previous>>
  /\ Go(p, "failed")
  /\ UNCHANGED <<main, serving, schema, escalation, lock, recent, crashes>>

\* A unit starts from whatever `current` points at when it starts.
RestartUnit(p) ==
  /\ phase[p] \in {"restart", "restore"}
  /\ \E u \in job[p].todo :
       /\ serving' = [serving EXCEPT ![u] = current]
       /\ job' = [job EXCEPT ![p].todo = @ \ {u}]
  /\ UNCHANGED <<main, current, previous, schema, escalation, lock, recent, crashes, phase>>

RestartsDone(p) ==
  /\ phase[p] \in {"restart", "restore"} /\ job[p].todo = {}
  /\ Go(p, IF phase[p] = "restart" THEN "verify" ELSE "settle")
  /\ UNCHANGED <<main, host, escalation, lock, recent, crashes, job>>

VerifyServices(p) ==
  /\ phase[p] = "verify" /\ Go(p, "announce")
  /\ UNCHANGED <<main, host, escalation, lock, recent, crashes, job>>

\* The ledger records SUCCEEDED and the Inbox the success.
Announce(p) ==
  /\ phase[p] = "announce" /\ Go(p, "selfclear")
  /\ UNCHANGED <<main, host, escalation, lock, recent, crashes, job>>

\* selfClearEscalation: the very marker this attempt was admitted to retry is
\* removed once its recovery notice has arrived.
SelfClear(p) ==
  /\ phase[p] = "selfclear"
  /\ Go(p, "release")
  /\ \/ UNCHANGED <<escalation, job>>
     \/ job[p].retry /\ job[p].seen = "same" /\ escalation' = NoMarker /\ job' = Replaced(job)
  /\ UNCHANGED <<main, host, lock, recent, crashes>>

-----------------------------------------------------------------------------
(* Failure.                                                                *)

\* The classes a phase fails with.
FailsWith(s) ==
  CASE s = "prefix"   -> {"commit", "host"}
    [] s = "artifact" -> {"transient", "commit", "host", "interrupted"}
    [] s = "window"   -> {"transient", "commit", "host", "interrupted"}
    [] s = "backup"   -> {"commit", "host", "interrupted"}
    [] s = "migrate"  -> {"commit", "host", "interrupted"}
    [] s = "quiet"    -> {"transient", "commit"}
    [] s = "restart"  -> {"commit", "host", "interrupted"}
    [] s = "verify"   -> {"commit", "host", "interrupted"}
    [] s = "announce" -> {"commit", "host"}
    [] OTHER -> {}

\* Mutant: a failure after the publication is not rolled back.
PhaseFails_Stays(p) ==
  /\ \E reason \in FailsWith(phase[p]) : job' = [job EXCEPT ![p].reason = reason]
  /\ Go(p, "failed")
  /\ UNCHANGED <<main, host, escalation, lock, recent, crashes>>

\* A phase throws.  Once the publication stands it is rolled back first.
PhaseFails(p) ==
  /\ \E reason \in FailsWith(phase[p]) : job' = [job EXCEPT ![p].reason = reason]
  /\ Go(p, IF "deployed" \in job[p].facts THEN "rollback" ELSE "failed")
  /\ UNCHANGED <<main, host, escalation, lock, recent, crashes>>

\* A migration that fails or is killed may have applied what it did apply.
MigrationFails(p) ==
  /\ phase[p] = "migrate"
  /\ schema' \in {schema, job[p].target}
  /\ \E reason \in FailsWith("migrate") : job' = [job EXCEPT ![p].reason = reason]
  /\ Go(p, "failed")
  /\ UNCHANGED <<main, current, previous, serving, escalation, lock, recent, crashes>>

\* rollbackReleasePointer exchanges the two pointers.
Rollback(p) ==
  /\ phase[p] = "rollback" /\ previous # Unknown /\ previous # current
  /\ current' = previous /\ previous' = current
  /\ Go(p, "restore") /\ job' = [job EXCEPT ![p].todo = Units]
  /\ UNCHANGED <<main, serving, schema, escalation, lock, recent, crashes>>

\* The recovery fails: pointers, restarts or the proof of the old release.  Its
\* own reason is the one recorded, and the outcome counts as unproven.
Unproven(p) ==
  job' = [job EXCEPT ![p].reason = "host", ![p].facts = @ \ {"proven"}, ![p].todo = {}]

RecoveryFails(p) ==
  /\ \/ phase[p] = "rollback"
        /\ \/ UNCHANGED <<current, previous>>
           \/ previous # Unknown /\ current' \in {current, previous} /\ previous' \in {current, previous}
     \/ phase[p] \in {"restore", "settle"} /\ UNCHANGED <<current, previous>>
  /\ Go(p, "failed") /\ Unproven(p)
  /\ UNCHANGED <<main, serving, schema, escalation, lock, recent, crashes>>

\* The restored services passed the same observation.
Settle(p) ==
  /\ phase[p] = "settle" /\ Go(p, "failed") /\ Know(p, "proven")
  /\ UNCHANGED <<main, host, escalation, lock, recent, crashes>>

Proven(p) == "activated" \in job[p].facts => "proven" \in job[p].facts

\* handleFailure: an interruption before the upgrade began is not escalated.
Record(p, reason) ==
  IF reason = "interrupted" /\ "upgrade" \notin job[p].facts
  THEN UNCHANGED escalation /\ UNCHANGED job
  ELSE /\ \E told \in BOOLEAN : escalation' = Escalated(reason, job[p].target, Proven(p), told)
       /\ job' = Replaced([job EXCEPT ![p].reason = reason])

Failed(p) ==
  /\ phase[p] = "failed" /\ Record(p, job[p].reason)
  /\ Go(p, "release")
  /\ UNCHANGED <<main, host, lock, recent, crashes>>

\* The resources are released; when that fails the failure is handled like any
\* other, after one that may be recorded already.
Release(p) ==
  /\ phase[p] = "release"
  /\ \/ UNCHANGED <<escalation, job>>
     \/ /\ "upgrade" \in job[p].facts
        /\ escalation.class = "host" => FailsTwice
        /\ \E reason \in {"transient", "commit"} : Record(p, reason)
  /\ Go(p, "finish")
  /\ UNCHANGED <<main, host, lock, recent, crashes>>

\* Only a deploy that was completed, announced and released earns the interval,
\* and the timestamp may fail to be written.
Finish(p) ==
  /\ phase[p] = "finish"
  /\ Exit(p) /\ Forget(p)
  /\ recent' \in {recent, recent \/ (job[p].auto /\ job[p].reason = "none" /\ "deployed" \in job[p].facts)}
  /\ UNCHANGED <<main, host, escalation, crashes>>

-----------------------------------------------------------------------------
(* The world.                                                              *)

MainMoves ==
  /\ main < Last /\ main' = main + 1
  /\ UNCHANGED <<host, escalation, lock, recent, crashes, phase, job>>

IntervalPasses ==
  /\ recent /\ recent' = FALSE
  /\ UNCHANGED <<main, host, escalation, lock, crashes, phase, job>>

\* The retryAfter of the marker is reached.
BackoffExpires ==
  /\ escalation.class = "transient" /\ ~escalation.due
  /\ escalation' = [escalation EXCEPT !.due = TRUE]
  /\ UNCHANGED <<main, host, lock, recent, crashes, phase, job>>

ProcessCrashes(p) ==
  /\ phase[p] # "off" /\ crashes < MaxCrashes
  /\ crashes' = crashes + 1
  /\ Go(p, "off") /\ Forget(p)
  /\ lock' = IF lock = p THEN Dead ELSE lock
  /\ UNCHANGED <<main, host, escalation, recent>>

\* --clear-escalation.  A host-scoped marker is cleared once the operator has
\* repaired its cause: no deploy runs, and every service runs what `current`
\* points at.
OperatorClears ==
  /\ Marked
  /\ IF escalation.class = "host"
     THEN /\ \A p \in Procs : phase[p] = "off"
          /\ serving' = [u \in Units |-> current]
     ELSE UNCHANGED serving
  /\ escalation' = NoMarker
  /\ job' = Replaced(job)
  /\ UNCHANGED <<main, current, previous, schema, lock, recent, crashes, phase>>

Invoke(p) ==
  \/ Launch(p) \/ TryLock(p) \/ Reclaim(p) \/ Check(p) \/ Retry(p) \/ Latched(p)
  \/ Supersede(p) \/ ReadTarget(p)

Upgrade(p) ==
  \/ ReadRevisions(p) \/ BuildArtifact(p) \/ AcquireWindow(p) \/ Backup(p) \/ Migrate(p)
  \/ AssertStillQuiet(p) \/ Publish(p) \/ RestartUnit(p) \/ RestartsDone(p) \/ VerifyServices(p)
  \/ Announce(p) \/ SelfClear(p)

Recover(p) ==
  \/ PublishFails(p) \/ PhaseFails(p) \/ MigrationFails(p) \/ Rollback(p) \/ RecoveryFails(p)
  \/ Settle(p) \/ Failed(p) \/ Release(p) \/ Finish(p)

Process(p) == Invoke(p) \/ Upgrade(p) \/ Recover(p)

AttemptNext ==
  \/ \E p \in Procs : Process(p) \/ ProcessCrashes(p)
  \/ MainMoves \/ IntervalPasses \/ BackoffExpires \/ OperatorClears

AttemptSpec == AttemptInit /\ [][AttemptNext]_attemptVars

(* The timer keeps launching, a process keeps going, backoffs run out.     *)
AttemptLiveSpec ==
  /\ AttemptSpec /\ WF_attemptVars(BackoffExpires)
  /\ \A p \in Procs : WF_attemptVars(Process(p))

-----------------------------------------------------------------------------
(* Properties.                                                             *)

Divided == \E u \in Units : serving[u] # current

(* No attempt prepares an upgrade on a host whose services do not all run  *)
(* what the pointer says, whatever crash, failed recovery or takeover of   *)
(* the lock came before: only the operator lets the next deploy start.     *)
StartsFromProvenState ==
  \A p \in Procs : phase[p] \in Preparing => ~Divided

(* A host left divided is fenced: somebody is still at work on it, its lock *)
(* names a dead owner, or the marker blocks every deploy.                  *)
DividedIsFenced ==
  Divided => \/ \E p \in Procs : phase[p] \in Activating \cup Recovering
             \/ lock = Dead
             \/ escalation.class = "host"

(* Two deploys never overlap, although a slow reclaimer may take the lock  *)
(* of a live owner away.                                                   *)
DeploysDoNotOverlap ==
  \A p, q \in Procs : phase[p] \in Pipeline /\ phase[q] \in Pipeline => p = q

(* The commit a marker latched is not attempted again until the marker is  *)
(* cleared or replaced, also when main moves during the attempt.           *)
LatchedCommitIsLeftAlone ==
  \A p \in Procs :
    phase[p] \in Preparing \cup Activating /\ escalation.class = "commit" => job[p].target # escalation.to

(* An attempt goes no further than a latch lets it: not on a divided host, *)
(* not for the commit that latched.                                        *)
NoLatchIsPassed == StartsFromProvenState /\ LatchedCommitIsLeftAlone

(* No service runs a release newer than the migrations in the database.    *)
SchemaCoversServices == current <= schema /\ \A u \in Units : serving[u] <= schema

(* The host is in a state its processes can read.                          *)
HostOK == AttemptTypeOK /\ SchemaCoversServices

(* A transient failure is tried again, or ceases to be transient.          *)
TransientIsRetried ==
  escalation.class = "transient" ~>
    (escalation.class # "transient" \/ \E p \in Procs : phase[p] = "target" /\ job[p].retry)

(* On a host left divided, a host-scoped marker stops every later tick      *)
(* until the operator clears it.                                           *)
HostMarkerNeedsOperator ==
  [][Divided /\ escalation.class = "host" => escalation'.class = "host" \/ OperatorClears]_attemptVars
=============================================================================
