--------------------------- MODULE MergeExecutor ---------------------------
(***************************************************************************)
(* The merge executor: the Runs of one mechanical Step that merge one pull *)
(* request under an exact-head authorization (merge-executor               *)
(* decision-table.ts, github.ts, index.ts and github-client                *)
(* confirmed-write.ts), against a platform that answers late or never.     *)
(*                                                                         *)
(* The target branch only grows, so a position stands for the commit id of *)
(* its tip, and a merge commit is known by its parents and its Run.  The   *)
(* pull request's own record ("projection") may lag the branch.  A Run     *)
(* whose process dies, or whose lease is lost while the process lives on,  *)
(* is followed by another Run.  The merge of a train is not modelled.      *)
(***************************************************************************)
EXTENDS Naturals, Sequences, FiniteSets

CONSTANTS
  MaxRuns,       \* bound: Runs of the Step
  MaxAuths,      \* bound: authorizations, the first and those superseding it
  MaxHeads,      \* bound: heads the pull request gets
  MaxBranch,     \* bound: commits the target branch gets
  MaxChanges,    \* bound: what others do to the branch, the pull request and its approval
  PollAttempts,  \* reads of an unresolved mergeability after the first
  Sends          \* GUARDED_MERGE_SENDS

ASSUME BoundsAssumption ==
  /\ MaxRuns \in Nat \ {0} /\ MaxAuths \in Nat \ {0} /\ MaxHeads \in Nat \ {0}
  /\ MaxBranch \in Nat \ {0} /\ MaxChanges \in Nat
  /\ PollAttempts \in Nat /\ Sends \in Nat \ {0}

VARIABLES
  branch,    \* what was appended to the target branch
  head,      \* the head of the pull request
  mergedAs,  \* the commit the pull request reads MERGED as, 0 while it reads open
  health,    \* its mergeability and checks
  armed,     \* auto-merge is on, or it is queued
  changes,   \* how much others did
  wire,      \* ref updates sent and neither applied nor rejected
  auths,     \* authorizations on the predecessor Task, oldest first
  intents,   \* intent records of the Step
  current,   \* the newest Run: the only one whose writes are accepted
  stage,     \* Run -> where its process is
  run,       \* Run -> what its process knows
  outcome    \* Run -> what it decided

platform == <<branch, head, mergedAs, health, armed, changes, wire>>
vars == <<platform, auths, intents, current, stage, run, outcome>>

Runs == 1..MaxRuns
Tip == Len(branch)

Incidents == {"changed-underneath-me", "base-drift-post-merge"}
Stops == Incidents \cup
  {"retroactive-authorization", "superseded-authorization", "head-drift", "base-drift",
   "non-clean-mergeability", "payload-mismatch", "deferred-merge-machinery", "api-error",
   "unresolved-mergeability"}
Stages == {"off", "select", "verify", "intent", "recheck", "final", "send", "update",
           "readback", "guard", "stopping", "landed", "record", "done", "dead"}
Responses == {"none", "unknown", "refused", "rejected", "uncertain"}
Verdicts == {"ok", "poll", "armed"} \cup Stops

Commits == [by : {"us", "them", "push"}, run : 0..MaxRuns, base : Nat, head : Nat]
Updates == [run : Runs, base : Nat, head : Nat]
Authorizations == [base : Nat, head : 1..MaxHeads]
Processes == [since : 0..MaxAuths, auth : 0..MaxAuths, known : SUBSET (1..MaxAuths),
              polls : Nat, sends : 0..Sends, response : Responses, verdict : Verdicts]
Outcomes == [kind : {"none", "merged"} \cup Stops, commit : Nat]
Undecided == [kind |-> "none", commit |-> 0]
Blank == [since |-> 0, auth |-> 0, known |-> {}, polls |-> 0, sends |-> 0,
          response |-> "none", verdict |-> "ok"]

TypeOK ==
  /\ branch \in Seq(Commits) /\ Tip <= MaxBranch
  /\ head \in 1..MaxHeads
  /\ mergedAs \in 0..MaxBranch /\ armed \in BOOLEAN
  /\ health \in {"clean", "unknown", "bad"}
  /\ changes \in 0..MaxChanges
  /\ wire \subseteq Updates
  /\ auths \in Seq(Authorizations) /\ Len(auths) \in 1..MaxAuths
  /\ intents \subseteq [run : Runs, auth : 1..MaxAuths]
  /\ current \in 0..MaxRuns
  /\ stage \in [Runs -> Stages]
  /\ run \in [Runs -> Processes]
  /\ outcome \in [Runs -> Outcomes]

Init ==
  /\ branch = <<>> /\ head = 1 /\ mergedAs = 0 /\ health = "clean" /\ armed = FALSE
  /\ changes = 0 /\ wire = {} /\ auths = <<[base |-> 0, head |-> 1]>> /\ intents = {} /\ current = 0
  /\ stage = [r \in Runs |-> "off"]
  /\ run = [r \in Runs |-> Blank]
  /\ outcome = [r \in Runs |-> Undecided]

----------------------------------------------------------------------------
(* The platform and the control plane around the executor *)

Merges(h) == {i \in 1..Tip : branch[i].by # "push" /\ branch[i].head = h}
Shown == mergedAs # 0
Ours(i) == branch[i].by = "us"

Change == changes < MaxChanges /\ changes' = changes + 1

\* Work of others lands on the target branch.
Push ==
  /\ Change /\ Tip < MaxBranch
  /\ branch' = Append(branch, [by |-> "push", run |-> 0, base |-> Tip, head |-> 0])
  /\ UNCHANGED <<head, mergedAs, health, armed, wire, auths, intents, current, stage, run, outcome>>

\* The pull request gets a new head.
PushHead ==
  /\ Change /\ ~Shown /\ Merges(head) = {} /\ head < MaxHeads
  /\ head' = head + 1
  /\ UNCHANGED <<branch, mergedAs, health, armed, wire, auths, intents, current, stage, run, outcome>>

\* A person, or armed auto-merge, merges the pull request on the platform.
TheyMerge ==
  /\ Change /\ ~Shown /\ Merges(head) = {} /\ Tip < MaxBranch
  /\ branch' = Append(branch, [by |-> "them", run |-> 0, base |-> Tip, head |-> head])
  /\ mergedAs' = Tip + 1
  /\ UNCHANGED <<head, health, armed, wire, auths, intents, current, stage, run, outcome>>

\* The pull request's own record catches up with the branch.
Project ==
  /\ ~Shown
  /\ mergedAs' \in Merges(head)
  /\ UNCHANGED <<branch, head, health, armed, changes, wire, auths, intents, current, stage, run, outcome>>

\* Checks start, fail, pass; the pull request conflicts or becomes a draft; auto-merge is turned on.
Reassess ==
  /\ Change /\ ~Shown
  /\ \/ health' \in {"clean", "unknown", "bad"} \ {health} /\ armed' = armed
     \/ ~armed /\ armed' = TRUE /\ health' = health
  /\ UNCHANGED <<branch, head, mergedAs, wire, auths, intents, current, stage, run, outcome>>

\* Mutant: the ref update is forced instead of compared with the expected base.
Apply_Forced(u) ==
  /\ u \in wire /\ Tip < MaxBranch
  /\ wire' = wire \ {u}
  /\ branch' = Append(branch, [by |-> "us", run |-> u.run, base |-> u.base, head |-> u.head])
  /\ UNCHANGED <<head, mergedAs, health, armed, changes, auths, intents, current, stage, run, outcome>>

\* The atomic ref update lands: the branch is still where the update expects it.
Apply(u) ==
  /\ u \in wire /\ u.base = Tip /\ Tip < MaxBranch
  /\ wire' = wire \ {u}
  /\ branch' = Append(branch, [by |-> "us", run |-> u.run, base |-> u.base, head |-> u.head])
  /\ UNCHANGED <<head, mergedAs, health, armed, changes, auths, intents, current, stage, run, outcome>>

\* The platform refuses a ref update: the branch moved, or a rule of the repository.
Reject(u) ==
  /\ u \in wire
  /\ wire' = wire \ {u}
  /\ UNCHANGED <<branch, head, mergedAs, health, armed, changes>>
  /\ UNCHANGED <<auths, intents, current, stage, run, outcome>>

\* A new approval supersedes the authorization.
Authorize ==
  /\ Change /\ ~Shown /\ Len(auths) < MaxAuths
  /\ auths' = Append(auths, [base |-> Tip, head |-> head])
  /\ UNCHANGED <<branch, head, mergedAs, health, armed, wire, intents, current, stage, run, outcome>>

\* The Step gets another Run: the first, or after a Run that crashed or lost its lease.
StartRun(r) ==
  /\ r = current + 1
  /\ current # 0 => stage[current] # "done"
  /\ current' = r
  /\ stage' = [stage EXCEPT ![r] = "select"]
  /\ run' = [run EXCEPT ![r].since = Len(auths)]
  /\ UNCHANGED <<platform, auths, intents, outcome>>

\* What only the process knew is gone, a result it had not recorded too.
Die(r) ==
  /\ stage' = [stage EXCEPT ![r] = "dead"]
  /\ run' = [run EXCEPT ![r] = Blank]
  /\ outcome' = [outcome EXCEPT ![r] = Undecided]
  /\ UNCHANGED <<platform, auths, intents, current>>

\* The process dies, or a call to the control plane fails and ends the Run.
Crash(r) == stage[r] \notin {"off", "done", "dead"} /\ Die(r)

----------------------------------------------------------------------------
(* The decision table *)

Auth(r) == auths[run[r].auth]
Superseded(r) == run[r].auth # Len(auths)

Goto(r, s) ==
  /\ stage' = [stage EXCEPT ![r] = s]
  /\ UNCHANGED outcome
Decide(r, kind, commit) ==
  /\ stage' = [stage EXCEPT ![r] = "record"]
  /\ outcome' = [outcome EXCEPT ![r] = [kind |-> kind, commit |-> commit]]
Stop(r, kind) == Decide(r, kind, 0)

\* classifyPreMerge on what the pull request and the target branch show now.
Classified(r) ==
  IF head # Auth(r).head THEN "head-drift"
  ELSE IF Tip # Auth(r).base THEN "base-drift"
  ELSE IF Shown \/ health = "bad" THEN "non-clean-mergeability"
  ELSE IF health = "unknown" THEN "poll"
  ELSE "ok"

\* The classification, then synchronous execution determined positively.
Verdict(r) == IF Classified(r) = "ok" /\ armed THEN "armed" ELSE Classified(r)

HasAuthorizedParents(i, r) == branch[i].base = Auth(r).base /\ branch[i].head = Auth(r).head

\* Mutant: a landed merge whose parents are not the authorized ones is still a success.
ClassifyMerged_AnyParents(r, keys) ==
  IF head = Auth(r).head /\ Ours(mergedAs) /\ run[r].auth \in keys
  THEN Decide(r, "merged", mergedAs)
  ELSE Stop(r, "changed-underneath-me")

\* The replay determination of a pull request that reads MERGED, with the
\* authorizations an intent is recorded for.
ClassifyMerged(r, keys) ==
  IF ~(head = Auth(r).head /\ Ours(mergedAs) /\ run[r].auth \in keys)
  THEN Stop(r, "changed-underneath-me")
  ELSE IF HasAuthorizedParents(mergedAs, r)
       THEN Decide(r, "merged", mergedAs)
       ELSE Stop(r, "base-drift-post-merge")

\* Turn auto-merge off, read it back, and stop whether or not that worked.
Disarm(r) ==
  /\ armed' \in {armed, FALSE}
  /\ Stop(r, "deferred-merge-machinery")

\* Mutant: a Run reads the intents it wrote itself, not those of the Step.
Select_OwnRunOnly(r) ==
  /\ stage[r] = "select"
  /\ run' = [run EXCEPT ![r].auth = Len(auths), ![r].known = {i.auth : i \in {n \in intents : n.run = r}}]
  /\ IF Len(auths) > run[r].since THEN Stop(r, "retroactive-authorization") ELSE Goto(r, "verify")
  /\ UNCHANGED <<platform, auths, intents, current>>

\* The latest authorization of the predecessor, and this Step's own intents.
Select(r) ==
  /\ stage[r] = "select"
  /\ run' = [run EXCEPT ![r].auth = Len(auths), ![r].known = {i.auth : i \in intents}]
  /\ IF Len(auths) > run[r].since THEN Stop(r, "retroactive-authorization") ELSE Goto(r, "verify")
  /\ UNCHANGED <<platform, auths, intents, current>>

\* Verify the world: a replay first, then the classification with its bounded poll.
Verify(r) ==
  /\ stage[r] = "verify"
  /\ \/ Stop(r, "api-error") /\ UNCHANGED <<armed, run>>
     \/ Shown /\ ClassifyMerged(r, run[r].known) /\ UNCHANGED <<armed, run>>
     \/ /\ ~Shown
        /\ CASE Verdict(r) = "ok" -> Goto(r, "intent") /\ UNCHANGED <<armed, run>>
             [] Verdict(r) = "armed" -> Disarm(r) /\ UNCHANGED run
             [] Verdict(r) = "poll" ->
                  /\ run' = [run EXCEPT ![r].polls = @ + 1]
                  /\ IF run[r].polls + 1 > PollAttempts
                     THEN Stop(r, "unresolved-mergeability") ELSE Goto(r, "verify")
                  /\ UNCHANGED armed
             [] OTHER -> Stop(r, Verdict(r)) /\ UNCHANGED <<armed, run>>
  /\ UNCHANGED <<branch, head, mergedAs, health, changes, wire, auths, intents, current>>

\* The intent record; the control plane refuses it from a Run that lost its lease.
WriteIntent(r) ==
  /\ stage[r] = "intent" /\ r = current
  /\ intents' = intents \cup {[run |-> r, auth |-> run[r].auth]}
  /\ Goto(r, "recheck")
  /\ UNCHANGED <<platform, auths, current, run>>

\* The authorization is read again after the intent.
Recheck(r) ==
  /\ stage[r] = "recheck"
  /\ IF Superseded(r) THEN Stop(r, "superseded-authorization") ELSE Goto(r, "final")
  /\ UNCHANGED <<platform, auths, intents, current, run>>

\* The last read before the merge: both oids, the replay, the whole classification.
FinalRead(r) ==
  /\ stage[r] = "final"
  /\ \/ Stop(r, "api-error") /\ UNCHANGED armed
     \/ Tip # Auth(r).base /\ Stop(r, "base-drift") /\ UNCHANGED armed
     \/ Tip = Auth(r).base /\ head # Auth(r).head /\ Stop(r, "head-drift") /\ UNCHANGED armed
     \/ /\ Tip = Auth(r).base /\ head = Auth(r).head /\ Shown
        /\ ClassifyMerged(r, run[r].known) /\ UNCHANGED armed
     \/ /\ Tip = Auth(r).base /\ head = Auth(r).head /\ ~Shown
        /\ CASE Verdict(r) = "ok" -> Goto(r, "send") /\ UNCHANGED armed
             [] Verdict(r) = "armed" -> Disarm(r)
             [] Verdict(r) = "poll" -> Stop(r, "unresolved-mergeability") /\ UNCHANGED armed
             [] OTHER -> Stop(r, Verdict(r)) /\ UNCHANGED armed
  /\ UNCHANGED <<branch, head, mergedAs, health, changes, wire, auths, intents, current, run>>

----------------------------------------------------------------------------
(* The guarded merge on the confirmed-write engine *)

Landed(r) == {i \in 1..Tip : branch[i].run = r}
InFlight(r) == {u \in wire : u.run = r}

\* Build the merge commit from the authorized base and head and send the ref
\* update, unless building it was refused or its answer was lost.
Send(r) ==
  /\ stage[r] = "send"
  /\ \/ /\ wire' = wire \cup {[run |-> r, base |-> Auth(r).base, head |-> Auth(r).head]}
        /\ run' = [run EXCEPT ![r].sends = @ + 1]
        /\ Goto(r, "update")
     \/ \E answer \in {"unknown", "rejected"} :
        /\ run' = [run EXCEPT ![r].sends = @ + 1, ![r].response = answer]
        /\ Goto(r, "readback")
        /\ wire' = wire
  /\ UNCHANGED <<branch, head, mergedAs, health, armed, changes, auths, intents, current>>

\* The platform's answer to the ref update arrives.
Answered(r) ==
  /\ stage[r] = "update" /\ InFlight(r) = {}
  /\ IF Landed(r) # {}
     THEN Goto(r, "landed") /\ run' = run
     ELSE Goto(r, "readback") /\ run' = [run EXCEPT ![r].response = "refused"]
  /\ UNCHANGED <<platform, auths, intents, current>>

\* No answer within the deadline: the update may have landed, or may land yet.
AnswerLost(r) ==
  /\ stage[r] = "update"
  /\ Goto(r, "readback")
  /\ run' = [run EXCEPT ![r].response = "uncertain"]
  /\ UNCHANGED <<platform, auths, intents, current>>

MayResend(r) == run[r].response = "unknown" /\ run[r].sends < Sends

\* Mutant: what the read-back does not find is a drift of the base.
NotApplied_IsDrift(r) == Stop(r, "base-drift") /\ UNCHANGED armed

\* Nothing landed and nothing more may be sent: the read-back names the condition.
NotApplied(r) ==
  \/ run[r].response = "rejected" /\ UNCHANGED armed
     /\ \E kind \in {"payload-mismatch", "api-error"} : Stop(r, kind)
  \/ run[r].response # "rejected" /\ armed /\ Disarm(r)
  \/ /\ run[r].response # "rejected" /\ ~armed /\ UNCHANGED armed
     /\ Stop(r, IF Classified(r) \in Stops THEN Classified(r) ELSE "api-error")

\* The merge reported nothing, so the platform is asked: a merged pull request
\* is a replay, the branch at the built commit is the merge, and only a
\* pull request found unmerged may lead to a second send.
ReadBack(r) ==
  /\ stage[r] = "readback"
  /\ \/ Stop(r, "api-error") /\ UNCHANGED <<armed, run>>
     \/ /\ Shown
        /\ ClassifyMerged(r, run[r].known \cup {run[r].auth})
        /\ UNCHANGED <<armed, run>>
     \/ /\ ~Shown /\ run[r].response = "uncertain" /\ Tip \in Landed(r)
        /\ Decide(r, "merged", Tip)
        /\ UNCHANGED <<armed, run>>
     \/ /\ ~Shown /\ MayResend(r)
        /\ run' = [run EXCEPT ![r].verdict = Verdict(r)]
        /\ Goto(r, "guard") /\ UNCHANGED armed
     \/ /\ ~Shown /\ ~MayResend(r) /\ ~(run[r].response = "uncertain" /\ Tip \in Landed(r))
        /\ NotApplied(r) /\ UNCHANGED run
  /\ UNCHANGED <<branch, head, mergedAs, health, changes, wire, auths, intents, current>>

\* The guard of a second send: the authorization is read again and the
\* read-back, already taken, is classified.
Guard(r) ==
  /\ stage[r] = "guard"
  /\ \/ /\ ~Superseded(r) /\ run[r].verdict = "ok"
        /\ Goto(r, "send") /\ UNCHANGED <<armed, run>>
     \/ /\ Superseded(r)
        /\ run' = [run EXCEPT ![r].verdict = "superseded-authorization"]
        /\ Goto(r, "stopping") /\ UNCHANGED armed
     \/ /\ ~Superseded(r) /\ run[r].verdict = "armed" /\ armed' \in {armed, FALSE}
        /\ run' = [run EXCEPT ![r].verdict = "deferred-merge-machinery"]
        /\ Goto(r, "stopping")
     \/ /\ ~Superseded(r) /\ run[r].verdict = "poll"
        /\ run' = [run EXCEPT ![r].verdict = "unresolved-mergeability"]
        /\ Goto(r, "stopping") /\ UNCHANGED armed
     \/ /\ ~Superseded(r) /\ run[r].verdict \in Stops
        /\ Goto(r, "stopping") /\ UNCHANGED <<armed, run>>
  /\ UNCHANGED <<branch, head, mergedAs, health, changes, wire, auths, intents, current>>

\* A refused guard is an attempt too, so it is read back before it stops the Run.
StopAtGuard(r) ==
  /\ stage[r] = "stopping"
  /\ \/ Shown /\ ClassifyMerged(r, run[r].known \cup {run[r].auth})
     \/ Stop(r, run[r].verdict)
  /\ UNCHANGED <<platform, auths, intents, current, run>>

\* The merge landed: it is verified on the pull request's own record, on the
\* branch, or by reading the commit itself.
VerifyLanded(r) ==
  /\ stage[r] = "landed"
  /\ \/ Stop(r, "base-drift-post-merge")
     \/ \E i \in Landed(r) :
        /\ HasAuthorizedParents(i, r)
        /\ Decide(r, "merged", i)
  /\ UNCHANGED <<platform, auths, intents, current, run>>

\* The result is written and the Run completed; a Run that lost its lease is refused.
Record(r) ==
  /\ stage[r] = "record" /\ r = current
  /\ stage' = [stage EXCEPT ![r] = "done"]
  /\ UNCHANGED <<platform, auths, intents, current, run, outcome>>

\* The control plane refuses the intent or the result of a Run that lost its lease.
Refused(r) == stage[r] \in {"intent", "record"} /\ r # current /\ Die(r)

World == Push \/ PushHead \/ TheyMerge \/ Project \/ Reassess \/ Authorize
Answer == \E u \in wire : Apply(u) \/ Reject(u)
Step(r) ==
  \/ Select(r) \/ Verify(r) \/ WriteIntent(r) \/ Recheck(r) \/ FinalRead(r)
  \/ Send(r) \/ Answered(r) \/ AnswerLost(r) \/ ReadBack(r) \/ Guard(r) \/ StopAtGuard(r)
  \/ VerifyLanded(r) \/ Record(r) \/ Refused(r)

Next == World \/ Answer \/ \E r \in Runs : StartRun(r) \/ Crash(r) \/ Step(r)

Spec == Init /\ [][Next]_vars

----------------------------------------------------------------------------
(* Properties *)

\* A merge of ours on the branch has exactly the parents of an authorization
\* its own Run recorded an intent for, whatever was delayed, repeated or
\* superseded on the way (the authorized base and head, the compare-and-swap).
LandedAsAuthorized ==
  \A i \in 1..Tip : Ours(i) =>
    /\ branch[i].base = i - 1
    /\ \E n \in intents : /\ n.run = branch[i].run
                          /\ auths[n.auth] = [base |-> i - 1, head |-> branch[i].head]

\* A Run that reports "merged" names a commit of this Step that is on the
\* branch with the parents its authorization names, also when the commit was
\* sent by an earlier Run or another commit was pushed on top of it.
MergedIsTrue ==
  \A r \in Runs : outcome[r].kind = "merged" =>
    LET i == outcome[r].commit IN
    i \in 1..Tip /\ Ours(i) /\ i = Auth(r).base + 1 /\ branch[i].head = Auth(r).head

\* A Run that reports base drift left nothing behind that can still land: the
\* next attempt prepares a fresh tail on a base that stays clear of it.
BaseDriftIsFinal ==
  \A r \in Runs : outcome[r].kind = "base-drift" => \A u \in InFlight(r) : u.base < Tip

\* A Run sends at most one ref update: the second send the guard permits only
\* ever follows a first one that stopped before the update.
OneUpdatePerRun ==
  \A r \in Runs : stage[r] = "send" => InFlight(r) = {} /\ Landed(r) = {}

\* A merge this Step landed under the same authorization is never recorded as
\* somebody else's, also by the Run that follows a crash between the ref
\* update and its record (the intent is written before the merge is sent).
OwnMergeIsRecognised ==
  \A r \in Runs : stage[r] = "done" /\ outcome[r].kind = "changed-underneath-me" =>
    \A n \in intents : n.auth = run[r].auth /\ n.run = branch[mergedAs].run
                         => ~HasAuthorizedParents(mergedAs, r)

\* What the last read before the merge says of itself (decision-table.ts: "if
\* someone merged it between the intent and now, that is a replay
\* determination, not a drift"): a pull request that reads merged is not
\* reported as base drift.  The code compares the base first.
ReplayComesFirst ==
  [][\A r \in Runs : stage[r] = "final" /\ stage'[r] = "record" /\ Shown
        => outcome'[r].kind # "base-drift"]_vars
----------------------------------------------------------------------------
(* Refinement: a Run announces with its intent record and settles the Step *)
(* with its completion; what a commit of somebody else is built from does  *)
(* not matter.                                                             *)
Trunk == [i \in 1..Tip |->
           IF Ours(i) THEN [run |-> branch[i].run, base |-> branch[i].base, head |-> branch[i].head]
           ELSE [run |-> 0, base |-> 0, head |-> 0]]
Result == IF current # 0 /\ stage[current] = "done"
          THEN [run |-> current, kind |-> outcome[current].kind, commit |-> outcome[current].commit]
          ELSE [run |-> 0, kind |-> "none", commit |-> 0]

Exact == INSTANCE ExactMerge WITH
  Heads <- 1..MaxHeads, trunk <- Trunk, grants <- auths, announced <- intents, result <- Result

\* Whatever answers are lost and however many processes outlive their lease, a
\* Run lands at most one commit, exactly as the authorization it announced, the
\* Step settles once, and once it settled as merged or on a drifted base no
\* update of any of its Runs lands later.
MergeRefined == Exact!MergeSpec
=============================================================================
