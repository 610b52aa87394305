------------------------- MODULE MergeExecutorProofs -------------------------
(***************************************************************************)
(* Theorems about MergeExecutor, for every number of Runs, authorizations, *)
(* heads and commits.  IInv says what licenses an update, OInv adds what a *)
(* Run of the Step may take for somebody else's merge.                     *)
(***************************************************************************)
EXTENDS MergeExecutor, SequenceTheorems, TLAPS

-----------------------------------------------------------------------------
(* What a step does, said without EXCEPT: the lemmas below are cited in    *)
(* place of the definitions of the actions.                                *)

Others(r) == \A q \in Runs \ {r} : /\ stage'[q] = stage[q]
                                   /\ run'[q] = run[q]
                                   /\ outcome'[q] = outcome[q]
SameAuth(r) == run'[r].auth = run[r].auth
SameSends(r) == run'[r].sends = run[r].sends
Undecides(r) == outcome'[r] = outcome[r]

\* A commit a Run may report: one with the authorized parents, or its own.
Sound(r, i) ==
  /\ i \in 1..Tip
  /\ \/ Ours(i) /\ HasAuthorizedParents(i, r)
     \/ i \in Landed(r)

Decides(r) ==
  /\ stage'[r] = "record"
  /\ outcome'[r].kind = "merged" => Sound(r, outcome'[r].commit)
  /\ outcome'[r].kind = "base-drift" /\ stage[r] \in {"readback", "landed"} => Tip # Auth(r).base

\* The branch, the control plane and the Runs stay; no ref update is sent.
Calm ==
  /\ UNCHANGED <<branch, auths, intents, current, stage, run, outcome>>
  /\ wire' \subseteq wire
  /\ mergedAs' \in {mergedAs} \cup 1..Tip

\* Somebody else's commit lands.
Foreign ==
  /\ Tip' = Tip + 1
  /\ \A i \in 1..Tip : branch'[i] = branch[i]
  /\ branch'[Tip + 1].by # "us" /\ branch'[Tip + 1].run = 0 /\ branch'[Tip + 1].base = Tip
  /\ mergedAs' \in {mergedAs, Tip + 1}
  /\ UNCHANGED <<wire, auths, intents, current, stage, run, outcome>>

-----------------------------------------------------------------------------
(* The parts of the inductive invariant.                                   *)

\* The branch is a chain and only our merges carry a Run; the pull request
\* shows, and an authorization names, a commit that is on it.
BranchOK ==
  /\ mergedAs <= Tip
  /\ \A i \in 1..Tip : branch[i].base = i - 1 /\ (Ours(i) <=> branch[i].run # 0)
  /\ \A a \in 1..Len(auths) : auths[a].base <= Tip

\* A Run that selected its authorization holds the position of one.
Selected ==
  \A q \in Runs : stage[q] \notin {"off", "select", "dead"} => run[q].auth \in 1..Len(auths)

\* A Run the guard stopped holds the condition it stops with.
StoppingVerdict == \A q \in Runs : stage[q] = "stopping" => run[q].verdict \in Stops

\* A Run not yet started has done nothing.
Fresh == \A q \in Runs : q > current => stage[q] = "off"

\* The sends of a Run are counted from the first and stay within the limit.
SendsOK ==
  \A q \in Runs :
    /\ stage[q] \in {"off", "select", "verify", "intent", "recheck", "final"} => run[q].sends = 0
    /\ stage[q] \in {"send", "guard"} => run[q].sends < Sends

\* Only a Run at its end has decided.
Open == \A q \in Runs : outcome[q].kind # "none" => stage[q] \in {"record", "done"}

-----------------------------------------------------------------------------
(* The platform and the control plane.                                     *)

LEMMA TipIsNat == ASSUME TypeOK PROVE Tip \in Nat
BY LenProperties DEF TypeOK, Tip

LEMMA AuthTypes ==
  ASSUME TypeOK
  PROVE  \A a \in 1..Len(auths) : auths[a] \in Authorizations /\ auths[a].base \in Nat
<1>1. \A a \in 1..Len(auths) : auths[a] \in Authorizations
  BY ElementOfSeq DEF TypeOK
<1>. QED
  BY <1>1 DEF Authorizations

LEMMA AppendBranch ==
  ASSUME TypeOK, NEW c \in Commits, branch' = Append(branch, c)
  PROVE  /\ branch' \in Seq(Commits) /\ Tip' = Tip + 1 /\ Tip \in Nat
         /\ \A i \in 1..Tip : branch'[i] = branch[i]
         /\ branch'[Tip + 1] = c
BY AppendProperties, LenProperties DEF TypeOK, Tip

LEMMA AuthorizeEffect ==
  ASSUME TypeOK, Authorize
  PROVE  /\ auths' \in Seq(Authorizations) /\ Len(auths') = Len(auths) + 1
         /\ Len(auths) \in Nat /\ Len(auths) < MaxAuths
         /\ \A i \in 1..Len(auths) : auths'[i] = auths[i]
         /\ auths'[Len(auths) + 1] = [base |-> Tip, head |-> head]
         /\ UNCHANGED <<branch, head, mergedAs, health, armed, wire, intents, current, stage, run, outcome>>
<1>1. [base |-> Tip, head |-> head] \in Authorizations
  BY TipIsNat DEF TypeOK, Authorizations
<1>. QED
  BY <1>1, AppendProperties, LenProperties DEF TypeOK, Authorize

LEMMA ForeignEffect ==
  ASSUME TypeOK, Push \/ TheyMerge
  PROVE  Foreign /\ branch' \in Seq(Commits) /\ Tip' <= MaxBranch
<1>1. CASE Push
  <2>1. [by |-> "push", run |-> 0, base |-> Tip, head |-> 0] \in Commits
    BY TipIsNat, BoundsAssumption, SMT DEF Commits, TypeOK, BoundsAssumption
  <2>. QED
    <3>1. /\ branch' \in Seq(Commits) /\ Tip' = Tip + 1
          /\ \A i \in 1..Tip : branch'[i] = branch[i]
          /\ branch'[Tip + 1] = [by |-> "push", run |-> 0, base |-> Tip, head |-> 0]
      BY <1>1, <2>1, AppendBranch DEF Push
    <3>2. Tip' <= MaxBranch
      BY <1>1, <3>1, TipIsNat, BoundsAssumption DEF Push, BoundsAssumption
    <3>3. branch'[Tip + 1].by # "us" /\ branch'[Tip + 1].run = 0 /\ branch'[Tip + 1].base = Tip
      BY <3>1
    <3>4. /\ mergedAs' \in {mergedAs, Tip + 1}
          /\ UNCHANGED <<wire, auths, intents, current, stage, run, outcome>>
      BY <1>1 DEF Push
    <3>. QED
      BY <3>1, <3>2, <3>3, <3>4 DEF Foreign
<1>2. CASE TheyMerge
  <2>1. [by |-> "them", run |-> 0, base |-> Tip, head |-> head] \in Commits
    BY TipIsNat, BoundsAssumption, SMT DEF Commits, TypeOK, BoundsAssumption
  <2>. QED
    <3>1. /\ branch' \in Seq(Commits) /\ Tip' = Tip + 1
          /\ \A i \in 1..Tip : branch'[i] = branch[i]
          /\ branch'[Tip + 1] = [by |-> "them", run |-> 0, base |-> Tip, head |-> head]
      BY <1>2, <2>1, AppendBranch DEF TheyMerge
    <3>2. Tip' <= MaxBranch
      BY <1>2, <3>1, TipIsNat, BoundsAssumption DEF TheyMerge, BoundsAssumption
    <3>3. branch'[Tip + 1].by # "us" /\ branch'[Tip + 1].run = 0 /\ branch'[Tip + 1].base = Tip
      BY <3>1
    <3>4. /\ mergedAs' \in {mergedAs, Tip + 1}
          /\ UNCHANGED <<wire, auths, intents, current, stage, run, outcome>>
      BY <1>2 DEF TheyMerge
    <3>. QED
      BY <3>1, <3>2, <3>3, <3>4 DEF Foreign
<1>. QED
  BY <1>1, <1>2

LEMMA CalmEffect ==
  ASSUME TypeOK, PushHead \/ Project \/ Reassess \/ (\E u \in wire : Reject(u)) \/ UNCHANGED vars
  PROVE  Calm
BY DEF PushHead, Project, Reassess, Reject, vars, platform, Calm, Merges

LEMMA ApplyEffect ==
  ASSUME TypeOK, NEW u \in wire, Apply(u)
  PROVE  /\ branch' \in Seq(Commits) /\ Tip' = Tip + 1 /\ Tip' <= MaxBranch
         /\ u.base = Tip /\ u.run \in Runs /\ wire' = wire \ {u}
         /\ \A i \in 1..Tip : branch'[i] = branch[i]
         /\ branch'[Tip + 1] = [by |-> "us", run |-> u.run, base |-> Tip, head |-> u.head]
         /\ UNCHANGED <<head, mergedAs, health, armed, changes, auths, intents, current, stage, run, outcome>>
<1>1. u \in [run : Runs, base : Nat, head : Nat]
  BY DEF TypeOK, Updates
<1>2. [by |-> "us", run |-> u.run, base |-> u.base, head |-> u.head] \in Commits
  BY <1>1, SMT DEF Commits, Runs
<1>. QED
  <2>1. /\ branch' \in Seq(Commits) /\ Tip' = Tip + 1
        /\ \A i \in 1..Tip : branch'[i] = branch[i]
        /\ branch'[Tip + 1] = [by |-> "us", run |-> u.run, base |-> u.base, head |-> u.head]
    BY <1>2, AppendBranch DEF Apply
  <2>2. Tip' <= MaxBranch
    BY <2>1, TipIsNat, BoundsAssumption DEF Apply, BoundsAssumption
  <2>. QED
    BY <1>1, <2>1, <2>2 DEF Apply

LEMMA StepCases ==
  ASSUME TypeOK, [Next]_vars
  PROVE  \/ Calm \/ Foreign \/ Authorize
         \/ \E u \in wire : Apply(u)
         \/ \E r \in Runs : StartRun(r) \/ Crash(r) \/ Step(r)
BY CalmEffect, ForeignEffect DEF Next, World, Answer

-----------------------------------------------------------------------------
(* The steps of a Run.                                                     *)

LEMMA StartRunEffect ==
  ASSUME TypeOK, Fresh, NEW r \in Runs, StartRun(r)
  PROVE  /\ Others(r) /\ stage'[r] = "select" /\ SameAuth(r) /\ SameSends(r) /\ Undecides(r)
         /\ stage[r] = "off" /\ current' = r /\ r = current + 1
         /\ UNCHANGED <<platform, auths, intents>>
<1>1. r = current + 1 /\ r > current
  BY DEF StartRun, TypeOK, Runs
<1>. QED
  BY <1>1 DEF Fresh, StartRun, TypeOK, Processes, Others, SameAuth, SameSends, Undecides

LEMMA DieEffect ==
  ASSUME TypeOK, NEW r \in Runs, Crash(r) \/ Refused(r)
  PROVE  /\ Others(r) /\ stage[r] # "off" /\ stage'[r] = "dead" /\ outcome'[r].kind = "none"
         /\ UNCHANGED <<platform, auths, intents, current>>
BY DEF Crash, Refused, Die, Undecided, TypeOK, Others

LEMMA DecideEffect ==
  ASSUME TypeOK, NEW r \in Runs, NEW k, NEW i, Decide(r, k, i)
  PROVE  /\ stage'[r] = "record" /\ outcome'[r] = [kind |-> k, commit |-> i]
         /\ \A q \in Runs \ {r} : stage'[q] = stage[q] /\ outcome'[q] = outcome[q]
BY DEF Decide, TypeOK

LEMMA GotoEffect ==
  ASSUME TypeOK, NEW r \in Runs, NEW s, Goto(r, s)
  PROVE  /\ stage'[r] = s /\ Undecides(r)
         /\ \A q \in Runs \ {r} : stage'[q] = stage[q] /\ outcome'[q] = outcome[q]
BY DEF Goto, TypeOK, Undecides

\* A stop decides nothing about the base unless it is one.
LEMMA StopEffect ==
  ASSUME TypeOK, NEW r \in Runs, NEW k \in Stops, Stop(r, k),
         k = "base-drift" /\ stage[r] \in {"readback", "landed"} => Tip # Auth(r).base
  PROVE  /\ Decides(r) /\ outcome'[r].kind = k
         /\ \A q \in Runs \ {r} : stage'[q] = stage[q] /\ outcome'[q] = outcome[q]
<1>1. k # "merged"
  BY DEF Stops, Incidents
<1>2. /\ stage'[r] = "record" /\ outcome'[r] = [kind |-> k, commit |-> 0]
      /\ \A q \in Runs \ {r} : stage'[q] = stage[q] /\ outcome'[q] = outcome[q]
  BY DecideEffect DEF Stop
<1>. QED
  BY <1>1, <1>2 DEF Decides

LEMMA ClassifyMergedEffect ==
  ASSUME TypeOK, mergedAs <= Tip, Shown, NEW r \in Runs, NEW keys, ClassifyMerged(r, keys)
  PROVE  /\ Decides(r)
         /\ \A q \in Runs \ {r} : stage'[q] = stage[q] /\ outcome'[q] = outcome[q]
<1>1. mergedAs \in 1..Tip
  BY TipIsNat DEF TypeOK, Shown
<1>2. ASSUME NEW k \in Incidents, Stop(r, k)
      PROVE  /\ Decides(r)
             /\ \A q \in Runs \ {r} : stage'[q] = stage[q] /\ outcome'[q] = outcome[q]
  BY <1>2, StopEffect DEF Stops, Incidents
<1>3. CASE Ours(mergedAs) /\ HasAuthorizedParents(mergedAs, r) /\ Decide(r, "merged", mergedAs)
  <2>1. /\ stage'[r] = "record" /\ outcome'[r] = [kind |-> "merged", commit |-> mergedAs]
        /\ \A q \in Runs \ {r} : stage'[q] = stage[q] /\ outcome'[q] = outcome[q]
    BY <1>3, DecideEffect
  <2>. QED
    BY <1>1, <1>3, <2>1 DEF Decides, Sound
<1>. QED
  BY <1>2, <1>3 DEF ClassifyMerged, Incidents

LEMMA Classifications ==
  ASSUME NEW r \in Runs
  PROVE  /\ Classified(r) \in {"ok", "poll"} \cup Stops
         /\ Verdict(r) \in Verdicts
         /\ Verdict(r) = "armed" \/ Verdict(r) = Classified(r)
         /\ Classified(r) = "base-drift" => Tip # Auth(r).base
BY DEF Classified, Verdict, Verdicts, Stops, Incidents

LEMMA SelectEffect ==
  ASSUME TypeOK, NEW r \in Runs, Select(r)
  PROVE  /\ Others(r) /\ stage[r] = "select" /\ SameSends(r) /\ run'[r].auth = Len(auths)
         /\ \/ stage'[r] = "verify" /\ Undecides(r)
            \/ Decides(r) /\ outcome'[r].kind = "retroactive-authorization"
         /\ UNCHANGED <<platform, auths, intents, current>>
<1>1. /\ SameSends(r) /\ run'[r].auth = Len(auths)
      /\ \A q \in Runs \ {r} : run'[q] = run[q]
  BY DEF Select, TypeOK, Processes, SameSends
<1>2. CASE Stop(r, "retroactive-authorization")
  BY <1>1, <1>2, StopEffect DEF Select, Stops, Others
<1>3. CASE Goto(r, "verify")
  BY <1>1, <1>3, GotoEffect DEF Select, Others
<1>. QED
  BY <1>2, <1>3 DEF Select

LEMMA VerifyCases ==
  ASSUME NEW r \in Runs, Verify(r)
  PROVE  \/ Shown /\ ClassifyMerged(r, run[r].known)
         \/ \E k \in Stops : Stop(r, k)
         \/ Goto(r, "intent") \/ Goto(r, "verify")
<1>1. CASE Verdict(r) \in Stops
  BY <1>1 DEF Verify, Disarm, Stops, Incidents
<1>2. CASE Verdict(r) \in {"ok", "poll", "armed"}
  BY <1>2 DEF Verify, Disarm, Stops
<1>. QED
  BY <1>1, <1>2, Classifications DEF Verdicts

LEMMA VerifyEffect ==
  ASSUME TypeOK, mergedAs <= Tip, NEW r \in Runs, Verify(r)
  PROVE  /\ Others(r) /\ stage[r] = "verify" /\ SameSends(r) /\ SameAuth(r)
         /\ (stage'[r] \in {"verify", "intent"} /\ Undecides(r)) \/ Decides(r)
         /\ UNCHANGED <<branch, mergedAs, wire, auths, intents, current>>
<1>1. run' = run \/ run' = [run EXCEPT ![r].polls = @ + 1]
  BY DEF Verify
<1>2. SameSends(r) /\ SameAuth(r) /\ \A q \in Runs \ {r} : run'[q] = run[q]
  BY <1>1 DEF TypeOK, Processes, SameSends, SameAuth
<1>3. stage[r] = "verify" /\ UNCHANGED <<branch, mergedAs, wire, auths, intents, current>>
  BY DEF Verify
<1>4. CASE Shown /\ ClassifyMerged(r, run[r].known)
  BY <1>2, <1>3, <1>4, ClassifyMergedEffect DEF Others
<1>5. CASE \E k \in Stops : Stop(r, k)
  BY <1>2, <1>3, <1>5, StopEffect DEF Others
<1>6. CASE Goto(r, "intent") \/ Goto(r, "verify")
  BY <1>2, <1>3, <1>6, GotoEffect DEF Others
<1>. QED
  BY <1>4, <1>5, <1>6, VerifyCases

LEMMA WriteIntentEffect ==
  ASSUME TypeOK, NEW r \in Runs, WriteIntent(r)
  PROVE  /\ Others(r) /\ stage[r] = "intent" /\ SameSends(r) /\ SameAuth(r)
         /\ stage'[r] = "recheck" /\ Undecides(r)
         /\ intents' = intents \cup {[run |-> r, auth |-> run[r].auth]}
         /\ UNCHANGED <<platform, auths, current>>
BY GotoEffect DEF WriteIntent, Others, SameSends, SameAuth

LEMMA RecheckEffect ==
  ASSUME TypeOK, NEW r \in Runs, Recheck(r)
  PROVE  /\ Others(r) /\ stage[r] = "recheck" /\ SameSends(r) /\ SameAuth(r)
         /\ (stage'[r] = "final" /\ Undecides(r)) \/ Decides(r)
         /\ UNCHANGED <<platform, auths, intents, current>>
<1>1. SameSends(r) /\ SameAuth(r) /\ \A q \in Runs \ {r} : run'[q] = run[q]
  BY DEF Recheck, SameSends, SameAuth
<1>2. CASE Stop(r, "superseded-authorization")
  BY <1>1, <1>2, StopEffect DEF Recheck, Stops, Others
<1>3. CASE Goto(r, "final")
  BY <1>1, <1>3, GotoEffect DEF Recheck, Others
<1>. QED
  BY <1>2, <1>3 DEF Recheck

LEMMA FinalReadCases ==
  ASSUME NEW r \in Runs, FinalRead(r)
  PROVE  \/ Shown /\ ClassifyMerged(r, run[r].known)
         \/ \E k \in Stops : Stop(r, k)
         \/ Goto(r, "send")
<1>1. CASE Verdict(r) \in Stops
  BY <1>1 DEF FinalRead, Disarm, Stops, Incidents
<1>2. CASE Verdict(r) \in {"ok", "poll", "armed"}
  BY <1>2 DEF FinalRead, Disarm, Stops
<1>. QED
  BY <1>1, <1>2, Classifications DEF Verdicts

LEMMA FinalReadEffect ==
  ASSUME TypeOK, mergedAs <= Tip, NEW r \in Runs, FinalRead(r)
  PROVE  /\ Others(r) /\ stage[r] = "final" /\ SameSends(r) /\ SameAuth(r)
         /\ (stage'[r] = "send" /\ Undecides(r)) \/ Decides(r)
         /\ UNCHANGED <<branch, mergedAs, wire, auths, intents, current>>
<1>1. SameSends(r) /\ SameAuth(r) /\ \A q \in Runs \ {r} : run'[q] = run[q]
  BY DEF FinalRead, SameSends, SameAuth
<1>2. stage[r] = "final" /\ UNCHANGED <<branch, mergedAs, wire, auths, intents, current>>
  BY DEF FinalRead
<1>3. CASE Shown /\ ClassifyMerged(r, run[r].known)
  BY <1>1, <1>2, <1>3, ClassifyMergedEffect DEF Others
<1>4. CASE \E k \in Stops : Stop(r, k)
  BY <1>1, <1>2, <1>4, StopEffect DEF Others
<1>5. CASE Goto(r, "send")
  BY <1>1, <1>2, <1>5, GotoEffect DEF Others
<1>. QED
  BY <1>3, <1>4, <1>5, FinalReadCases

LEMMA SendEffect ==
  ASSUME TypeOK, NEW r \in Runs, Send(r)
  PROVE  /\ Others(r) /\ stage[r] = "send" /\ run'[r].sends = run[r].sends + 1 /\ SameAuth(r)
         /\ Undecides(r)
         /\ \/ /\ stage'[r] = "update"
               /\ wire' = wire \cup {[run |-> r, base |-> Auth(r).base, head |-> Auth(r).head]}
            \/ /\ stage'[r] = "readback" /\ wire' = wire
         /\ UNCHANGED <<branch, mergedAs, auths, intents, current>>
<1>1. /\ run'[r].sends = run[r].sends + 1 /\ SameAuth(r)
      /\ \A q \in Runs \ {r} : run'[q] = run[q]
  BY DEF Send, TypeOK, Processes, SameAuth
<1>. QED
  BY <1>1, GotoEffect DEF Send, Others

LEMMA AnsweredEffect ==
  ASSUME TypeOK, NEW r \in Runs, Answered(r) \/ AnswerLost(r)
  PROVE  /\ Others(r) /\ stage[r] = "update" /\ SameSends(r) /\ SameAuth(r) /\ Undecides(r)
         /\ stage'[r] \in {"landed", "readback"}
         /\ stage'[r] = "readback" => run'[r].response \in {"refused", "uncertain"}
         /\ UNCHANGED <<platform, auths, intents, current>>
<1>1. SameSends(r) /\ SameAuth(r) /\ \A q \in Runs \ {r} : run'[q] = run[q]
  BY DEF Answered, AnswerLost, TypeOK, Processes, SameSends, SameAuth
<1>2. Answered(r) => Goto(r, "landed") \/ (Goto(r, "readback") /\ run'[r].response = "refused")
  BY DEF Answered, TypeOK, Processes
<1>3. AnswerLost(r) => Goto(r, "readback") /\ run'[r].response = "uncertain"
  BY DEF AnswerLost, TypeOK, Processes
<1>. QED
  BY <1>1, <1>2, <1>3, GotoEffect DEF Answered, AnswerLost, Others

LEMMA ReadBackEffect ==
  ASSUME TypeOK, mergedAs <= Tip, NEW r \in Runs, ReadBack(r)
  PROVE  /\ Others(r) /\ stage[r] = "readback" /\ SameSends(r) /\ SameAuth(r)
         /\ (stage'[r] = "guard" /\ Undecides(r) /\ MayResend(r)) \/ Decides(r)
         /\ UNCHANGED <<branch, mergedAs, wire, auths, intents, current>>
<1>1. run' = run \/ run' = [run EXCEPT ![r].verdict = Verdict(r)]
  BY DEF ReadBack
<1>2. SameSends(r) /\ SameAuth(r) /\ \A q \in Runs \ {r} : run'[q] = run[q]
  BY <1>1 DEF TypeOK, Processes, SameSends, SameAuth
<1>3. stage[r] = "readback" /\ UNCHANGED <<branch, mergedAs, wire, auths, intents, current>>
  BY DEF ReadBack
<1>4. CASE Stop(r, "api-error")
  BY <1>2, <1>3, <1>4, StopEffect DEF Others, Stops
<1>5. CASE Shown /\ ClassifyMerged(r, run[r].known \cup {run[r].auth})
  BY <1>2, <1>3, <1>5, ClassifyMergedEffect DEF Others
<1>6. CASE Tip \in Landed(r) /\ Decide(r, "merged", Tip)
  <2>1. /\ stage'[r] = "record" /\ outcome'[r] = [kind |-> "merged", commit |-> Tip]
        /\ \A q \in Runs \ {r} : stage'[q] = stage[q] /\ outcome'[q] = outcome[q]
    BY <1>6, DecideEffect
  <2>2. Decides(r)
    BY <1>6, <2>1 DEF Decides, Sound, Landed
  <2>. QED
    BY <1>2, <1>3, <2>1, <2>2 DEF Others
<1>7. CASE MayResend(r) /\ Goto(r, "guard")
  BY <1>2, <1>3, <1>7, GotoEffect DEF Others
<1>8. CASE NotApplied(r)
  <2>1. CASE \E k \in {"payload-mismatch", "api-error", "deferred-merge-machinery"} : Stop(r, k)
    BY <1>2, <1>3, <2>1, StopEffect DEF Others, Stops
  <2>2. CASE Classified(r) \in Stops /\ Stop(r, Classified(r))
    BY <1>2, <1>3, <2>2, StopEffect, Classifications DEF Others
  <2>. QED
    BY <1>8, <2>1, <2>2 DEF NotApplied, Disarm
<1>9. \/ Stop(r, "api-error")
      \/ Shown /\ ClassifyMerged(r, run[r].known \cup {run[r].auth})
      \/ Tip \in Landed(r) /\ Decide(r, "merged", Tip)
      \/ MayResend(r) /\ Goto(r, "guard")
      \/ NotApplied(r)
  BY DEF ReadBack
<1>. QED
  BY <1>4, <1>5, <1>6, <1>7, <1>8, <1>9

LEMMA GuardEffect ==
  ASSUME TypeOK, NEW r \in Runs, Guard(r)
  PROVE  /\ Others(r) /\ stage[r] = "guard" /\ SameSends(r) /\ SameAuth(r) /\ Undecides(r)
         /\ \/ stage'[r] = "send"
            \/ stage'[r] = "stopping" /\ run'[r].verdict \in Stops
         /\ UNCHANGED <<branch, mergedAs, wire, auths, intents, current>>
<1>1. run' = run \/ \E v \in Stops : run' = [run EXCEPT ![r].verdict = v]
  BY DEF Guard, Stops
<1>2. SameSends(r) /\ SameAuth(r) /\ \A q \in Runs \ {r} : run'[q] = run[q]
  BY <1>1 DEF TypeOK, Processes, SameSends, SameAuth
<1>3. Goto(r, "send") \/ (Goto(r, "stopping") /\ run'[r].verdict \in Stops)
  <2>1. \A v : run' = [run EXCEPT ![r].verdict = v] => run'[r].verdict = v
    BY DEF TypeOK, Processes
  <2>. QED
    BY <2>1 DEF Guard, Stops
<1>. QED
  BY <1>2, <1>3, GotoEffect DEF Guard, Others

LEMMA StopAtGuardEffect ==
  ASSUME TypeOK, mergedAs <= Tip, NEW r \in Runs, StopAtGuard(r), StoppingVerdict
  PROVE  /\ Others(r) /\ stage[r] = "stopping" /\ SameSends(r) /\ SameAuth(r) /\ Decides(r)
         /\ UNCHANGED <<platform, auths, intents, current>>
<1>1. CASE Shown /\ ClassifyMerged(r, run[r].known \cup {run[r].auth})
  BY <1>1, ClassifyMergedEffect DEF StopAtGuard, Others, SameSends, SameAuth
<1>2. CASE Stop(r, run[r].verdict)
  BY <1>2, StopEffect DEF StopAtGuard, StoppingVerdict, Others, SameSends, SameAuth
<1>. QED
  BY <1>1, <1>2 DEF StopAtGuard

LEMMA VerifyLandedEffect ==
  ASSUME TypeOK, NEW r \in Runs, VerifyLanded(r)
  PROVE  /\ Others(r) /\ stage[r] = "landed" /\ SameSends(r) /\ SameAuth(r) /\ Decides(r)
         /\ UNCHANGED <<platform, auths, intents, current>>
<1>1. CASE Stop(r, "base-drift-post-merge")
  BY <1>1, StopEffect DEF VerifyLanded, Others, SameSends, SameAuth, Stops, Incidents
<1>2. ASSUME NEW i \in Landed(r), Decide(r, "merged", i)
      PROVE  /\ Decides(r)
             /\ \A q \in Runs \ {r} : stage'[q] = stage[q] /\ outcome'[q] = outcome[q]
  <2>1. /\ stage'[r] = "record" /\ outcome'[r] = [kind |-> "merged", commit |-> i]
        /\ \A q \in Runs \ {r} : stage'[q] = stage[q] /\ outcome'[q] = outcome[q]
    BY <1>2, DecideEffect
  <2>. QED
    BY <2>1 DEF Decides, Sound, Landed
<1>. QED
  BY <1>1, <1>2 DEF VerifyLanded, Others, SameSends, SameAuth

LEMMA RecordEffect ==
  ASSUME TypeOK, NEW r \in Runs, Record(r)
  PROVE  /\ Others(r) /\ stage[r] = "record" /\ stage'[r] = "done" /\ SameSends(r) /\ SameAuth(r)
         /\ Undecides(r)
         /\ UNCHANGED <<platform, auths, intents, current>>
BY DEF Record, TypeOK, Others, SameSends, SameAuth, Undecides

-----------------------------------------------------------------------------
(* A step keeps each part of the inductive invariant.                      *)

LEMMA StepBranch ==
  BoundsAssumption /\ TypeOK /\ BranchOK /\ StoppingVerdict /\ Fresh /\ [Next]_vars
    => BranchOK'
<1>. SUFFICES ASSUME BoundsAssumption, TypeOK, BranchOK, StoppingVerdict, Fresh, [Next]_vars
     PROVE BranchOK'
  OBVIOUS
<1>1. CASE Calm
  BY <1>1 DEF Calm, Tip, BranchOK, Ours, TypeOK
<1>2. CASE Foreign
  <2>1. \A a \in 1..Len(auths') : auths'[a].base <= Tip'
    BY <1>2, TipIsNat, AuthTypes DEF Foreign, BranchOK
  <2>2. ASSUME NEW i \in 1..Tip' PROVE branch'[i].base = i - 1 /\ (Ours(i) <=> branch[i].run # 0)'
    <3>1. CASE i \in 1..Tip
      BY <3>1, <1>2 DEF Foreign, BranchOK, Ours
    <3>2. CASE i = Tip + 1
      BY <3>2, <1>2, TipIsNat DEF Foreign, Ours
    <3>. QED
      BY <3>1, <3>2, <1>2, TipIsNat DEF Foreign
  <2>3. mergedAs' <= Tip'
    BY <1>2, TipIsNat DEF Foreign, BranchOK, TypeOK
  <2>. QED
    BY <2>1, <2>2, <2>3 DEF BranchOK
<1>3. CASE Authorize
  <2>1. \A a \in 1..Len(auths') : auths'[a].base <= Tip
    BY <1>3, AuthorizeEffect, TipIsNat DEF BranchOK
  <2>. QED
    BY <1>3, <2>1, AuthorizeEffect DEF BranchOK, Tip, Ours
<1>4. ASSUME NEW u \in wire, Apply(u) PROVE BranchOK'
  <2>1. u.run \in Runs
    BY <1>4, ApplyEffect
  <2>2. u.run # 0
    BY <2>1 DEF Runs
  <2>3. /\ Tip' = Tip + 1
        /\ \A i \in 1..Tip : branch'[i] = branch[i]
        /\ branch'[Tip + 1] = [by |-> "us", run |-> u.run, base |-> Tip, head |-> u.head]
        /\ UNCHANGED <<mergedAs, auths>>
    BY <1>4, ApplyEffect
  <2>4. \A a \in 1..Len(auths') : auths'[a].base <= Tip'
    BY <2>3, TipIsNat, AuthTypes DEF BranchOK
  <2>5. ASSUME NEW i \in 1..Tip' PROVE branch'[i].base = i - 1 /\ (Ours(i) <=> branch[i].run # 0)'
    <3>1. CASE i \in 1..Tip
      BY <3>1, <2>3 DEF BranchOK, Ours
    <3>2. CASE i = Tip + 1
      BY <3>2, <2>2, <2>3, TipIsNat DEF Ours
    <3>. QED
      BY <3>1, <3>2, <2>3, TipIsNat
  <2>6. mergedAs' <= Tip'
    BY <2>3, TipIsNat DEF BranchOK, TypeOK
  <2>. QED
    BY <2>4, <2>5, <2>6 DEF BranchOK
<1>5. ASSUME NEW r \in Runs, StartRun(r) PROVE BranchOK'
  BY <1>5, StartRunEffect DEF Tip, platform, Others, BranchOK, Ours
<1>6. ASSUME NEW r \in Runs, Crash(r) PROVE BranchOK'
  BY <1>6, DieEffect DEF Tip, platform, Others, BranchOK, Ours
<1>7. ASSUME NEW r \in Runs, Select(r) PROVE BranchOK'
  BY <1>7, SelectEffect DEF Tip, platform, Others, BranchOK, Ours
<1>8. ASSUME NEW r \in Runs, Verify(r) PROVE BranchOK'
  BY <1>8, VerifyEffect DEF Tip, platform, Others, BranchOK, Ours
<1>9. ASSUME NEW r \in Runs, WriteIntent(r) PROVE BranchOK'
  BY <1>9, WriteIntentEffect DEF Tip, platform, Others, BranchOK, Ours
<1>10. ASSUME NEW r \in Runs, Recheck(r) PROVE BranchOK'
  BY <1>10, RecheckEffect DEF Tip, platform, Others, BranchOK, Ours
<1>11. ASSUME NEW r \in Runs, FinalRead(r) PROVE BranchOK'
  BY <1>11, FinalReadEffect DEF Tip, platform, Others, BranchOK, Ours
<1>12. ASSUME NEW r \in Runs, Send(r) PROVE BranchOK'
  BY <1>12, SendEffect DEF Tip, platform, Others, BranchOK, Ours
<1>13. ASSUME NEW r \in Runs, Answered(r) PROVE BranchOK'
  BY <1>13, AnsweredEffect DEF Tip, platform, Others, BranchOK, Ours
<1>14. ASSUME NEW r \in Runs, AnswerLost(r) PROVE BranchOK'
  BY <1>14, AnsweredEffect DEF Tip, platform, Others, BranchOK, Ours
<1>15. ASSUME NEW r \in Runs, ReadBack(r) PROVE BranchOK'
  BY <1>15, ReadBackEffect DEF Tip, platform, Others, BranchOK, Ours
<1>16. ASSUME NEW r \in Runs, Guard(r) PROVE BranchOK'
  BY <1>16, GuardEffect DEF Tip, platform, Others, BranchOK, Ours
<1>17. ASSUME NEW r \in Runs, StopAtGuard(r) PROVE BranchOK'
  BY <1>17, StopAtGuardEffect DEF Tip, platform, Others, BranchOK, Ours
<1>18. ASSUME NEW r \in Runs, VerifyLanded(r) PROVE BranchOK'
  BY <1>18, VerifyLandedEffect DEF Tip, platform, Others, BranchOK, Ours
<1>19. ASSUME NEW r \in Runs, Record(r) PROVE BranchOK'
  BY <1>19, RecordEffect DEF Tip, platform, Others, BranchOK, Ours
<1>20. ASSUME NEW r \in Runs, Refused(r) PROVE BranchOK'
  BY <1>20, DieEffect DEF Tip, platform, Others, BranchOK, Ours
<1>. QED
  BY <1>1, <1>2, <1>3, <1>4, <1>5, <1>6, <1>7, <1>8, <1>9, <1>10, <1>11, <1>12, <1>13, <1>14,
     <1>15, <1>16, <1>17, <1>18, <1>19, <1>20, StepCases
     DEF Step

LEMMA StepSelected ==
  BoundsAssumption /\ TypeOK /\ BranchOK /\ StoppingVerdict /\ Fresh /\ Selected /\ [Next]_vars
    => Selected'
<1>. SUFFICES ASSUME BoundsAssumption, TypeOK, BranchOK, StoppingVerdict, Fresh, Selected, [Next]_vars
     PROVE Selected'
  OBVIOUS
<1>1. CASE Calm
  BY <1>1 DEF Calm, Tip, Selected
<1>2. CASE Foreign
  BY <1>2, TipIsNat DEF Foreign, Selected
<1>3. CASE Authorize
  BY <1>3, AuthorizeEffect DEF Tip, Selected
<1>4. ASSUME NEW u \in wire, Apply(u) PROVE Selected'
  BY <1>4, ApplyEffect, TipIsNat DEF Selected
<1>5. ASSUME NEW r \in Runs, StartRun(r) PROVE Selected'
  BY <1>5, StartRunEffect
     DEF Tip, platform, Others, SameAuth, SameSends, Undecides, Decides, Selected, BranchOK
<1>6. ASSUME NEW r \in Runs, Crash(r) PROVE Selected'
  BY <1>6, DieEffect
     DEF Tip, platform, Others, SameAuth, SameSends, Undecides, Decides, Selected, BranchOK
<1>7. ASSUME NEW r \in Runs, Select(r) PROVE Selected'
  <2>1. Len(auths) \in 1..Len(auths)
    BY DEF TypeOK
  <2>. QED
    BY <1>7, <2>1, SelectEffect DEF Selected, Others, Decides
<1>8. ASSUME NEW r \in Runs, Verify(r) PROVE Selected'
  BY <1>8, VerifyEffect
     DEF Tip, platform, Others, SameAuth, SameSends, Undecides, Decides, Selected, BranchOK
<1>9. ASSUME NEW r \in Runs, WriteIntent(r) PROVE Selected'
  BY <1>9, WriteIntentEffect
     DEF Tip, platform, Others, SameAuth, SameSends, Undecides, Decides, Selected, BranchOK
<1>10. ASSUME NEW r \in Runs, Recheck(r) PROVE Selected'
  BY <1>10, RecheckEffect
     DEF Tip, platform, Others, SameAuth, SameSends, Undecides, Decides, Selected, BranchOK
<1>11. ASSUME NEW r \in Runs, FinalRead(r) PROVE Selected'
  BY <1>11, FinalReadEffect
     DEF Tip, platform, Others, SameAuth, SameSends, Undecides, Decides, Selected, BranchOK
<1>12. ASSUME NEW r \in Runs, Send(r) PROVE Selected'
  BY <1>12, SendEffect
     DEF Tip, platform, Others, SameAuth, SameSends, Undecides, Decides, Selected, BranchOK
<1>13. ASSUME NEW r \in Runs, Answered(r) PROVE Selected'
  BY <1>13, AnsweredEffect
     DEF Tip, platform, Others, SameAuth, SameSends, Undecides, Decides, Selected, BranchOK
<1>14. ASSUME NEW r \in Runs, AnswerLost(r) PROVE Selected'
  BY <1>14, AnsweredEffect
     DEF Tip, platform, Others, SameAuth, SameSends, Undecides, Decides, Selected, BranchOK
<1>15. ASSUME NEW r \in Runs, ReadBack(r) PROVE Selected'
  BY <1>15, ReadBackEffect
     DEF Tip, platform, Others, SameAuth, SameSends, Undecides, Decides, Selected, BranchOK
<1>16. ASSUME NEW r \in Runs, Guard(r) PROVE Selected'
  BY <1>16, GuardEffect
     DEF Tip, platform, Others, SameAuth, SameSends, Undecides, Decides, Selected, BranchOK
<1>17. ASSUME NEW r \in Runs, StopAtGuard(r) PROVE Selected'
  BY <1>17, StopAtGuardEffect
     DEF Tip, platform, Others, SameAuth, SameSends, Undecides, Decides, Selected, BranchOK
<1>18. ASSUME NEW r \in Runs, VerifyLanded(r) PROVE Selected'
  BY <1>18, VerifyLandedEffect
     DEF Tip, platform, Others, SameAuth, SameSends, Undecides, Decides, Selected, BranchOK
<1>19. ASSUME NEW r \in Runs, Record(r) PROVE Selected'
  BY <1>19, RecordEffect
     DEF Tip, platform, Others, SameAuth, SameSends, Undecides, Decides, Selected, BranchOK
<1>20. ASSUME NEW r \in Runs, Refused(r) PROVE Selected'
  BY <1>20, DieEffect
     DEF Tip, platform, Others, SameAuth, SameSends, Undecides, Decides, Selected, BranchOK
<1>. QED
  BY <1>1, <1>2, <1>3, <1>4, <1>5, <1>6, <1>7, <1>8, <1>9, <1>10, <1>11, <1>12, <1>13, <1>14,
     <1>15, <1>16, <1>17, <1>18, <1>19, <1>20, StepCases
     DEF Step

LEMMA StepVerdict ==
  BoundsAssumption /\ TypeOK /\ BranchOK /\ StoppingVerdict /\ Fresh /\ [Next]_vars
    => StoppingVerdict'
<1>. SUFFICES ASSUME BoundsAssumption, TypeOK, BranchOK, StoppingVerdict, Fresh, [Next]_vars
     PROVE StoppingVerdict'
  OBVIOUS
<1>1. CASE Calm
  BY <1>1 DEF Calm, Tip, StoppingVerdict
<1>2. CASE Foreign
  BY <1>2, TipIsNat DEF Foreign, StoppingVerdict
<1>3. CASE Authorize
  BY <1>3, AuthorizeEffect DEF Tip, StoppingVerdict
<1>4. ASSUME NEW u \in wire, Apply(u) PROVE StoppingVerdict'
  BY <1>4, ApplyEffect, TipIsNat DEF StoppingVerdict
<1>5. ASSUME NEW r \in Runs, StartRun(r) PROVE StoppingVerdict'
  BY <1>5, StartRunEffect
     DEF Tip, platform, Others, SameAuth, SameSends, Undecides, Decides, StoppingVerdict, BranchOK
<1>6. ASSUME NEW r \in Runs, Crash(r) PROVE StoppingVerdict'
  BY <1>6, DieEffect
     DEF Tip, platform, Others, SameAuth, SameSends, Undecides, Decides, StoppingVerdict, BranchOK
<1>7. ASSUME NEW r \in Runs, Select(r) PROVE StoppingVerdict'
  BY <1>7, SelectEffect
     DEF Tip, platform, Others, SameAuth, SameSends, Undecides, Decides, StoppingVerdict, BranchOK
<1>8. ASSUME NEW r \in Runs, Verify(r) PROVE StoppingVerdict'
  BY <1>8, VerifyEffect
     DEF Tip, platform, Others, SameAuth, SameSends, Undecides, Decides, StoppingVerdict, BranchOK
<1>9. ASSUME NEW r \in Runs, WriteIntent(r) PROVE StoppingVerdict'
  BY <1>9, WriteIntentEffect
     DEF Tip, platform, Others, SameAuth, SameSends, Undecides, Decides, StoppingVerdict, BranchOK
<1>10. ASSUME NEW r \in Runs, Recheck(r) PROVE StoppingVerdict'
  BY <1>10, RecheckEffect
     DEF Tip, platform, Others, SameAuth, SameSends, Undecides, Decides, StoppingVerdict, BranchOK
<1>11. ASSUME NEW r \in Runs, FinalRead(r) PROVE StoppingVerdict'
  BY <1>11, FinalReadEffect
     DEF Tip, platform, Others, SameAuth, SameSends, Undecides, Decides, StoppingVerdict, BranchOK
<1>12. ASSUME NEW r \in Runs, Send(r) PROVE StoppingVerdict'
  BY <1>12, SendEffect
     DEF Tip, platform, Others, SameAuth, SameSends, Undecides, Decides, StoppingVerdict, BranchOK
<1>13. ASSUME NEW r \in Runs, Answered(r) PROVE StoppingVerdict'
  BY <1>13, AnsweredEffect
     DEF Tip, platform, Others, SameAuth, SameSends, Undecides, Decides, StoppingVerdict, BranchOK
<1>14. ASSUME NEW r \in Runs, AnswerLost(r) PROVE StoppingVerdict'
  BY <1>14, AnsweredEffect
     DEF Tip, platform, Others, SameAuth, SameSends, Undecides, Decides, StoppingVerdict, BranchOK
<1>15. ASSUME NEW r \in Runs, ReadBack(r) PROVE StoppingVerdict'
  BY <1>15, ReadBackEffect
     DEF Tip, platform, Others, SameAuth, SameSends, Undecides, Decides, StoppingVerdict, BranchOK
<1>16. ASSUME NEW r \in Runs, Guard(r) PROVE StoppingVerdict'
  BY <1>16, GuardEffect
     DEF Tip, platform, Others, SameAuth, SameSends, Undecides, Decides, StoppingVerdict, BranchOK
<1>17. ASSUME NEW r \in Runs, StopAtGuard(r) PROVE StoppingVerdict'
  BY <1>17, StopAtGuardEffect
     DEF Tip, platform, Others, SameAuth, SameSends, Undecides, Decides, StoppingVerdict, BranchOK
<1>18. ASSUME NEW r \in Runs, VerifyLanded(r) PROVE StoppingVerdict'
  BY <1>18, VerifyLandedEffect
     DEF Tip, platform, Others, SameAuth, SameSends, Undecides, Decides, StoppingVerdict, BranchOK
<1>19. ASSUME NEW r \in Runs, Record(r) PROVE StoppingVerdict'
  BY <1>19, RecordEffect
     DEF Tip, platform, Others, SameAuth, SameSends, Undecides, Decides, StoppingVerdict, BranchOK
<1>20. ASSUME NEW r \in Runs, Refused(r) PROVE StoppingVerdict'
  BY <1>20, DieEffect
     DEF Tip, platform, Others, SameAuth, SameSends, Undecides, Decides, StoppingVerdict, BranchOK
<1>. QED
  BY <1>1, <1>2, <1>3, <1>4, <1>5, <1>6, <1>7, <1>8, <1>9, <1>10, <1>11, <1>12, <1>13, <1>14,
     <1>15, <1>16, <1>17, <1>18, <1>19, <1>20, StepCases
     DEF Step

LEMMA StepFresh ==
  BoundsAssumption /\ TypeOK /\ BranchOK /\ StoppingVerdict /\ Fresh /\ [Next]_vars
    => Fresh'
<1>. SUFFICES ASSUME BoundsAssumption, TypeOK, BranchOK, StoppingVerdict, Fresh, [Next]_vars
     PROVE Fresh'
  OBVIOUS
<1>1. CASE Calm
  BY <1>1 DEF Calm, Tip, Fresh
<1>2. CASE Foreign
  BY <1>2, TipIsNat DEF Foreign, Fresh
<1>3. CASE Authorize
  BY <1>3, AuthorizeEffect DEF Tip, Fresh
<1>4. ASSUME NEW u \in wire, Apply(u) PROVE Fresh'
  BY <1>4, ApplyEffect, TipIsNat DEF Fresh
<1>5. ASSUME NEW r \in Runs, StartRun(r) PROVE Fresh'
  BY <1>5, StartRunEffect
     DEF Tip, platform, Others, SameAuth, SameSends, Undecides, Decides, Fresh, BranchOK, Runs,
         TypeOK
<1>6. ASSUME NEW r \in Runs, Crash(r) PROVE Fresh'
  BY <1>6, DieEffect
     DEF Tip, platform, Others, SameAuth, SameSends, Undecides, Decides, Fresh, BranchOK, Runs,
         TypeOK
<1>7. ASSUME NEW r \in Runs, Select(r) PROVE Fresh'
  BY <1>7, SelectEffect
     DEF Tip, platform, Others, SameAuth, SameSends, Undecides, Decides, Fresh, BranchOK, Runs,
         TypeOK
<1>8. ASSUME NEW r \in Runs, Verify(r) PROVE Fresh'
  BY <1>8, VerifyEffect
     DEF Tip, platform, Others, SameAuth, SameSends, Undecides, Decides, Fresh, BranchOK, Runs,
         TypeOK
<1>9. ASSUME NEW r \in Runs, WriteIntent(r) PROVE Fresh'
  BY <1>9, WriteIntentEffect
     DEF Tip, platform, Others, SameAuth, SameSends, Undecides, Decides, Fresh, BranchOK, Runs,
         TypeOK
<1>10. ASSUME NEW r \in Runs, Recheck(r) PROVE Fresh'
  BY <1>10, RecheckEffect
     DEF Tip, platform, Others, SameAuth, SameSends, Undecides, Decides, Fresh, BranchOK, Runs,
         TypeOK
<1>11. ASSUME NEW r \in Runs, FinalRead(r) PROVE Fresh'
  BY <1>11, FinalReadEffect
     DEF Tip, platform, Others, SameAuth, SameSends, Undecides, Decides, Fresh, BranchOK, Runs,
         TypeOK
<1>12. ASSUME NEW r \in Runs, Send(r) PROVE Fresh'
  BY <1>12, SendEffect
     DEF Tip, platform, Others, SameAuth, SameSends, Undecides, Decides, Fresh, BranchOK, Runs,
         TypeOK
<1>13. ASSUME NEW r \in Runs, Answered(r) PROVE Fresh'
  BY <1>13, AnsweredEffect
     DEF Tip, platform, Others, SameAuth, SameSends, Undecides, Decides, Fresh, BranchOK, Runs,
         TypeOK
<1>14. ASSUME NEW r \in Runs, AnswerLost(r) PROVE Fresh'
  BY <1>14, AnsweredEffect
     DEF Tip, platform, Others, SameAuth, SameSends, Undecides, Decides, Fresh, BranchOK, Runs,
         TypeOK
<1>15. ASSUME NEW r \in Runs, ReadBack(r) PROVE Fresh'
  BY <1>15, ReadBackEffect
     DEF Tip, platform, Others, SameAuth, SameSends, Undecides, Decides, Fresh, BranchOK, Runs,
         TypeOK
<1>16. ASSUME NEW r \in Runs, Guard(r) PROVE Fresh'
  BY <1>16, GuardEffect
     DEF Tip, platform, Others, SameAuth, SameSends, Undecides, Decides, Fresh, BranchOK, Runs,
         TypeOK
<1>17. ASSUME NEW r \in Runs, StopAtGuard(r) PROVE Fresh'
  BY <1>17, StopAtGuardEffect
     DEF Tip, platform, Others, SameAuth, SameSends, Undecides, Decides, Fresh, BranchOK, Runs,
         TypeOK
<1>18. ASSUME NEW r \in Runs, VerifyLanded(r) PROVE Fresh'
  BY <1>18, VerifyLandedEffect
     DEF Tip, platform, Others, SameAuth, SameSends, Undecides, Decides, Fresh, BranchOK, Runs,
         TypeOK
<1>19. ASSUME NEW r \in Runs, Record(r) PROVE Fresh'
  BY <1>19, RecordEffect
     DEF Tip, platform, Others, SameAuth, SameSends, Undecides, Decides, Fresh, BranchOK, Runs,
         TypeOK
<1>20. ASSUME NEW r \in Runs, Refused(r) PROVE Fresh'
  BY <1>20, DieEffect
     DEF Tip, platform, Others, SameAuth, SameSends, Undecides, Decides, Fresh, BranchOK, Runs,
         TypeOK
<1>. QED
  BY <1>1, <1>2, <1>3, <1>4, <1>5, <1>6, <1>7, <1>8, <1>9, <1>10, <1>11, <1>12, <1>13, <1>14,
     <1>15, <1>16, <1>17, <1>18, <1>19, <1>20, StepCases
     DEF Step

LEMMA StepSends ==
  BoundsAssumption /\ TypeOK /\ BranchOK /\ StoppingVerdict /\ Fresh /\ SendsOK /\ [Next]_vars
    => SendsOK'
<1>. SUFFICES ASSUME BoundsAssumption, TypeOK, BranchOK, StoppingVerdict, Fresh, SendsOK, [Next]_vars
     PROVE SendsOK'
  OBVIOUS
<1>1. CASE Calm
  BY <1>1 DEF Calm, Tip, SendsOK
<1>2. CASE Foreign
  BY <1>2, TipIsNat DEF Foreign, SendsOK
<1>3. CASE Authorize
  BY <1>3, AuthorizeEffect DEF Tip, SendsOK
<1>4. ASSUME NEW u \in wire, Apply(u) PROVE SendsOK'
  BY <1>4, ApplyEffect, TipIsNat DEF SendsOK
<1>5. ASSUME NEW r \in Runs, StartRun(r) PROVE SendsOK'
  <2>1. stage[r] = "off"
    BY <1>5, StartRunEffect DEF Fresh
  <2>. QED
    BY <1>5, <2>1, StartRunEffect, BoundsAssumption DEF SendsOK, Others, SameSends, BoundsAssumption
<1>6. ASSUME NEW r \in Runs, Crash(r) PROVE SendsOK'
  BY <1>6, DieEffect
     DEF Tip, platform, Others, SameAuth, SameSends, Undecides, Decides, SendsOK, BranchOK
<1>7. ASSUME NEW r \in Runs, Select(r) PROVE SendsOK'
  BY <1>7, SelectEffect
     DEF Tip, platform, Others, SameAuth, SameSends, Undecides, Decides, SendsOK, BranchOK
<1>8. ASSUME NEW r \in Runs, Verify(r) PROVE SendsOK'
  BY <1>8, VerifyEffect
     DEF Tip, platform, Others, SameAuth, SameSends, Undecides, Decides, SendsOK, BranchOK
<1>9. ASSUME NEW r \in Runs, WriteIntent(r) PROVE SendsOK'
  BY <1>9, WriteIntentEffect
     DEF Tip, platform, Others, SameAuth, SameSends, Undecides, Decides, SendsOK, BranchOK
<1>10. ASSUME NEW r \in Runs, Recheck(r) PROVE SendsOK'
  BY <1>10, RecheckEffect
     DEF Tip, platform, Others, SameAuth, SameSends, Undecides, Decides, SendsOK, BranchOK
<1>11. ASSUME NEW r \in Runs, FinalRead(r) PROVE SendsOK'
  BY <1>11, FinalReadEffect, BoundsAssumption
     DEF SendsOK, BranchOK, Others, SameSends, Decides, BoundsAssumption
<1>12. ASSUME NEW r \in Runs, Send(r) PROVE SendsOK'
  BY <1>12, SendEffect
     DEF Tip, platform, Others, SameAuth, SameSends, Undecides, Decides, SendsOK, BranchOK
<1>13. ASSUME NEW r \in Runs, Answered(r) PROVE SendsOK'
  BY <1>13, AnsweredEffect
     DEF Tip, platform, Others, SameAuth, SameSends, Undecides, Decides, SendsOK, BranchOK
<1>14. ASSUME NEW r \in Runs, AnswerLost(r) PROVE SendsOK'
  BY <1>14, AnsweredEffect
     DEF Tip, platform, Others, SameAuth, SameSends, Undecides, Decides, SendsOK, BranchOK
<1>15. ASSUME NEW r \in Runs, ReadBack(r) PROVE SendsOK'
  BY <1>15, ReadBackEffect DEF SendsOK, MayResend, BranchOK, Others, SameSends, Decides
<1>16. ASSUME NEW r \in Runs, Guard(r) PROVE SendsOK'
  BY <1>16, GuardEffect
     DEF Tip, platform, Others, SameAuth, SameSends, Undecides, Decides, SendsOK, BranchOK
<1>17. ASSUME NEW r \in Runs, StopAtGuard(r) PROVE SendsOK'
  BY <1>17, StopAtGuardEffect
     DEF Tip, platform, Others, SameAuth, SameSends, Undecides, Decides, SendsOK, BranchOK
<1>18. ASSUME NEW r \in Runs, VerifyLanded(r) PROVE SendsOK'
  BY <1>18, VerifyLandedEffect
     DEF Tip, platform, Others, SameAuth, SameSends, Undecides, Decides, SendsOK, BranchOK
<1>19. ASSUME NEW r \in Runs, Record(r) PROVE SendsOK'
  BY <1>19, RecordEffect
     DEF Tip, platform, Others, SameAuth, SameSends, Undecides, Decides, SendsOK, BranchOK
<1>20. ASSUME NEW r \in Runs, Refused(r) PROVE SendsOK'
  BY <1>20, DieEffect
     DEF Tip, platform, Others, SameAuth, SameSends, Undecides, Decides, SendsOK, BranchOK
<1>. QED
  BY <1>1, <1>2, <1>3, <1>4, <1>5, <1>6, <1>7, <1>8, <1>9, <1>10, <1>11, <1>12, <1>13, <1>14,
     <1>15, <1>16, <1>17, <1>18, <1>19, <1>20, StepCases
     DEF Step

LEMMA StepOpen ==
  BoundsAssumption /\ TypeOK /\ BranchOK /\ StoppingVerdict /\ Fresh /\ Open /\ [Next]_vars
    => Open'
<1>. SUFFICES ASSUME BoundsAssumption, TypeOK, BranchOK, StoppingVerdict, Fresh, Open, [Next]_vars
     PROVE Open'
  OBVIOUS
<1>1. CASE Calm
  BY <1>1 DEF Calm, Tip, Open
<1>2. CASE Foreign
  BY <1>2, TipIsNat DEF Foreign, Open
<1>3. CASE Authorize
  BY <1>3, AuthorizeEffect DEF Tip, Open
<1>4. ASSUME NEW u \in wire, Apply(u) PROVE Open'
  BY <1>4, ApplyEffect, TipIsNat DEF Open
<1>5. ASSUME NEW r \in Runs, StartRun(r) PROVE Open'
  BY <1>5, StartRunEffect DEF Open, Others, Undecides, Fresh, Runs, TypeOK
<1>6. ASSUME NEW r \in Runs, Crash(r) PROVE Open'
  BY <1>6, DieEffect
     DEF Tip, platform, Others, SameAuth, SameSends, Undecides, Decides, Open, BranchOK
<1>7. ASSUME NEW r \in Runs, Select(r) PROVE Open'
  BY <1>7, SelectEffect
     DEF Tip, platform, Others, SameAuth, SameSends, Undecides, Decides, Open, BranchOK
<1>8. ASSUME NEW r \in Runs, Verify(r) PROVE Open'
  BY <1>8, VerifyEffect
     DEF Tip, platform, Others, SameAuth, SameSends, Undecides, Decides, Open, BranchOK
<1>9. ASSUME NEW r \in Runs, WriteIntent(r) PROVE Open'
  BY <1>9, WriteIntentEffect
     DEF Tip, platform, Others, SameAuth, SameSends, Undecides, Decides, Open, BranchOK
<1>10. ASSUME NEW r \in Runs, Recheck(r) PROVE Open'
  BY <1>10, RecheckEffect
     DEF Tip, platform, Others, SameAuth, SameSends, Undecides, Decides, Open, BranchOK
<1>11. ASSUME NEW r \in Runs, FinalRead(r) PROVE Open'
  BY <1>11, FinalReadEffect
     DEF Tip, platform, Others, SameAuth, SameSends, Undecides, Decides, Open, BranchOK
<1>12. ASSUME NEW r \in Runs, Send(r) PROVE Open'
  BY <1>12, SendEffect
     DEF Tip, platform, Others, SameAuth, SameSends, Undecides, Decides, Open, BranchOK
<1>13. ASSUME NEW r \in Runs, Answered(r) PROVE Open'
  BY <1>13, AnsweredEffect
     DEF Tip, platform, Others, SameAuth, SameSends, Undecides, Decides, Open, BranchOK
<1>14. ASSUME NEW r \in Runs, AnswerLost(r) PROVE Open'
  BY <1>14, AnsweredEffect
     DEF Tip, platform, Others, SameAuth, SameSends, Undecides, Decides, Open, BranchOK
<1>15. ASSUME NEW r \in Runs, ReadBack(r) PROVE Open'
  BY <1>15, ReadBackEffect
     DEF Tip, platform, Others, SameAuth, SameSends, Undecides, Decides, Open, BranchOK
<1>16. ASSUME NEW r \in Runs, Guard(r) PROVE Open'
  BY <1>16, GuardEffect
     DEF Tip, platform, Others, SameAuth, SameSends, Undecides, Decides, Open, BranchOK
<1>17. ASSUME NEW r \in Runs, StopAtGuard(r) PROVE Open'
  BY <1>17, StopAtGuardEffect
     DEF Tip, platform, Others, SameAuth, SameSends, Undecides, Decides, Open, BranchOK
<1>18. ASSUME NEW r \in Runs, VerifyLanded(r) PROVE Open'
  BY <1>18, VerifyLandedEffect
     DEF Tip, platform, Others, SameAuth, SameSends, Undecides, Decides, Open, BranchOK
<1>19. ASSUME NEW r \in Runs, Record(r) PROVE Open'
  BY <1>19, RecordEffect
     DEF Tip, platform, Others, SameAuth, SameSends, Undecides, Decides, Open, BranchOK
<1>20. ASSUME NEW r \in Runs, Refused(r) PROVE Open'
  BY <1>20, DieEffect
     DEF Tip, platform, Others, SameAuth, SameSends, Undecides, Decides, Open, BranchOK
<1>. QED
  BY <1>1, <1>2, <1>3, <1>4, <1>5, <1>6, <1>7, <1>8, <1>9, <1>10, <1>11, <1>12, <1>13, <1>14,
     <1>15, <1>16, <1>17, <1>18, <1>19, <1>20, StepCases
     DEF Step

-----------------------------------------------------------------------------
(* Types.                                                                  *)

LEMMA DecideType ==
  ASSUME TypeOK, NEW r \in Runs, NEW k \in {"merged"} \cup Stops, NEW i \in Nat, Decide(r, k, i)
  PROVE  stage' \in [Runs -> Stages] /\ outcome' \in [Runs -> Outcomes]
<1>1. [kind |-> k, commit |-> i] \in Outcomes
  BY DEF Outcomes
<1>. QED
  BY <1>1 DEF TypeOK, Decide, Stages

LEMMA GotoType ==
  ASSUME TypeOK, NEW r \in Runs, NEW s \in Stages, Goto(r, s)
  PROVE  stage' \in [Runs -> Stages] /\ outcome' \in [Runs -> Outcomes]
BY DEF TypeOK, Goto

LEMMA StopType ==
  ASSUME TypeOK, NEW r \in Runs, NEW k \in Stops, Stop(r, k)
  PROVE  stage' \in [Runs -> Stages] /\ outcome' \in [Runs -> Outcomes]
BY DecideType DEF Stop

LEMMA ClassifyMergedType ==
  ASSUME TypeOK, NEW r \in Runs, NEW keys, ClassifyMerged(r, keys)
  PROVE  stage' \in [Runs -> Stages] /\ outcome' \in [Runs -> Outcomes]
<1>1. CASE Decide(r, "merged", mergedAs)
  BY <1>1, DecideType DEF TypeOK
<1>2. CASE \E k \in Incidents : Stop(r, k)
  BY <1>2, StopType DEF Stops
<1>. QED
  BY <1>1, <1>2 DEF ClassifyMerged, Incidents

\* What the process knows keeps its type when one part of it changes.
LEMMA ProcessType ==
  ASSUME TypeOK, NEW r \in Runs
  PROVE  /\ run[r] \in Processes
         /\ \A v \in Nat : [run EXCEPT ![r].polls = v] \in [Runs -> Processes]
         /\ \A v \in 0..Sends : [run EXCEPT ![r].sends = v] \in [Runs -> Processes]
         /\ \A v \in Responses : [run EXCEPT ![r].response = v] \in [Runs -> Processes]
         /\ \A v \in Verdicts : [run EXCEPT ![r].verdict = v] \in [Runs -> Processes]
BY DEF TypeOK, Processes

LEMMA SentType ==
  ASSUME TypeOK, NEW r \in Runs, NEW v \in 0..Sends, NEW w \in Responses
  PROVE  [run EXCEPT ![r].sends = v, ![r].response = w] \in [Runs -> Processes]
BY DEF TypeOK, Processes

LEMMA InitType == Init => TypeOK
<1>. SUFFICES ASSUME Init PROVE TypeOK
  OBVIOUS
<1>1. [base |-> 0, head |-> 1] \in Authorizations
  BY BoundsAssumption, SMT DEF BoundsAssumption, Authorizations
<1>2. auths \in Seq(Authorizations) /\ Len(auths) = 1
  BY <1>1 DEF Init
<1>3. branch \in Seq(Commits) /\ Tip = 0
  BY DEF Init, Tip
<1>4. Blank \in Processes
  BY BoundsAssumption DEF Blank, Processes, Responses, Verdicts, BoundsAssumption
<1>5. Undecided \in Outcomes /\ "off" \in Stages
  BY DEF Undecided, Outcomes, Stages
<1>6. stage \in [Runs -> Stages] /\ run \in [Runs -> Processes] /\ outcome \in [Runs -> Outcomes]
  BY <1>4, <1>5 DEF Init
<1>7. /\ head \in 1..MaxHeads /\ mergedAs \in 0..MaxBranch /\ changes \in 0..MaxChanges
      /\ current \in 0..MaxRuns /\ Tip <= MaxBranch /\ Len(auths) \in 1..MaxAuths
  BY <1>2, <1>3, BoundsAssumption DEF Init, BoundsAssumption
<1>8. /\ armed \in BOOLEAN /\ health \in {"clean", "unknown", "bad"} /\ wire \subseteq Updates
      /\ intents \subseteq [run : Runs, auth : 1..MaxAuths]
  BY DEF Init
<1>. QED
  BY <1>2, <1>3, <1>6, <1>7, <1>8 DEF TypeOK

\* The parts of the type invariant a step of a Run may disturb.
WorldType ==
  /\ branch \in Seq(Commits) /\ Tip <= MaxBranch
  /\ head \in 1..MaxHeads
  /\ mergedAs \in 0..MaxBranch /\ armed \in BOOLEAN
  /\ health \in {"clean", "unknown", "bad"}
  /\ changes \in 0..MaxChanges
  /\ wire \subseteq Updates
  /\ auths \in Seq(Authorizations) /\ Len(auths) \in 1..MaxAuths
  /\ intents \subseteq [run : Runs, auth : 1..MaxAuths]
  /\ current \in 0..MaxRuns
RunType ==
  /\ stage \in [Runs -> Stages]
  /\ run \in [Runs -> Processes]
  /\ outcome \in [Runs -> Outcomes]

LEMMA TypeParts == TypeOK <=> WorldType /\ RunType
BY DEF TypeOK, WorldType, RunType

LEMMA WorldSteps ==
  ASSUME TypeOK, BranchOK, World \/ Answer \/ UNCHANGED vars
  PROVE  TypeOK'
<1>1. CASE Push
  <2>1. mergedAs' = mergedAs /\ changes' \in 0..MaxChanges
    BY <1>1, BoundsAssumption DEF Push, Change, TypeOK, BoundsAssumption
  <2>. QED
    BY <1>1, <2>1, ForeignEffect DEF Push, TypeOK
<1>2. CASE PushHead
  <2>1. head' \in 1..MaxHeads /\ changes' \in 0..MaxChanges
    BY <1>2, BoundsAssumption DEF PushHead, Change, TypeOK, BoundsAssumption
  <2>. QED
    BY <1>2, <2>1 DEF PushHead, TypeOK, Tip
<1>3. CASE TheyMerge
  <2>1. mergedAs' \in 0..MaxBranch /\ changes' \in 0..MaxChanges
    BY <1>3, TipIsNat, BoundsAssumption DEF TheyMerge, Change, TypeOK, BoundsAssumption
  <2>. QED
    BY <1>3, <2>1, ForeignEffect DEF TheyMerge, TypeOK
<1>4. CASE Project
  <2>1. mergedAs' \in 0..MaxBranch
    BY <1>4, TipIsNat, BoundsAssumption DEF Project, Merges, TypeOK, BoundsAssumption
  <2>. QED
    BY <1>4, <2>1 DEF Project, TypeOK, Tip
<1>5. CASE Reassess
  <2>1. armed' \in BOOLEAN /\ health' \in {"clean", "unknown", "bad"} /\ changes' \in 0..MaxChanges
    <3>1. changes' \in 0..MaxChanges
      BY <1>5, BoundsAssumption DEF Reassess, Change, TypeOK, BoundsAssumption
    <3>2. CASE health' \in {"clean", "unknown", "bad"} \ {health} /\ armed' = armed
      BY <3>1, <3>2 DEF TypeOK
    <3>3. CASE armed' = TRUE /\ health' = health
      BY <3>1, <3>3 DEF TypeOK
    <3>. QED
      BY <1>5, <3>2, <3>3 DEF Reassess
  <2>. QED
    BY <1>5, <2>1 DEF Reassess, TypeOK, Tip
<1>6. CASE Authorize
  <2>1. Len(auths') \in 1..MaxAuths /\ changes' \in 0..MaxChanges
    BY <1>6, AuthorizeEffect, BoundsAssumption DEF Authorize, Change, TypeOK, BoundsAssumption
  <2>. QED
    BY <1>6, <2>1, AuthorizeEffect DEF TypeOK, Tip
<1>7. ASSUME NEW u \in wire, Apply(u) PROVE TypeOK'
  BY <1>7, ApplyEffect DEF TypeOK
<1>8. ASSUME NEW u \in wire, Reject(u) PROVE TypeOK'
  BY <1>8 DEF Reject, TypeOK, Tip
<1>9. CASE UNCHANGED vars
  BY <1>9 DEF vars, platform, TypeOK, Tip
<1>. QED
  BY <1>1, <1>2, <1>3, <1>4, <1>5, <1>6, <1>7, <1>8, <1>9 DEF World, Answer

LEMMA StepType ==
  ASSUME TypeOK, BranchOK, StoppingVerdict, Fresh, SendsOK, Selected, [Next]_vars
  PROVE  TypeOK'
<1>1. CASE World \/ Answer \/ UNCHANGED vars
  BY <1>1, WorldSteps
<1>2. ASSUME NEW r \in Runs, StartRun(r) PROVE TypeOK'
  <2>1. current' \in 0..MaxRuns
    BY <1>2, BoundsAssumption DEF StartRun, TypeOK, Runs, BoundsAssumption
  <2>2. Len(auths) \in 0..MaxAuths /\ run[r] \in Processes
    BY DEF TypeOK
  <2>3. run' \in [Runs -> Processes]
    BY <1>2, <2>2 DEF StartRun, TypeOK, Processes
  <2>4. stage' \in [Runs -> Stages]
    BY <1>2 DEF StartRun, TypeOK, Stages
  <2>. QED
    BY <1>2, <2>1, <2>3, <2>4 DEF StartRun, TypeOK, platform, Tip
<1>3. ASSUME NEW r \in Runs, Crash(r) PROVE TypeOK'
  <2>1. Blank \in Processes /\ Undecided \in Outcomes /\ "dead" \in Stages
    BY BoundsAssumption
       DEF Blank, Undecided, Processes, Outcomes, Stages, Responses, Verdicts, BoundsAssumption
  <2>2. RunType'
    BY <1>3, <2>1 DEF Crash, Die, TypeOK, RunType
  <2>. QED
    BY <1>3, <2>2 DEF Crash, Die, TypeOK, RunType, platform, Tip
<1>4. ASSUME NEW r \in Runs, Select(r) PROVE TypeOK'
  <2>1. stage' \in [Runs -> Stages] /\ outcome' \in [Runs -> Outcomes]
    BY <1>4, StopType, GotoType DEF Select, Stops, Stages
  <2>2. run' \in [Runs -> Processes]
    <3>1. {i.auth : i \in intents} \in SUBSET (1..MaxAuths) /\ Len(auths) \in 0..MaxAuths
      BY DEF TypeOK
    <3>. QED
      BY <1>4, <3>1 DEF Select, TypeOK, Processes
  <2>. QED
    BY <1>4, <2>1, <2>2 DEF Select, TypeOK, platform, Tip
<1>5. ASSUME NEW r \in Runs, Verify(r) PROVE TypeOK'
  <2>1. stage' \in [Runs -> Stages] /\ outcome' \in [Runs -> Outcomes]
    <3>1. CASE Shown /\ ClassifyMerged(r, run[r].known)
      BY <3>1, ClassifyMergedType
    <3>2. CASE \E k \in Stops : Stop(r, k)
      BY <3>2, StopType
    <3>3. CASE Goto(r, "intent") \/ Goto(r, "verify")
      BY <3>3, GotoType DEF Stages
    <3>. QED
      BY <1>5, <3>1, <3>2, <3>3, VerifyCases
  <2>2. run' \in [Runs -> Processes]
    <3>1. run[r].polls + 1 \in Nat
      BY DEF TypeOK, Processes
    <3>2. run' = run \/ run' = [run EXCEPT ![r].polls = run[r].polls + 1]
      BY <1>5 DEF Verify
    <3>. QED
      BY <3>1, <3>2, ProcessType DEF TypeOK
  <2>3. armed' \in BOOLEAN
    BY <1>5 DEF Verify, Disarm, TypeOK
  <2>. QED
    BY <1>5, <2>1, <2>2, <2>3 DEF Verify, TypeOK, platform, Tip
<1>6. ASSUME NEW r \in Runs, WriteIntent(r) PROVE TypeOK'
  <2>1. stage' \in [Runs -> Stages] /\ outcome' \in [Runs -> Outcomes]
    BY <1>6, GotoType DEF WriteIntent, Stages
  <2>2. run' \in [Runs -> Processes]
    BY <1>6 DEF WriteIntent, TypeOK
  <2>3. run[r].auth \in 1..MaxAuths
    <3>1. stage[r] = "intent"
      BY <1>6 DEF WriteIntent
    <3>2. run[r].auth \in 1..Len(auths)
      BY <3>1 DEF Selected
    <3>3. Len(auths) \in 1..MaxAuths
      BY DEF TypeOK
    <3>. QED
      BY <3>2, <3>3, BoundsAssumption DEF BoundsAssumption
  <2>. QED
    BY <1>6, <2>1, <2>2, <2>3 DEF WriteIntent, TypeOK, platform, Tip
<1>7. ASSUME NEW r \in Runs, Recheck(r) PROVE TypeOK'
  <2>1. stage' \in [Runs -> Stages] /\ outcome' \in [Runs -> Outcomes]
    BY <1>7, GotoType, StopType DEF Recheck, Stages, Stops
  <2>2. run' \in [Runs -> Processes]
    BY <1>7 DEF Recheck, TypeOK
  <2>. QED
    BY <1>7, <2>1, <2>2 DEF Recheck, TypeOK, platform, Tip
<1>8. ASSUME NEW r \in Runs, FinalRead(r) PROVE TypeOK'
  <2>1. stage' \in [Runs -> Stages] /\ outcome' \in [Runs -> Outcomes]
    <3>1. CASE Shown /\ ClassifyMerged(r, run[r].known)
      BY <3>1, ClassifyMergedType
    <3>2. CASE \E k \in Stops : Stop(r, k)
      BY <3>2, StopType
    <3>3. CASE Goto(r, "send")
      BY <3>3, GotoType DEF Stages
    <3>. QED
      BY <1>8, <3>1, <3>2, <3>3, FinalReadCases
  <2>2. run' \in [Runs -> Processes]
    BY <1>8 DEF FinalRead, TypeOK
  <2>3. armed' \in BOOLEAN
    BY <1>8 DEF FinalRead, Disarm, TypeOK
  <2>. QED
    BY <1>8, <2>1, <2>2, <2>3 DEF FinalRead, TypeOK, platform, Tip
<1>9. ASSUME NEW r \in Runs, Send(r) PROVE TypeOK'
  <2>1. stage' \in [Runs -> Stages] /\ outcome' \in [Runs -> Outcomes]
    BY <1>9, GotoType DEF Send, Stages
  <2>2. run' \in [Runs -> Processes]
    <3>1. run[r].sends + 1 \in 0..Sends
      BY <1>9, BoundsAssumption DEF Send, SendsOK, TypeOK, Processes, BoundsAssumption
    <3>2. \/ run' = [run EXCEPT ![r].sends = run[r].sends + 1]
          \/ \E w \in Responses :
               run' = [run EXCEPT ![r].sends = run[r].sends + 1, ![r].response = w]
      BY <1>9 DEF Send, Responses
    <3>3. CASE run' = [run EXCEPT ![r].sends = run[r].sends + 1]
      BY <3>1, <3>3, ProcessType
    <3>4. ASSUME NEW w \in Responses, run' = [run EXCEPT ![r].sends = run[r].sends + 1, ![r].response = w]
          PROVE  run' \in [Runs -> Processes]
      BY <3>1, <3>4, SentType
    <3>. QED
      BY <3>2, <3>3, <3>4
  <2>3. Auth(r) \in Authorizations
    BY <1>9, AuthTypes DEF Send, Selected, Auth
  <2>4. [run |-> r, base |-> Auth(r).base, head |-> Auth(r).head] \in Updates
    BY <2>3, BoundsAssumption DEF Updates, Authorizations, BoundsAssumption
  <2>5. wire' \subseteq Updates
    BY <1>9, <2>4 DEF Send, TypeOK
  <2>. QED
    BY <1>9, <2>1, <2>2, <2>5 DEF Send, TypeOK, Tip
<1>10. ASSUME NEW r \in Runs, Answered(r) PROVE TypeOK'
  <2>1. stage' \in [Runs -> Stages] /\ outcome' \in [Runs -> Outcomes]
    BY <1>10, GotoType DEF Answered, Stages
  <2>2. run' \in [Runs -> Processes]
    <3>1. run' = run \/ \E w \in Responses : run' = [run EXCEPT ![r].response = w]
      BY <1>10 DEF Answered, Responses
    <3>. QED
      BY <3>1, ProcessType DEF TypeOK
  <2>. QED
    BY <1>10, <2>1, <2>2 DEF Answered, TypeOK, platform, Tip
<1>11. ASSUME NEW r \in Runs, AnswerLost(r) PROVE TypeOK'
  <2>1. stage' \in [Runs -> Stages] /\ outcome' \in [Runs -> Outcomes]
    BY <1>11, GotoType DEF AnswerLost, Stages
  <2>2. run' \in [Runs -> Processes]
    <3>1. run' = run \/ \E w \in Responses : run' = [run EXCEPT ![r].response = w]
      BY <1>11 DEF AnswerLost, Responses
    <3>. QED
      BY <3>1, ProcessType DEF TypeOK
  <2>. QED
    BY <1>11, <2>1, <2>2 DEF AnswerLost, TypeOK, platform, Tip
<1>12. ASSUME NEW r \in Runs, ReadBack(r) PROVE TypeOK'
  <2>1. stage' \in [Runs -> Stages] /\ outcome' \in [Runs -> Outcomes]
    <3>1. CASE Shown /\ ClassifyMerged(r, run[r].known \cup {run[r].auth})
      BY <3>1, ClassifyMergedType
    <3>2. CASE \E k \in Stops : Stop(r, k)
      BY <3>2, StopType
    <3>3. CASE Goto(r, "guard")
      BY <3>3, GotoType DEF Stages
    <3>4. CASE Decide(r, "merged", Tip)
      BY <3>4, DecideType, TipIsNat
    <3>5. NotApplied(r) => \E k \in Stops : Stop(r, k)
      BY DEF NotApplied, Disarm, Stops
    <3>. QED
      BY <1>12, <3>1, <3>2, <3>3, <3>4, <3>5 DEF ReadBack, Stops
  <2>2. run' \in [Runs -> Processes]
    <3>1. run' = run \/ run' = [run EXCEPT ![r].verdict = Verdict(r)]
      BY <1>12 DEF ReadBack
    <3>. QED
      BY <3>1, Classifications, ProcessType DEF TypeOK
  <2>3. armed' \in BOOLEAN
    BY <1>12 DEF ReadBack, NotApplied, Disarm, TypeOK
  <2>. QED
    BY <1>12, <2>1, <2>2, <2>3 DEF ReadBack, TypeOK, platform, Tip
<1>13. ASSUME NEW r \in Runs, Guard(r) PROVE TypeOK'
  <2>1. stage' \in [Runs -> Stages] /\ outcome' \in [Runs -> Outcomes]
    BY <1>13, GotoType DEF Guard, Stages
  <2>2. run' \in [Runs -> Processes]
    <3>1. run' = run \/ \E v \in Verdicts : run' = [run EXCEPT ![r].verdict = v]
      BY <1>13 DEF Guard, Verdicts, Stops
    <3>. QED
      BY <3>1, ProcessType DEF TypeOK
  <2>3. armed' \in BOOLEAN
    BY <1>13 DEF Guard, TypeOK
  <2>. QED
    BY <1>13, <2>1, <2>2, <2>3 DEF Guard, TypeOK, platform, Tip
<1>14. ASSUME NEW r \in Runs, StopAtGuard(r) PROVE TypeOK'
  <2>1. stage' \in [Runs -> Stages] /\ outcome' \in [Runs -> Outcomes]
    BY <1>14, StopType, ClassifyMergedType DEF StopAtGuard, StoppingVerdict
  <2>2. run' \in [Runs -> Processes]
    BY <1>14 DEF StopAtGuard, TypeOK
  <2>. QED
    BY <1>14, <2>1, <2>2 DEF StopAtGuard, TypeOK, platform, Tip
<1>15. ASSUME NEW r \in Runs, VerifyLanded(r) PROVE TypeOK'
  <2>1. stage' \in [Runs -> Stages] /\ outcome' \in [Runs -> Outcomes]
    <3>1. ASSUME NEW i \in Landed(r), Decide(r, "merged", i)
          PROVE  stage' \in [Runs -> Stages] /\ outcome' \in [Runs -> Outcomes]
      <4>1. i \in Nat
        BY DEF Landed
      <4>. QED
        BY <3>1, <4>1, DecideType
    <3>2. CASE Stop(r, "base-drift-post-merge")
      BY <3>2, StopType DEF Stops, Incidents
    <3>. QED
      BY <1>15, <3>1, <3>2 DEF VerifyLanded
  <2>2. run' \in [Runs -> Processes]
    BY <1>15 DEF VerifyLanded, TypeOK
  <2>. QED
    BY <1>15, <2>1, <2>2 DEF VerifyLanded, TypeOK, platform, Tip
<1>16. ASSUME NEW r \in Runs, Record(r) PROVE TypeOK'
  BY <1>16 DEF Record, TypeOK, Stages, platform, Tip
<1>17. ASSUME NEW r \in Runs, Refused(r) PROVE TypeOK'
  <2>1. Blank \in Processes /\ Undecided \in Outcomes /\ "dead" \in Stages
    BY BoundsAssumption
       DEF Blank, Undecided, Processes, Outcomes, Stages, Responses, Verdicts, BoundsAssumption
  <2>2. RunType'
    BY <1>17, <2>1 DEF Refused, Die, TypeOK, RunType
  <2>. QED
    BY <1>17, <2>2 DEF Refused, Die, TypeOK, RunType, platform, Tip
<1>. QED
  BY <1>1, <1>2, <1>3, <1>4, <1>5, <1>6, <1>7, <1>8, <1>9, <1>10, <1>11, <1>12, <1>13, <1>14,
     <1>15, <1>16, <1>17
     DEF Next, Step

-----------------------------------------------------------------------------
(* What a Run left on the branch and in flight.                            *)

Base == /\ TypeOK /\ BranchOK /\ Selected /\ StoppingVerdict
        /\ Fresh /\ SendsOK /\ Open

LEMMA InitBase == Init => Base
<1>. SUFFICES ASSUME Init PROVE Base
  OBVIOUS
<1>1. Tip = 0 /\ mergedAs = 0 /\ Len(auths) = 1 /\ auths[1].base = 0
  BY DEF Init, Tip
<1>2. BranchOK
  BY <1>1 DEF BranchOK
<1>3. \A q \in Runs : stage[q] = "off" /\ run[q].sends = 0 /\ outcome[q].kind = "none"
  BY DEF Init, Blank, Undecided
<1>. QED
  BY <1>2, <1>3, InitType DEF Base, Selected, StoppingVerdict, Fresh, SendsOK, Open

LEMMA StepBase == Base /\ [Next]_vars => Base'
<1>. SUFFICES ASSUME Base, [Next]_vars PROVE Base'
  OBVIOUS
<1>1. TypeOK /\ BranchOK /\ Selected /\ StoppingVerdict /\ Fresh /\ SendsOK /\ Open
  BY DEF Base
<1>2. TypeOK'
  BY <1>1, StepType
<1>3. BranchOK' /\ Selected' /\ StoppingVerdict'
  BY <1>1, BoundsAssumption, StepBranch, StepSelected, StepVerdict
<1>4. Fresh' /\ SendsOK' /\ Open'
  BY <1>1, BoundsAssumption, StepFresh, StepSends, StepOpen
<1>. QED
  BY <1>2, <1>3, <1>4 DEF Base

\* The branch, the authorizations and the intents only grow.
LEMMA Growth ==
  ASSUME Base, [Next]_vars
  PROVE  /\ Tip \in Nat /\ Tip' \in Nat /\ Tip <= Tip' /\ \A i \in 1..Tip : branch'[i] = branch[i]
         /\ 1..Len(auths) \subseteq 1..Len(auths')
         /\ \A a \in 1..Len(auths) : auths'[a] = auths[a]
         /\ intents \subseteq intents'
<1>1. TypeOK /\ BranchOK /\ StoppingVerdict /\ Fresh
  BY DEF Base
<1>2. Tip \in Nat /\ Len(auths) \in Nat
  BY <1>1, TipIsNat DEF TypeOK
<1>3. CASE Calm
  BY <1>2, <1>3 DEF Calm, Tip
<1>4. CASE Foreign
  BY <1>2, <1>4 DEF Foreign
<1>5. CASE Authorize
  BY <1>1, <1>2, <1>5, AuthorizeEffect DEF Tip
<1>6. ASSUME NEW u \in wire, Apply(u)
      PROVE  /\ Tip' \in Nat /\ Tip <= Tip' /\ \A i \in 1..Tip : branch'[i] = branch[i]
             /\ UNCHANGED <<auths, intents>>
  <2>1. Tip' = Tip + 1 /\ \A i \in 1..Tip : branch'[i] = branch[i]
    BY <1>1, <1>6, ApplyEffect
  <2>2. UNCHANGED <<auths, intents>>
    BY <1>6 DEF Apply
  <2>. QED
    BY <1>2, <2>1, <2>2
<1>7. ASSUME NEW r \in Runs, StartRun(r) \/ Crash(r) \/ Step(r)
      PROVE  UNCHANGED <<branch, auths>> /\ intents \subseteq intents'
  BY <1>7
     DEF StartRun, Crash, Die, Step, Select, Verify, WriteIntent, Recheck, FinalRead, Send,
         Answered,
     AnswerLost, ReadBack, Guard, StopAtGuard, VerifyLanded, Record, Refused, platform
<1>. QED
  BY <1>1, <1>2, <1>3, <1>4, <1>5, <1>6, <1>7, StepCases DEF Tip

HasIntent(r, b, h) == \E n \in intents : n.run = r /\ auths[n.auth] = [base |-> b, head |-> h]

\* An update in flight and a landed merge have the parents of an authorization
\* their Run recorded an intent for.
Licensed ==
  /\ \A n \in intents : n.auth \in 1..Len(auths)
  /\ \A u \in wire : HasIntent(u.run, u.base, u.head)
  /\ \A i \in 1..Tip : Ours(i) => HasIntent(branch[i].run, branch[i].base, branch[i].head)

\* Past the intent record a Run has recorded its intent.
Noted ==
  \A q \in Runs :
    stage[q] \in {"recheck", "final", "send", "update", "readback", "guard"}
      => [run |-> q, auth |-> run[q].auth] \in intents

\* A Run at these stages has sent no ref update.
Before == {"off", "select", "verify", "intent", "recheck", "final", "send", "guard", "stopping"}
Nothing(q) == InFlight(q) = {} /\ Landed(q) = {}
Clean ==
  \A q \in Runs :
    /\ stage[q] \in Before => Nothing(q)
    /\ stage[q] = "readback" /\ run[q].response \in {"unknown", "rejected"} => Nothing(q)

\* What a living Run sent has the parents of its authorization.
Owned ==
  \A q \in Runs : stage[q] # "dead" =>
    /\ \A u \in InFlight(q) : u.base = Auth(q).base /\ u.head = Auth(q).head
    /\ \A i \in Landed(q) : branch[i].base = Auth(q).base /\ branch[i].head = Auth(q).head


LEMMA StepNoted ==
  Base /\ Noted /\ [Next]_vars
    => Noted'
<1>. SUFFICES ASSUME Base, Noted, [Next]_vars PROVE Noted'
  OBVIOUS
<1>0. TypeOK /\ BranchOK /\ Selected /\ StoppingVerdict /\ Fresh /\ Open /\ mergedAs <= Tip
  BY DEF Base, BranchOK
<1>1. CASE Calm
  BY <1>1, <1>0, Growth DEF Calm, Tip, Noted
<1>2. CASE Foreign
  BY <1>2, TipIsNat, <1>0, Growth DEF Foreign, Noted
<1>3. CASE Authorize
  BY <1>3, AuthorizeEffect, <1>0, Growth DEF Tip, Noted
<1>4. ASSUME NEW u \in wire, Apply(u) PROVE Noted'
  BY <1>4, ApplyEffect, TipIsNat, <1>0, Growth DEF Noted
<1>5. ASSUME NEW r \in Runs, StartRun(r) PROVE Noted'
  BY <1>5, StartRunEffect, <1>0, Growth
     DEF Tip, platform, Others, SameAuth, SameSends, Undecides, Decides, Noted
<1>6. ASSUME NEW r \in Runs, Crash(r) PROVE Noted'
  BY <1>6, DieEffect, <1>0, Growth
     DEF Tip, platform, Others, SameAuth, SameSends, Undecides, Decides, Noted
<1>7. ASSUME NEW r \in Runs, Select(r) PROVE Noted'
  BY <1>7, SelectEffect, <1>0, Growth
     DEF Tip, platform, Others, SameAuth, SameSends, Undecides, Decides, Noted
<1>8. ASSUME NEW r \in Runs, Verify(r) PROVE Noted'
  BY <1>8, VerifyEffect, <1>0, Growth
     DEF Tip, platform, Others, SameAuth, SameSends, Undecides, Decides, Noted
<1>9. ASSUME NEW r \in Runs, WriteIntent(r) PROVE Noted'
  BY <1>9, WriteIntentEffect, <1>0, Growth
     DEF Tip, platform, Others, SameAuth, SameSends, Undecides, Decides, Noted
<1>10. ASSUME NEW r \in Runs, Recheck(r) PROVE Noted'
  BY <1>10, RecheckEffect, <1>0, Growth
     DEF Tip, platform, Others, SameAuth, SameSends, Undecides, Decides, Noted
<1>11. ASSUME NEW r \in Runs, FinalRead(r) PROVE Noted'
  BY <1>11, FinalReadEffect, <1>0, Growth
     DEF Tip, platform, Others, SameAuth, SameSends, Undecides, Decides, Noted
<1>12. ASSUME NEW r \in Runs, Send(r) PROVE Noted'
  BY <1>12, SendEffect, <1>0, Growth
     DEF Tip, platform, Others, SameAuth, SameSends, Undecides, Decides, Noted
<1>13. ASSUME NEW r \in Runs, Answered(r) PROVE Noted'
  BY <1>13, AnsweredEffect, <1>0, Growth
     DEF Tip, platform, Others, SameAuth, SameSends, Undecides, Decides, Noted
<1>14. ASSUME NEW r \in Runs, AnswerLost(r) PROVE Noted'
  BY <1>14, AnsweredEffect, <1>0, Growth
     DEF Tip, platform, Others, SameAuth, SameSends, Undecides, Decides, Noted
<1>15. ASSUME NEW r \in Runs, ReadBack(r) PROVE Noted'
  BY <1>15, ReadBackEffect, <1>0, Growth
     DEF Tip, platform, Others, SameAuth, SameSends, Undecides, Decides, Noted
<1>16. ASSUME NEW r \in Runs, Guard(r) PROVE Noted'
  BY <1>16, GuardEffect, <1>0, Growth
     DEF Tip, platform, Others, SameAuth, SameSends, Undecides, Decides, Noted
<1>17. ASSUME NEW r \in Runs, StopAtGuard(r) PROVE Noted'
  BY <1>17, StopAtGuardEffect, <1>0, Growth
     DEF Tip, platform, Others, SameAuth, SameSends, Undecides, Decides, Noted
<1>18. ASSUME NEW r \in Runs, VerifyLanded(r) PROVE Noted'
  BY <1>18, VerifyLandedEffect, <1>0, Growth
     DEF Tip, platform, Others, SameAuth, SameSends, Undecides, Decides, Noted
<1>19. ASSUME NEW r \in Runs, Record(r) PROVE Noted'
  BY <1>19, RecordEffect, <1>0, Growth
     DEF Tip, platform, Others, SameAuth, SameSends, Undecides, Decides, Noted
<1>20. ASSUME NEW r \in Runs, Refused(r) PROVE Noted'
  BY <1>20, DieEffect, <1>0, Growth
     DEF Tip, platform, Others, SameAuth, SameSends, Undecides, Decides, Noted
<1>. QED
  BY <1>1, <1>2, <1>3, <1>4, <1>5, <1>6, <1>7, <1>8, <1>9, <1>10, <1>11, <1>12, <1>13, <1>14,
     <1>15, <1>16, <1>17, <1>18, <1>19, <1>20, <1>0, StepCases
     DEF Step

LEMMA StepClean ==
  Base /\ Clean /\ [Next]_vars
    => Clean'
<1>. SUFFICES ASSUME Base, Clean, [Next]_vars PROVE Clean'
  OBVIOUS
<1>0. TypeOK /\ BranchOK /\ Selected /\ StoppingVerdict /\ Fresh /\ Open /\ mergedAs <= Tip
  BY DEF Base, BranchOK
<1>1. CASE Calm
  BY <1>1, <1>0 DEF Calm, Tip, Clean, Before, Nothing, InFlight, Landed
<1>2. CASE Foreign
  BY <1>2, TipIsNat, <1>0 DEF Foreign, Clean, Before, Nothing, InFlight, Landed, Runs
<1>3. CASE Authorize
  BY <1>3, AuthorizeEffect, <1>0 DEF Tip, Clean, Before, Nothing, InFlight, Landed
<1>4. ASSUME NEW u \in wire, Apply(u) PROVE Clean'
  <2>1. /\ u.run \in Runs /\ Tip' = Tip + 1 /\ wire' = wire \ {u}
        /\ \A i \in 1..Tip : branch'[i] = branch[i]
        /\ branch'[Tip + 1] = [by |-> "us", run |-> u.run, base |-> Tip, head |-> u.head]
    BY <1>4, ApplyEffect, <1>0
  <2>0. UNCHANGED <<stage, run>>
    BY <1>4 DEF Apply
  <2>2. u \in InFlight(u.run) /\ ~Nothing(u.run)
    BY DEF InFlight, Nothing
  <2>3. \A q \in Runs \ {u.run} : Nothing(q) => Nothing(q)'
    <3>. SUFFICES ASSUME NEW q \in Runs \ {u.run}, Nothing(q), NEW i \in 1..Tip', branch'[i].run = q
          PROVE  FALSE
      BY <2>1 DEF Nothing, InFlight, Landed
    <3>2. i \in 1..Tip
      BY <2>1, <1>0, TipIsNat
    <3>. QED
      BY <3>2, <2>1 DEF Nothing, Landed
  <2>. QED
    BY <2>0, <2>1, <2>2, <2>3 DEF Clean
<1>5. ASSUME NEW r \in Runs, StartRun(r) PROVE Clean'
  BY <1>5, StartRunEffect, <1>0
     DEF Tip, platform, Others, SameAuth, SameSends, Undecides, Decides, Clean, Before, Nothing,
         InFlight, Landed
<1>6. ASSUME NEW r \in Runs, Crash(r) PROVE Clean'
  BY <1>6, DieEffect, <1>0
     DEF Tip, platform, Others, SameAuth, SameSends, Undecides, Decides, Clean, Before, Nothing,
         InFlight, Landed
<1>7. ASSUME NEW r \in Runs, Select(r) PROVE Clean'
  BY <1>7, SelectEffect, <1>0
     DEF Tip, platform, Others, SameAuth, SameSends, Undecides, Decides, Clean, Before, Nothing,
         InFlight, Landed
<1>8. ASSUME NEW r \in Runs, Verify(r) PROVE Clean'
  BY <1>8, VerifyEffect, <1>0
     DEF Tip, platform, Others, SameAuth, SameSends, Undecides, Decides, Clean, Before, Nothing,
         InFlight, Landed
<1>9. ASSUME NEW r \in Runs, WriteIntent(r) PROVE Clean'
  BY <1>9, WriteIntentEffect, <1>0
     DEF Tip, platform, Others, SameAuth, SameSends, Undecides, Decides, Clean, Before, Nothing,
         InFlight, Landed
<1>10. ASSUME NEW r \in Runs, Recheck(r) PROVE Clean'
  BY <1>10, RecheckEffect, <1>0
     DEF Tip, platform, Others, SameAuth, SameSends, Undecides, Decides, Clean, Before, Nothing,
         InFlight, Landed
<1>11. ASSUME NEW r \in Runs, FinalRead(r) PROVE Clean'
  BY <1>11, FinalReadEffect, <1>0
     DEF Tip, platform, Others, SameAuth, SameSends, Undecides, Decides, Clean, Before, Nothing,
         InFlight, Landed
<1>12. ASSUME NEW r \in Runs, Send(r) PROVE Clean'
  BY <1>12, SendEffect, <1>0
     DEF Tip, platform, Others, SameAuth, SameSends, Undecides, Decides, Clean, Before, Nothing,
         InFlight, Landed
<1>13. ASSUME NEW r \in Runs, Answered(r) PROVE Clean'
  BY <1>13, AnsweredEffect, <1>0
     DEF Tip, platform, Others, SameAuth, SameSends, Undecides, Decides, Clean, Before, Nothing,
         InFlight, Landed
<1>14. ASSUME NEW r \in Runs, AnswerLost(r) PROVE Clean'
  BY <1>14, AnsweredEffect, <1>0
     DEF Tip, platform, Others, SameAuth, SameSends, Undecides, Decides, Clean, Before, Nothing,
         InFlight, Landed
<1>15. ASSUME NEW r \in Runs, ReadBack(r) PROVE Clean'
  BY <1>15, ReadBackEffect, <1>0
     DEF Tip, Others, Undecides, Decides, MayResend, Clean, Before, Nothing, InFlight, Landed
<1>16. ASSUME NEW r \in Runs, Guard(r) PROVE Clean'
  BY <1>16, GuardEffect, <1>0
     DEF Tip, platform, Others, SameAuth, SameSends, Undecides, Decides, Clean, Before, Nothing,
         InFlight, Landed
<1>17. ASSUME NEW r \in Runs, StopAtGuard(r) PROVE Clean'
  BY <1>17, StopAtGuardEffect, <1>0
     DEF Tip, platform, Others, SameAuth, SameSends, Undecides, Decides, Clean, Before, Nothing,
         InFlight, Landed
<1>18. ASSUME NEW r \in Runs, VerifyLanded(r) PROVE Clean'
  BY <1>18, VerifyLandedEffect, <1>0
     DEF Tip, platform, Others, SameAuth, SameSends, Undecides, Decides, Clean, Before, Nothing,
         InFlight, Landed
<1>19. ASSUME NEW r \in Runs, Record(r) PROVE Clean'
  BY <1>19, RecordEffect, <1>0
     DEF Tip, platform, Others, SameAuth, SameSends, Undecides, Decides, Clean, Before, Nothing,
         InFlight, Landed
<1>20. ASSUME NEW r \in Runs, Refused(r) PROVE Clean'
  BY <1>20, DieEffect, <1>0
     DEF Tip, platform, Others, SameAuth, SameSends, Undecides, Decides, Clean, Before, Nothing,
         InFlight, Landed
<1>. QED
  BY <1>1, <1>2, <1>3, <1>4, <1>5, <1>6, <1>7, <1>8, <1>9, <1>10, <1>11, <1>12, <1>13, <1>14,
     <1>15, <1>16, <1>17, <1>18, <1>19, <1>20, <1>0, StepCases
     DEF Step

LEMMA IntentStays ==
  ASSUME Base, Licensed, [Next]_vars, NEW r, NEW b, NEW h, HasIntent(r, b, h)
  PROVE  \E n \in intents' : n.run = r /\ auths'[n.auth] = [base |-> b, head |-> h]
<1>1. PICK n \in intents : n.run = r /\ auths[n.auth] = [base |-> b, head |-> h]
  BY DEF HasIntent
<1>2. n \in intents' /\ auths'[n.auth] = auths[n.auth]
  BY Growth DEF Licensed
<1>. QED
  BY <1>1, <1>2

\* Which steps change what is in flight, landed and recorded.
LEMMA WireCases ==
  ASSUME Base, [Next]_vars
  PROVE  \/ wire' \subseteq wire /\ (Tip' = Tip \/ Foreign)
         \/ \E u \in wire : Apply(u)
         \/ \E r \in Runs : Send(r)
<1>1. Calm => wire' \subseteq wire /\ Tip' = Tip
  BY DEF Calm, Tip
<1>2. Foreign => wire' \subseteq wire
  BY DEF Foreign
<1>3. Authorize => wire' \subseteq wire /\ Tip' = Tip
  BY DEF Authorize, Tip
<1>4. ASSUME NEW r \in Runs, StartRun(r) \/ Crash(r) \/ Step(r), ~Send(r)
      PROVE  wire' \subseteq wire /\ Tip' = Tip
  BY <1>4 DEF StartRun, Crash, Die, Step, Select, Verify, WriteIntent, Recheck, FinalRead, Answered,
     AnswerLost, ReadBack, Guard, StopAtGuard, VerifyLanded, Record, Refused, platform, Tip
<1>. QED
  BY <1>1, <1>2, <1>3, <1>4, StepCases DEF Base

LEMMA IntentCases ==
  ASSUME Base, [Next]_vars
  PROVE  intents' = intents \/ \E r \in Runs : WriteIntent(r)
<1>1. Calm \/ Foreign => intents' = intents
  BY DEF Calm, Foreign
<1>2. Authorize => intents' = intents
  BY DEF Authorize
<1>3. ASSUME NEW u \in wire, Apply(u) PROVE intents' = intents
  BY <1>3 DEF Apply
<1>4. ASSUME NEW r \in Runs, StartRun(r) \/ Crash(r) \/ Step(r), ~WriteIntent(r)
      PROVE  intents' = intents
  BY <1>4 DEF StartRun, Crash, Die, Step, Select, Verify, Recheck, FinalRead, Send, Answered,
     AnswerLost, ReadBack, Guard, StopAtGuard, VerifyLanded, Record, Refused
<1>. QED
  BY <1>1, <1>2, <1>3, <1>4, StepCases DEF Base

LEMMA StepLicensed == Base /\ Noted /\ Licensed /\ [Next]_vars => Licensed'
<1>. SUFFICES ASSUME Base, Noted, Licensed, [Next]_vars PROVE Licensed'
  OBVIOUS
<1>1. ASSUME NEW n \in intents' PROVE n.auth \in 1..Len(auths')
  <2>1. CASE n \in intents
    BY <2>1, Growth DEF Licensed
  <2>2. CASE \E r \in Runs : WriteIntent(r) /\ n = [run |-> r, auth |-> run[r].auth]
    <3>1. PICK r \in Runs : WriteIntent(r) /\ n = [run |-> r, auth |-> run[r].auth]
      BY <2>2
    <3>2. run[r].auth \in 1..Len(auths)
      BY <3>1 DEF WriteIntent, Selected, Base
    <3>. QED
      BY <3>1, <3>2, Growth
  <2>. QED
    BY <2>1, <2>2, IntentCases DEF WriteIntent
<1>2. ASSUME NEW u \in wire'
      PROVE  \E n \in intents' : n.run = u.run /\ auths'[n.auth] = [base |-> u.base, head |-> u.head]
  <2>1. CASE u \in wire
    BY <2>1, IntentStays DEF Licensed
  <2>2. ASSUME NEW r \in Runs, Send(r), u \notin wire
        PROVE  HasIntent(u.run, u.base, u.head)
    <3>1. u = [run |-> r, base |-> Auth(r).base, head |-> Auth(r).head] /\ stage[r] = "send"
      BY <2>2 DEF Send
    <3>2. [run |-> r, auth |-> run[r].auth] \in intents /\ run[r].auth \in 1..Len(auths)
      BY <3>1 DEF Noted, Selected, Base
    <3>3. auths[run[r].auth] \in Authorizations
      BY <3>2, AuthTypes DEF Base
    <3>4. auths[run[r].auth] = [base |-> Auth(r).base, head |-> Auth(r).head]
      BY <3>3 DEF Authorizations, Auth
    <3>. QED
      BY <3>1, <3>2, <3>4 DEF HasIntent
  <2>3. u \in wire \/ \E r \in Runs : Send(r)
    BY WireCases DEF Apply
  <2>. QED
    BY <2>1, <2>2, <2>3, IntentStays
<1>3. ASSUME NEW i \in 1..Tip', branch'[i].by = "us"
      PROVE  \E n \in intents' : /\ n.run = branch'[i].run
                                 /\ auths'[n.auth] = [base |-> branch'[i].base, head |-> branch'[i].head]
  <2>1. CASE i \in 1..Tip
    <3>1. branch'[i] = branch[i]
      BY <2>1, Growth
    <3>2. HasIntent(branch[i].run, branch[i].base, branch[i].head)
      BY <1>3, <2>1, <3>1 DEF Licensed, Ours
    <3>. QED
      BY <3>1, <3>2, IntentStays
  <2>2. ASSUME NEW u \in wire, Apply(u), i \notin 1..Tip
        PROVE  /\ branch'[i].run = u.run /\ branch'[i].base = u.base /\ branch'[i].head = u.head
               /\ HasIntent(u.run, u.base, u.head)
    <3>1. /\ Tip' = Tip + 1 /\ u.base = Tip
          /\ branch'[Tip + 1] = [by |-> "us", run |-> u.run, base |-> Tip, head |-> u.head]
      BY <2>2, ApplyEffect DEF Base
    <3>2. i = Tip + 1
      BY <2>2, <3>1, Growth
    <3>. QED
      BY <3>1, <3>2 DEF Licensed
  <2>3. i \in 1..Tip \/ \E u \in wire : Apply(u)
    <3>1. CASE Foreign
      BY <1>3, <3>1, Growth DEF Foreign
    <3>2. CASE \E r \in Runs : Send(r)
      BY <3>2 DEF Send, Tip
    <3>. QED
      BY <3>1, <3>2, WireCases
  <2>. QED
    BY <2>1, <2>2, <2>3, IntentStays
<1>. QED
  BY <1>1, <1>2, <1>3 DEF Licensed, HasIntent, Ours

LEMMA AuthStays ==
  ASSUME Base, [Next]_vars, NEW q \in Runs, stage'[q] # "dead", stage[q] \notin {"off", "select"}
  PROVE  /\ stage[q] # "dead"
         /\ run[q].auth \in 1..Len(auths) /\ run'[q].auth = run[q].auth
         /\ auths'[run'[q].auth] = auths[run[q].auth]
<1>0. TypeOK /\ BranchOK /\ StoppingVerdict /\ Fresh /\ mergedAs <= Tip
  BY DEF Base, BranchOK
<1>1. stage[q] # "dead" /\ run'[q].auth = run[q].auth
  <2>1. CASE Calm
    BY <2>1 DEF Calm
  <2>2. CASE Foreign
    BY <2>2 DEF Foreign
  <2>3. CASE Authorize
    BY <2>3 DEF Authorize
  <2>4. ASSUME NEW u \in wire, Apply(u) PROVE stage[q] # "dead" /\ run'[q].auth = run[q].auth
    BY <2>4 DEF Apply
  <2>5. ASSUME NEW r \in Runs, StartRun(r) PROVE stage[q] # "dead" /\ run'[q].auth = run[q].auth
    BY <2>5, StartRunEffect, <1>0 DEF Others, SameAuth, SameSends, Undecides, Decides, platform
  <2>6. ASSUME NEW r \in Runs, Crash(r) PROVE stage[q] # "dead" /\ run'[q].auth = run[q].auth
    BY <2>6, DieEffect, <1>0 DEF Others, SameAuth, SameSends, Undecides, Decides, platform
  <2>7. ASSUME NEW r \in Runs, Select(r) PROVE stage[q] # "dead" /\ run'[q].auth = run[q].auth
    BY <2>7, SelectEffect, <1>0 DEF Others, SameAuth, SameSends, Undecides, Decides, platform
  <2>8. ASSUME NEW r \in Runs, Verify(r) PROVE stage[q] # "dead" /\ run'[q].auth = run[q].auth
    BY <2>8, VerifyEffect, <1>0 DEF Others, SameAuth, SameSends, Undecides, Decides, platform
  <2>9. ASSUME NEW r \in Runs, WriteIntent(r) PROVE stage[q] # "dead" /\ run'[q].auth = run[q].auth
    BY <2>9, WriteIntentEffect, <1>0 DEF Others, SameAuth, SameSends, Undecides, Decides, platform
  <2>10. ASSUME NEW r \in Runs, Recheck(r) PROVE stage[q] # "dead" /\ run'[q].auth = run[q].auth
    BY <2>10, RecheckEffect, <1>0 DEF Others, SameAuth, SameSends, Undecides, Decides, platform
  <2>11. ASSUME NEW r \in Runs, FinalRead(r) PROVE stage[q] # "dead" /\ run'[q].auth = run[q].auth
    BY <2>11, FinalReadEffect, <1>0 DEF Others, SameAuth, SameSends, Undecides, Decides, platform
  <2>12. ASSUME NEW r \in Runs, Send(r) PROVE stage[q] # "dead" /\ run'[q].auth = run[q].auth
    BY <2>12, SendEffect, <1>0 DEF Others, SameAuth, SameSends, Undecides, Decides, platform
  <2>13. ASSUME NEW r \in Runs, Answered(r) PROVE stage[q] # "dead" /\ run'[q].auth = run[q].auth
    BY <2>13, AnsweredEffect, <1>0 DEF Others, SameAuth, SameSends, Undecides, Decides, platform
  <2>14. ASSUME NEW r \in Runs, AnswerLost(r) PROVE stage[q] # "dead" /\ run'[q].auth = run[q].auth
    BY <2>14, AnsweredEffect, <1>0 DEF Others, SameAuth, SameSends, Undecides, Decides, platform
  <2>15. ASSUME NEW r \in Runs, ReadBack(r) PROVE stage[q] # "dead" /\ run'[q].auth = run[q].auth
    BY <2>15, ReadBackEffect, <1>0 DEF Others, SameAuth, SameSends, Undecides, Decides, platform
  <2>16. ASSUME NEW r \in Runs, Guard(r) PROVE stage[q] # "dead" /\ run'[q].auth = run[q].auth
    BY <2>16, GuardEffect, <1>0 DEF Others, SameAuth, SameSends, Undecides, Decides, platform
  <2>17. ASSUME NEW r \in Runs, StopAtGuard(r) PROVE stage[q] # "dead" /\ run'[q].auth = run[q].auth
    BY <2>17, StopAtGuardEffect, <1>0 DEF Others, SameAuth, SameSends, Undecides, Decides, platform
  <2>18. ASSUME NEW r \in Runs, VerifyLanded(r)
     PROVE stage[q] # "dead" /\ run'[q].auth = run[q].auth
    BY <2>18, VerifyLandedEffect, <1>0 DEF Others, SameAuth, SameSends, Undecides, Decides, platform
  <2>19. ASSUME NEW r \in Runs, Record(r) PROVE stage[q] # "dead" /\ run'[q].auth = run[q].auth
    BY <2>19, RecordEffect, <1>0 DEF Others, SameAuth, SameSends, Undecides, Decides, platform
  <2>20. ASSUME NEW r \in Runs, Refused(r) PROVE stage[q] # "dead" /\ run'[q].auth = run[q].auth
    BY <2>20, DieEffect, <1>0 DEF Others, SameAuth, SameSends, Undecides, Decides, platform
  <2>. QED
    BY <2>1, <2>2, <2>3, <2>4, <2>5, <2>6, <2>7, <2>8, <2>9, <2>10, <2>11, <2>12, <2>13, <2>14,
       <2>15, <2>16, <2>17, <2>18, <2>19, <2>20, <1>0, StepCases
       DEF Step
<1>2. run[q].auth \in 1..Len(auths)
  BY <1>1 DEF Base, Selected
<1>. QED
  BY <1>1, <1>2, Growth

\* How the outcome of a Run comes about.
LEMMA DecisionCases ==
  ASSUME Base, [Next]_vars, NEW q \in Runs
  PROVE  \/ outcome'[q] = outcome[q]
         \/ outcome'[q].kind \in {"none", "retroactive-authorization"}
         \/ /\ Decides(q) /\ stage'[q] = "record" /\ SameAuth(q)
            /\ stage[q] \in {"verify", "recheck", "final", "readback", "stopping", "landed"}
            /\ UNCHANGED <<branch, wire, auths>>
<1>0. TypeOK /\ BranchOK /\ StoppingVerdict /\ Fresh /\ mergedAs <= Tip
  BY DEF Base, BranchOK
<1>. DEFINE Goal ==
       \/ outcome'[q] = outcome[q]
       \/ outcome'[q].kind \in {"none", "retroactive-authorization"}
       \/ /\ Decides(q) /\ stage'[q] = "record" /\ SameAuth(q)
          /\ stage[q] \in {"verify", "recheck", "final", "readback", "stopping", "landed"}
          /\ UNCHANGED <<branch, wire, auths>>
<1>1. Goal
  <2>1. CASE Calm
    BY <2>1 DEF Calm
  <2>2. CASE Foreign
    BY <2>2 DEF Foreign
  <2>3. CASE Authorize
    BY <2>3 DEF Authorize
  <2>4. ASSUME NEW u \in wire, Apply(u) PROVE Goal
    BY <2>4 DEF Apply
  <2>5. ASSUME NEW r \in Runs, StartRun(r) PROVE Goal
    BY <2>5, StartRunEffect, <1>0 DEF Others, SameAuth, SameSends, Undecides, Decides, platform
  <2>6. ASSUME NEW r \in Runs, Crash(r) PROVE Goal
    BY <2>6, DieEffect, <1>0 DEF Others, SameAuth, SameSends, Undecides, Decides, platform
  <2>7. ASSUME NEW r \in Runs, Select(r) PROVE Goal
    BY <2>7, SelectEffect, <1>0 DEF Others, SameAuth, SameSends, Undecides, Decides, platform
  <2>8. ASSUME NEW r \in Runs, Verify(r) PROVE Goal
    BY <2>8, VerifyEffect, <1>0 DEF Others, SameAuth, SameSends, Undecides, Decides, platform
  <2>9. ASSUME NEW r \in Runs, WriteIntent(r) PROVE Goal
    BY <2>9, WriteIntentEffect, <1>0 DEF Others, SameAuth, SameSends, Undecides, Decides, platform
  <2>10. ASSUME NEW r \in Runs, Recheck(r) PROVE Goal
    BY <2>10, RecheckEffect, <1>0 DEF Others, SameAuth, SameSends, Undecides, Decides, platform
  <2>11. ASSUME NEW r \in Runs, FinalRead(r) PROVE Goal
    BY <2>11, FinalReadEffect, <1>0 DEF Others, SameAuth, SameSends, Undecides, Decides, platform
  <2>12. ASSUME NEW r \in Runs, Send(r) PROVE Goal
    BY <2>12, SendEffect, <1>0 DEF Others, SameAuth, SameSends, Undecides, Decides, platform
  <2>13. ASSUME NEW r \in Runs, Answered(r) PROVE Goal
    BY <2>13, AnsweredEffect, <1>0 DEF Others, SameAuth, SameSends, Undecides, Decides, platform
  <2>14. ASSUME NEW r \in Runs, AnswerLost(r) PROVE Goal
    BY <2>14, AnsweredEffect, <1>0 DEF Others, SameAuth, SameSends, Undecides, Decides, platform
  <2>15. ASSUME NEW r \in Runs, ReadBack(r) PROVE Goal
    BY <2>15, ReadBackEffect, <1>0 DEF Others, SameAuth, SameSends, Undecides, Decides, platform
  <2>16. ASSUME NEW r \in Runs, Guard(r) PROVE Goal
    BY <2>16, GuardEffect, <1>0 DEF Others, SameAuth, SameSends, Undecides, Decides, platform
  <2>17. ASSUME NEW r \in Runs, StopAtGuard(r) PROVE Goal
    BY <2>17, StopAtGuardEffect, <1>0 DEF Others, SameAuth, SameSends, Undecides, Decides, platform
  <2>18. ASSUME NEW r \in Runs, VerifyLanded(r) PROVE Goal
    BY <2>18, VerifyLandedEffect, <1>0 DEF Others, SameAuth, SameSends, Undecides, Decides, platform
  <2>19. ASSUME NEW r \in Runs, Record(r) PROVE Goal
    BY <2>19, RecordEffect, <1>0 DEF Others, SameAuth, SameSends, Undecides, Decides, platform
  <2>20. ASSUME NEW r \in Runs, Refused(r) PROVE Goal
    BY <2>20, DieEffect, <1>0 DEF Others, SameAuth, SameSends, Undecides, Decides, platform
  <2>. QED
    BY <2>1, <2>2, <2>3, <2>4, <2>5, <2>6, <2>7, <2>8, <2>9, <2>10, <2>11, <2>12, <2>13, <2>14,
       <2>15, <2>16, <2>17, <2>18, <2>19, <2>20, <1>0, StepCases
       DEF Step
<1>. QED
  BY <1>1

LEMMA StepOwned == Base /\ Clean /\ Owned /\ [Next]_vars => Owned'
<1>. SUFFICES ASSUME Base, Clean, Owned, [Next]_vars, NEW q \in Runs, stage'[q] # "dead"
     PROVE  /\ \A u \in wire' : u.run = q =>
                 u.base = auths'[run'[q].auth].base /\ u.head = auths'[run'[q].auth].head
            /\ \A i \in 1..Tip' : branch'[i].run = q =>
                 /\ branch'[i].base = auths'[run'[q].auth].base
                 /\ branch'[i].head = auths'[run'[q].auth].head
  BY DEF Owned, InFlight, Landed, Auth
<1>1. ASSUME NEW u \in wire, u.run = q
      PROVE  /\ u.base = auths'[run'[q].auth].base /\ u.head = auths'[run'[q].auth].head
  <2>1. stage[q] \notin {"off", "select"}
    BY <1>1 DEF Clean, Before, Nothing, InFlight
  <2>2. stage[q] # "dead" /\ auths'[run'[q].auth] = Auth(q)
    BY <2>1, AuthStays DEF Auth
  <2>. QED
    BY <1>1, <2>2 DEF Owned, InFlight
<1>2. ASSUME NEW i \in 1..Tip, branch[i].run = q
      PROVE  branch[i].base = auths'[run'[q].auth].base /\ branch[i].head = auths'[run'[q].auth].head
  <2>1. stage[q] \notin {"off", "select"}
    BY <1>2 DEF Clean, Before, Nothing, Landed
  <2>2. stage[q] # "dead" /\ auths'[run'[q].auth] = Auth(q)
    BY <2>1, AuthStays DEF Auth
  <2>. QED
    BY <1>2, <2>2 DEF Owned, Landed
<1>3. CASE wire' \subseteq wire /\ (Tip' = Tip \/ Foreign)
  <2>1. q # 0
    BY DEF Runs
  <2>2. \A i \in 1..Tip' : branch'[i].run = q => i \in 1..Tip /\ branch'[i] = branch[i]
    BY <1>3, <2>1, Growth DEF Foreign
  <2>. QED
    BY <1>1, <1>2, <1>3, <2>2
<1>4. ASSUME NEW u \in wire, Apply(u)
      PROVE  /\ \A v \in wire' : v.run = q =>
                  v.base = auths'[run'[q].auth].base /\ v.head = auths'[run'[q].auth].head
             /\ \A i \in 1..Tip' : branch'[i].run = q =>
                  /\ branch'[i].base = auths'[run'[q].auth].base
                  /\ branch'[i].head = auths'[run'[q].auth].head
  <2>1. /\ u.base = Tip /\ Tip' = Tip + 1 /\ wire' = wire \ {u}
        /\ branch'[Tip + 1] = [by |-> "us", run |-> u.run, base |-> Tip, head |-> u.head]
    BY <1>4, ApplyEffect DEF Base
  <2>2. ASSUME NEW i \in 1..Tip', branch'[i].run = q
        PROVE  /\ branch'[i].base = auths'[run'[q].auth].base
               /\ branch'[i].head = auths'[run'[q].auth].head
    <3>1. CASE i \in 1..Tip
      BY <2>2, <3>1, <1>2, Growth
    <3>2. CASE i = Tip + 1
      BY <2>1, <2>2, <3>2, <1>1
    <3>. QED
      BY <2>1, <3>1, <3>2, Growth
  <2>. QED
    BY <1>1, <2>1, <2>2
<1>5. ASSUME NEW r \in Runs, Send(r)
      PROVE  /\ \A v \in wire' : v.run = q =>
                  v.base = auths'[run'[q].auth].base /\ v.head = auths'[run'[q].auth].head
             /\ \A i \in 1..Tip' : branch'[i].run = q =>
                  /\ branch'[i].base = auths'[run'[q].auth].base
                  /\ branch'[i].head = auths'[run'[q].auth].head
  <2>1. Tip' = Tip /\ branch' = branch /\ auths' = auths
    BY <1>5 DEF Send, Tip
  <2>2. ASSUME NEW v \in wire', v.run = q, v \notin wire
        PROVE  v.base = auths'[run'[q].auth].base /\ v.head = auths'[run'[q].auth].head
    <3>1. v = [run |-> r, base |-> Auth(r).base, head |-> Auth(r).head] /\ r = q
      BY <1>5, <2>2 DEF Send
    <3>2. SameAuth(r)
      BY <1>5, SendEffect DEF Base
    <3>. QED
      BY <2>1, <3>1, <3>2 DEF SameAuth, Auth
  <2>. QED
    BY <1>1, <1>2, <2>1, <2>2
<1>. QED
  BY <1>3, <1>4, <1>5, WireCases

-----------------------------------------------------------------------------
(* What a Run reports.                                                     *)

LEMMA StepMerged ==
  Base /\ Owned /\ MergedIsTrue /\ [Next]_vars => MergedIsTrue'
<1>. SUFFICES ASSUME Base, Owned, MergedIsTrue, [Next]_vars,
                     NEW q \in Runs, outcome'[q].kind = "merged"
     PROVE  LET i == outcome'[q].commit IN
            /\ i \in 1..Tip' /\ branch'[i].by = "us"
            /\ i = auths'[run'[q].auth].base + 1 /\ branch'[i].head = auths'[run'[q].auth].head
  BY DEF MergedIsTrue, Ours, Auth
<1>. DEFINE i == outcome'[q].commit
<1>1. CASE outcome'[q] = outcome[q]
  <2>1. /\ i \in 1..Tip /\ branch[i].by = "us" /\ i = Auth(q).base + 1 /\ branch[i].head = Auth(q).head
    BY <1>1 DEF MergedIsTrue, Ours
  <2>2. stage'[q] \in {"record", "done"}
    BY StepBase DEF Base, Open
  <2>3. stage[q] \in {"record", "done"}
    BY <1>1 DEF Base, Open
  <2>4. auths'[run'[q].auth] = Auth(q)
    BY <2>2, <2>3, AuthStays DEF Auth
  <2>5. branch'[i] = branch[i] /\ i \in 1..Tip'
    BY <2>1, Growth
  <2>. QED
    BY <2>1, <2>4, <2>5
<1>2. CASE /\ Decides(q) /\ stage'[q] = "record" /\ SameAuth(q)
           /\ stage[q] \in {"verify", "recheck", "final", "readback", "stopping", "landed"}
           /\ UNCHANGED <<branch, wire, auths>>
  <2>1. Sound(q, i)
    BY <1>2 DEF Decides
  <2>2. i \in 1..Tip /\ branch[i].base = i - 1
    BY <2>1 DEF Sound, Base, BranchOK
  <2>3. branch[i].by = "us" /\ branch[i].base = Auth(q).base /\ branch[i].head = Auth(q).head
    <3>1. CASE Ours(i) /\ HasAuthorizedParents(i, q)
      BY <3>1 DEF Ours, HasAuthorizedParents
    <3>2. CASE i \in Landed(q)
      <4>1. branch[i].run # 0 /\ branch[i].base = Auth(q).base /\ branch[i].head = Auth(q).head
        BY <1>2, <3>2 DEF Owned, Landed, Runs
      <4>. QED
        BY <2>2, <4>1 DEF Base, BranchOK, Ours
    <3>. QED
      BY <2>1, <3>1, <3>2 DEF Sound
  <2>4. auths'[run'[q].auth] = Auth(q) /\ branch'[i] = branch[i] /\ Tip' = Tip
    BY <1>2 DEF SameAuth, Auth, Tip
  <2>. QED
    BY <2>2, <2>3, <2>4
<1>. QED
  BY <1>1, <1>2, DecisionCases

LEMMA StepBaseDrift ==
  Base /\ Clean /\ Owned /\ BaseDriftIsFinal /\ [Next]_vars => BaseDriftIsFinal'
<1>. SUFFICES ASSUME Base, Clean, Owned, BaseDriftIsFinal, [Next]_vars,
                     NEW q \in Runs, outcome'[q].kind = "base-drift", NEW u \in wire', u.run = q
     PROVE  u.base < Tip'
  BY DEF BaseDriftIsFinal, InFlight
<1>1. CASE outcome'[q] = outcome[q]
  <2>1. stage[q] # "send"
    BY <1>1 DEF Base, Open
  <2>2. u \in wire
    <3>1. CASE \E v \in wire : Apply(v)
      BY <3>1 DEF Apply
    <3>2. ASSUME NEW r \in Runs, Send(r) PROVE u \in wire
      <4>1. r # q /\ wire' \subseteq wire \cup {[run |-> r, base |-> Auth(r).base, head |-> Auth(r).head]}
        BY <2>1, <3>2 DEF Send
      <4>. QED
        BY <4>1
    <3>. QED
      BY <3>1, <3>2, WireCases
  <2>3. u.base < Tip /\ u.base \in Nat
    BY <1>1, <2>2 DEF BaseDriftIsFinal, InFlight, Base, TypeOK, Updates
  <2>. QED
    BY <2>3, Growth
<1>2. CASE /\ Decides(q) /\ stage'[q] = "record" /\ SameAuth(q)
           /\ stage[q] \in {"verify", "recheck", "final", "readback", "stopping", "landed"}
           /\ UNCHANGED <<branch, wire, auths>>
  <2>1. u \in InFlight(q)
    BY <1>2 DEF InFlight
  <2>2. stage[q] \in {"readback", "landed"}
    BY <1>2, <2>1 DEF Clean, Before, Nothing
  <2>3. u.base = Auth(q).base /\ Tip # Auth(q).base
    BY <1>2, <2>1, <2>2 DEF Owned, Decides
  <2>4. Auth(q).base <= Tip /\ Auth(q).base \in Nat
    BY <2>2, AuthTypes DEF Base, Selected, BranchOK, Auth
  <2>. QED
    BY <1>2, <2>3, <2>4, Growth DEF Tip
<1>. QED
  BY <1>1, <1>2, DecisionCases

-----------------------------------------------------------------------------
(* The inductive invariant and the theorems.                               *)

IInv == Base /\ Noted /\ Licensed /\ Clean /\ Owned /\ MergedIsTrue /\ BaseDriftIsFinal

LEMMA InitIInv == Init => IInv
<1>. SUFFICES ASSUME Init PROVE IInv
  OBVIOUS
<1>1. Tip = 0 /\ wire = {} /\ intents = {}
  BY DEF Init, Tip
<1>2. \A q \in Runs : stage[q] = "off" /\ outcome[q].kind = "none"
  BY DEF Init, Undecided
<1>. QED
  BY <1>1, <1>2, InitBase
  DEF IInv, Noted, Licensed, Clean, Owned, MergedIsTrue, BaseDriftIsFinal, Nothing, InFlight, Landed

LEMMA StepIInv == IInv /\ [Next]_vars => IInv'
<1>. SUFFICES ASSUME IInv, [Next]_vars PROVE IInv'
  OBVIOUS
<1>1. Base /\ Noted /\ Licensed /\ Clean /\ Owned /\ MergedIsTrue /\ BaseDriftIsFinal
  BY DEF IInv
<1>2. Base' /\ Noted' /\ Licensed'
  BY <1>1, StepBase, StepNoted, StepLicensed
<1>3. Clean' /\ Owned'
  BY <1>1, StepClean, StepOwned
<1>4. MergedIsTrue' /\ BaseDriftIsFinal'
  BY <1>1, StepMerged, StepBaseDrift
<1>. QED
  BY <1>2, <1>3, <1>4 DEF IInv

LEMMA IInvInvariant == Spec => []IInv
BY InitIInv, StepIInv, PTL DEF Spec

(* The variables keep their types: a Run never sends more than the guarded *)
(* sends it has and never decides what the decision table does not know.   *)
THEOREM TypeCorrect == Spec => []TypeOK
<1>1. IInv => TypeOK
  BY DEF IInv, Base
<1>. QED
  BY <1>1, IInvInvariant, PTL

(* Whatever is lost, delayed, repeated or superseded, a merge of ours on   *)
(* the branch has the parents of an authorization its Run recorded an      *)
(* intent for (the compare-and-swap on the authorized base).               *)
THEOREM MergesAreAuthorized == Spec => []LandedAsAuthorized
<1>1. IInv => LandedAsAuthorized
  <2>. SUFFICES ASSUME IInv, NEW i \in 1..Tip, Ours(i)
       PROVE  /\ branch[i].base = i - 1
              /\ \E n \in intents : /\ n.run = branch[i].run
                                    /\ auths[n.auth] = [base |-> i - 1, head |-> branch[i].head]
    BY DEF LandedAsAuthorized
  <2>1. branch[i].base = i - 1
    BY DEF IInv, Base, BranchOK
  <2>. QED
    BY <2>1 DEF IInv, Licensed, HasIntent
<1>. QED
  BY <1>1, IInvInvariant, PTL

(* What a Run reports as merged is on the branch, as it was authorized.    *)
THEOREM MergedReportsAreTrue == Spec => []MergedIsTrue
<1>1. IInv => MergedIsTrue
  BY DEF IInv
<1>. QED
  BY <1>1, IInvInvariant, PTL

(* After a Run reports base drift nothing of it can land any more.         *)
THEOREM BaseDriftLeavesNothing == Spec => []BaseDriftIsFinal
<1>1. IInv => BaseDriftIsFinal
  BY DEF IInv
<1>. QED
  BY <1>1, IInvInvariant, PTL

(* However often the guard permits a second send, a Run has at most one    *)
(* ref update on its way or on the branch.                                 *)
THEOREM RunSendsOneUpdate == Spec => []OneUpdatePerRun
<1>1. IInv => OneUpdatePerRun
  BY DEF IInv, Clean, Before, Nothing, OneUpdatePerRun
<1>. QED
  BY <1>1, IInvInvariant, PTL
-----------------------------------------------------------------------------
(***************************************************************************)
(* A merge of this Step is not taken for somebody else's.  A Run that      *)
(* takes one over must have read the intent it was sent under: intents of  *)
(* earlier Runs are complete when a Run selects its authorization, a later *)
(* Run keeps this one from recording, and its own it merges after.         *)
(***************************************************************************)
\* The pull request reads merged as a merge of its head.
MergedHead == Shown => mergedAs \in Merges(head)

\* No condition a Run carries with it blames anybody.
Blameless == \A q \in Runs : run[q].verdict \notin Incidents

\* Only the newest Run records intents, and only it is ever done.
NewestWrites ==
  /\ \A n \in intents : n.run <= current
  /\ \A q \in Runs : stage[q] = "done" => q = current

Early == {"verify", "intent", "recheck", "final"}

\* A Run knows the intents of the Runs before it.
Informed ==
  \A q \in Runs : stage[q] \in Early => \A n \in intents : n.run < q => n.auth \in run[q].known

Recognised ==
  \A q \in Runs : outcome[q].kind = "changed-underneath-me" =>
    /\ Shown
    /\ \A n \in intents : n.auth = run[q].auth /\ n.run = branch[mergedAs].run /\ n.run <= q
                            => ~HasAuthorizedParents(mergedAs, q)

OInv == IInv /\ MergedHead /\ Blameless /\ NewestWrites /\ Informed /\ Recognised

\* The record of the pull request follows the branch and then stays.
LEMMA MergedStays ==
  ASSUME Base, MergedHead, [Next]_vars
  PROVE  MergedHead' /\ (Shown => mergedAs' = mergedAs)
<1>1. TypeOK /\ Tip \in Nat /\ Tip' \in Nat /\ Tip <= Tip' /\ \A i \in 1..Tip : branch'[i] = branch[i]
  BY Growth DEF Base
<1>2. CASE UNCHANGED <<head, mergedAs>>
  BY <1>1, <1>2 DEF MergedHead, Shown, Merges
<1>3. CASE PushHead
  BY <1>3 DEF PushHead, MergedHead, Shown
<1>4. CASE TheyMerge
  <2>1. [by |-> "them", run |-> 0, base |-> Tip, head |-> head] \in Commits
    BY <1>1, BoundsAssumption, SMT DEF Commits, TypeOK, BoundsAssumption
  <2>2. Tip' = Tip + 1 /\ branch'[Tip + 1] = [by |-> "them", run |-> 0, base |-> Tip, head |-> head]
    BY <1>1, <1>4, <2>1, AppendBranch DEF TheyMerge
  <2>3. mergedAs' = Tip + 1 /\ head' = head /\ ~Shown
    BY <1>4 DEF TheyMerge
  <2>. QED
    BY <1>1, <2>2, <2>3 DEF MergedHead, Merges
<1>5. CASE Project
  BY <1>5 DEF Project, MergedHead, Merges, Tip
<1>6. \/ UNCHANGED <<head, mergedAs>> \/ PushHead \/ TheyMerge \/ Project
  <2>1. CASE UNCHANGED vars
    BY <2>1 DEF vars, platform
  <2>2. CASE World
    BY <2>2 DEF World, Push, Reassess, Authorize
  <2>3. CASE Answer
    BY <2>3 DEF Answer, Apply, Reject
  <2>4. ASSUME NEW r \in Runs, StartRun(r) \/ Crash(r) \/ Step(r)
        PROVE  UNCHANGED <<head, mergedAs>>
    BY <2>4 DEF StartRun, Crash, Die, Step, Select, Verify, WriteIntent, Recheck, FinalRead, Send,
       Answered, AnswerLost, ReadBack, Guard, StopAtGuard, VerifyLanded, Record, Refused, platform
  <2>. QED
    BY <2>1, <2>2, <2>3, <2>4 DEF Next
<1>. QED
  BY <1>2, <1>3, <1>4, <1>5, <1>6

LEMMA CurrentCases ==
  ASSUME Base, [Next]_vars
  PROVE  /\ current \in Nat /\ current' \in Nat /\ current <= current'
         /\ current' = current \/ \E r \in Runs : StartRun(r)
<1>1. current \in Nat /\ TypeOK /\ TypeOK'
  BY StepBase DEF Base, TypeOK
<1>2. Calm \/ Foreign => current' = current
  BY DEF Calm, Foreign
<1>3. Authorize => current' = current
  BY DEF Authorize
<1>4. ASSUME NEW u \in wire, Apply(u) PROVE current' = current
  BY <1>4 DEF Apply
<1>5. ASSUME NEW r \in Runs, Crash(r) \/ Step(r) PROVE current' = current
  BY <1>5 DEF Crash, Die, Step, Select, Verify, WriteIntent, Recheck, FinalRead, Send,
     Answered, AnswerLost, ReadBack, Guard, StopAtGuard, VerifyLanded, Record, Refused
<1>6. ASSUME NEW r \in Runs, StartRun(r) PROVE current' = current + 1
  BY <1>6 DEF StartRun
<1>. QED
  BY <1>1, <1>2, <1>3, <1>4, <1>5, <1>6, StepCases DEF TypeOK

\* An intent recorded now is of the newest Run.
LEMMA NewIntents ==
  ASSUME Base, [Next]_vars, NEW n \in intents', n \notin intents
  PROVE  n.run \in Runs /\ n.run = current /\ stage[n.run] = "intent" /\ WriteIntent(n.run)
<1>1. PICK r \in Runs : WriteIntent(r)
  BY IntentCases
<1>. QED
  BY <1>1 DEF WriteIntent

LEMMA StepNewest ==
  ASSUME Base, NewestWrites, [Next]_vars
  PROVE  NewestWrites'
<1>1. ASSUME NEW n \in intents' PROVE n.run <= current'
  <2>1. n \in intents => n.run \in Nat
    BY DEF Base, TypeOK, Runs
  <2>. QED
    BY <2>1, CurrentCases, NewIntents DEF NewestWrites
<1>2. ASSUME NEW q \in Runs, stage'[q] = "done" PROVE q = current'
  <2>0. TypeOK /\ Fresh /\ StoppingVerdict /\ mergedAs <= Tip
    BY DEF Base, BranchOK
  <2>1. CASE Calm \/ Foreign \/ Authorize \/ \E u \in wire : Apply(u)
    BY <1>2, <2>1 DEF Calm, Foreign, Authorize, Apply, NewestWrites
  <2>2. ASSUME NEW r \in Runs, StartRun(r) PROVE q = current'
    <3>1. stage[q] = "done"
      BY <1>2, <2>0, <2>2, StartRunEffect DEF Others
    <3>2. q = current /\ current # 0
      BY <3>1 DEF NewestWrites, Runs
    <3>. QED
      BY <2>2, <3>1, <3>2 DEF StartRun
  <2>3. ASSUME NEW r \in Runs, Crash(r) \/ Step(r), ~Record(r) PROVE q = current'
    <3>1. current' = current
      BY <2>3 DEF Crash, Die, Step, Select, Verify, WriteIntent, Recheck, FinalRead, Send,
         Answered, AnswerLost, ReadBack, Guard, StopAtGuard, VerifyLanded, Refused
    <3>2. stage[q] = "done"
      <4>1. Others(r) /\ stage'[r] # "done"
        BY <2>0, <2>3, DieEffect, SelectEffect, VerifyEffect, WriteIntentEffect, RecheckEffect,
           FinalReadEffect, SendEffect, AnsweredEffect, ReadBackEffect, GuardEffect,
           StopAtGuardEffect, VerifyLandedEffect
           DEF Step, Decides
      <4>. QED
        BY <1>2, <4>1 DEF Others
    <3>. QED
      BY <3>1, <3>2 DEF NewestWrites
  <2>4. ASSUME NEW r \in Runs, Record(r) PROVE q = current'
    <3>1. Others(r) /\ current' = current /\ r = current
      BY <2>0, <2>4, RecordEffect DEF Record
    <3>. QED
      BY <1>2, <3>1 DEF Others, NewestWrites
  <2>. QED
    BY <2>0, <2>1, <2>2, <2>3, <2>4, StepCases
<1>. QED
  BY <1>1, <1>2 DEF NewestWrites

\* What a step makes of what a Run knows.
LEMMA RunCases ==
  ASSUME Base, [Next]_vars, NEW q \in Runs
  PROVE  \/ /\ run'[q].known = run[q].known
            /\ run'[q].verdict = run[q].verdict \/ run'[q].verdict \notin Incidents
         \/ Select(q) /\ run'[q].verdict = run[q].verdict
         \/ stage'[q] = "dead" /\ run'[q].verdict \notin Incidents
<1>. DEFINE Goal ==
         \/ /\ run'[q].known = run[q].known
            /\ run'[q].verdict = run[q].verdict \/ run'[q].verdict \notin Incidents
         \/ Select(q) /\ run'[q].verdict = run[q].verdict
         \/ stage'[q] = "dead" /\ run'[q].verdict \notin Incidents
<1>0. TypeOK /\ run \in [Runs -> Processes] /\ \A r \in Runs : Verdict(r) \notin Incidents
  BY DEF Base, TypeOK, Verdict, Classified, Incidents
<1>1. CASE run' = run
  BY <1>1
<1>2. ASSUME NEW r \in Runs, StartRun(r) \/ Verify(r) \/ Send(r) \/ Answered(r) \/ AnswerLost(r)
      PROVE  Goal
  <2>1. \/ run' = run
        \/ \E n : run' = [run EXCEPT ![r].since = n]
        \/ \E n : run' = [run EXCEPT ![r].polls = n]
        \/ \E n : run' = [run EXCEPT ![r].sends = n]
        \/ \E m, n : run' = [run EXCEPT ![r].sends = m, ![r].response = n]
        \/ \E n : run' = [run EXCEPT ![r].response = n]
    BY <1>2 DEF StartRun, Verify, Send, Answered, AnswerLost
  <2>2. ASSUME NEW f \in {"since", "polls", "sends", "response"}, NEW n, run' = [run EXCEPT ![r][f] = n]
        PROVE  run'[q].known = run[q].known /\ run'[q].verdict = run[q].verdict
    BY <1>0, <2>2 DEF Processes
  <2>3. ASSUME NEW m, NEW n, run' = [run EXCEPT ![r].sends = m, ![r].response = n]
        PROVE  run'[q].known = run[q].known /\ run'[q].verdict = run[q].verdict
    BY <1>0, <2>3 DEF Processes
  <2>. QED
    BY <2>1, <2>2, <2>3
<1>3. ASSUME NEW r \in Runs, ReadBack(r) \/ Guard(r) PROVE Goal
  <2>1. \/ run' = run
        \/ \E n : n \notin Incidents /\ run' = [run EXCEPT ![r].verdict = n]
    <3>1. ReadBack(r) => run' = run \/ run' = [run EXCEPT ![r].verdict = Verdict(r)]
      BY DEF ReadBack
    <3>2. Guard(r) => \/ run' = run
                      \/ \E n \in {"superseded-authorization", "deferred-merge-machinery",
                                   "unresolved-mergeability"} : run' = [run EXCEPT ![r].verdict = n]
      BY DEF Guard
    <3>. QED
      BY <1>0, <1>3, <3>1, <3>2 DEF Incidents
  <2>2. run'[q].known = run[q].known
        /\ (run'[q].verdict = run[q].verdict \/ run'[q].verdict \notin Incidents)
    BY <1>0, <2>1 DEF Processes
  <2>. QED
    BY <2>2
<1>4. ASSUME NEW r \in Runs, Select(r) PROVE Goal
  <2>. DEFINE keys == {n.auth : n \in intents}
  <2>1. run' = [run EXCEPT ![r].auth = Len(auths), ![r].known = keys]
    BY <1>4 DEF Select
  <2>. HIDE DEF keys
  <2>2. /\ run'[q].verdict = run[q].verdict /\ (q # r => run'[q].known = run[q].known)
        /\ run'[r].known = keys
    BY <1>0, <2>1 DEF Processes
  <2>. QED
    BY <1>4, <2>2 DEF keys
<1>5. ASSUME NEW r \in Runs, Crash(r) \/ Refused(r) PROVE Goal
  <2>1. /\ run' = [run EXCEPT ![r] = Blank] /\ stage' = [stage EXCEPT ![r] = "dead"]
    BY <1>5 DEF Crash, Refused, Die
  <2>2. Blank.verdict \notin Incidents
    BY DEF Blank, Incidents
  <2>. QED
    BY <1>0, <2>1, <2>2 DEF TypeOK
<1>6. ASSUME NEW r \in Runs,
             WriteIntent(r) \/ Recheck(r) \/ FinalRead(r) \/ StopAtGuard(r) \/ VerifyLanded(r) \/ Record(r)
      PROVE  run' = run
  BY <1>6 DEF WriteIntent, Recheck, FinalRead, StopAtGuard, VerifyLanded, Record
<1>7. Calm \/ Foreign \/ Authorize \/ (\E u \in wire : Apply(u)) => run' = run
  BY DEF Calm, Foreign, Authorize, Apply
<1>. QED
  BY <1>0, <1>1, <1>2, <1>3, <1>4, <1>5, <1>6, <1>7, StepCases DEF Step

\* A Run comes to an early stage by its selection or was at one.
LEMMA EarlyCases ==
  ASSUME Base, [Next]_vars, NEW q \in Runs, stage'[q] \in Early
  PROVE  stage[q] \in Early \/ Select(q)
<1>0. TypeOK /\ Fresh /\ StoppingVerdict /\ mergedAs <= Tip
  BY DEF Base, BranchOK
<1>1. CASE Calm \/ Foreign \/ Authorize \/ \E u \in wire : Apply(u)
  BY <1>1 DEF Calm, Foreign, Authorize, Apply
<1>2. ASSUME NEW r \in Runs, StartRun(r) \/ Crash(r) \/ Step(r), ~Select(r)
      PROVE  Others(r) /\ (stage'[r] \in Early => stage[r] \in Early)
  BY <1>0, <1>2, StartRunEffect, DieEffect, VerifyEffect, WriteIntentEffect, RecheckEffect,
     FinalReadEffect, SendEffect, AnsweredEffect, ReadBackEffect, GuardEffect,
     StopAtGuardEffect, VerifyLandedEffect, RecordEffect
     DEF Step, Decides, Early
<1>3. ASSUME NEW r \in Runs, Select(r) PROVE Others(r)
  BY <1>0, <1>3, SelectEffect
<1>. QED
  BY <1>0, <1>1, <1>2, <1>3, StepCases DEF Others

LEMMA StepBlameless == ASSUME Base, Blameless, [Next]_vars PROVE Blameless'
BY RunCases DEF Blameless

LEMMA StepInformed ==
  ASSUME Base, NewestWrites, Informed, [Next]_vars
  PROVE  Informed'
<1>. SUFFICES ASSUME NEW q \in Runs, stage'[q] \in Early, NEW n \in intents', n.run < q
              PROVE  n.auth \in run'[q].known
  BY DEF Informed
<1>1. n \in intents
  <2>. SUFFICES ASSUME n \notin intents PROVE FALSE
    OBVIOUS
  <2>1. n.run = current /\ current' = current
    BY NewIntents DEF WriteIntent
  <2>2. q <= current'
    BY StepBase, CurrentCases DEF Base, Fresh, Early, Runs
  <2>. QED
    BY <2>1, <2>2, CurrentCases DEF Runs
<1>2. CASE Select(q)
  <2>. DEFINE keys == {m.auth : m \in intents}
  <2>1. run' = [run EXCEPT ![q].auth = Len(auths), ![q].known = keys] /\ n.auth \in keys
    BY <1>1, <1>2 DEF Select
  <2>. HIDE DEF keys
  <2>2. run'[q].known = keys
    BY <2>1 DEF Base, TypeOK, Processes
  <2>. QED
    BY <2>1, <2>2
<1>3. CASE stage[q] \in Early
  <2>1. run'[q].known = run[q].known
    BY <1>3, RunCases DEF Early, Select
  <2>. QED
    BY <1>1, <1>3, <2>1 DEF Informed
<1>. QED
  BY <1>2, <1>3, EarlyCases

\* What a Run saw that now takes a merge for somebody else's.
Blamed(q) ==
  /\ Shown
  /\ ~(/\ head = Auth(q).head /\ Ours(mergedAs)
       /\ stage[q] \notin {"verify", "final"} \/ run[q].auth \in run[q].known)

LEMMA StopKind ==
  ASSUME TypeOK, NEW r \in Runs, NEW k, Stop(r, k)
  PROVE  outcome'[r].kind = k
<1>1. outcome'[r] = [kind |-> k, commit |-> 0]
  BY DecideEffect DEF Stop
<1>. QED
  BY <1>1

LEMMA ClassifyMergedKind ==
  ASSUME TypeOK, NEW r \in Runs, NEW keys, ClassifyMerged(r, keys),
         outcome'[r].kind = "changed-underneath-me"
  PROVE  ~(head = Auth(r).head /\ Ours(mergedAs) /\ run[r].auth \in keys)
<1>. SUFFICES ASSUME head = Auth(r).head, Ours(mergedAs), run[r].auth \in keys PROVE FALSE
  OBVIOUS
<1>1. CASE Decide(r, "merged", mergedAs)
  <2>1. outcome'[r] = [kind |-> "merged", commit |-> mergedAs]
    BY <1>1, DecideEffect
  <2>. QED
    BY <2>1
<1>2. CASE Stop(r, "base-drift-post-merge")
  BY <1>2, StopKind
<1>. QED
  BY <1>1, <1>2 DEF ClassifyMerged

LEMMA IncidentCases ==
  ASSUME Base, Blameless, [Next]_vars, NEW q \in Runs,
         outcome'[q].kind = "changed-underneath-me", outcome'[q] # outcome[q]
  PROVE  Blamed(q) /\ stage[q] \in {"verify", "final", "readback", "stopping"}
<1>0. /\ TypeOK /\ Fresh /\ StoppingVerdict /\ mergedAs <= Tip
      /\ Verdict(q) \notin Incidents /\ Classified(q) \notin Incidents /\ run[q].verdict \notin Incidents
  BY DEF Base, BranchOK, Verdict, Classified, Incidents, Blameless
<1>1. ~(Calm \/ Foreign \/ Authorize \/ \E u \in wire : Apply(u))
  BY DEF Calm, Foreign, Authorize, Apply
<1>2. PICK r \in Runs : StartRun(r) \/ Crash(r) \/ Step(r)
  BY <1>0, <1>1, StepCases
<1>3. r = q /\ (Select(q) \/ Verify(q) \/ Recheck(q) \/ FinalRead(q) \/ ReadBack(q)
                \/ StopAtGuard(q) \/ VerifyLanded(q))
  BY <1>0, <1>2, StartRunEffect, DieEffect, SelectEffect, VerifyEffect, WriteIntentEffect,
     RecheckEffect, FinalReadEffect, SendEffect, AnsweredEffect, ReadBackEffect, GuardEffect,
     StopAtGuardEffect, VerifyLandedEffect, RecordEffect
     DEF Step, Others, Undecides
<1>4. \A k : Stop(q, k) => k = "changed-underneath-me"
  BY <1>0, StopKind
<1>5. \A s : ~Goto(q, s)
  BY DEF Goto
<1>6. \A i : ~Decide(q, "merged", i)
  <2>. SUFFICES ASSUME NEW i, Decide(q, "merged", i) PROVE FALSE
    OBVIOUS
  <2>1. outcome'[q] = [kind |-> "merged", commit |-> i]
    BY <1>0, DecideEffect
  <2>. QED
    BY <2>1
<1>7. CASE Select(q) \/ Recheck(q) \/ VerifyLanded(q)
  BY <1>4, <1>5, <1>6, <1>7 DEF Select, Recheck, VerifyLanded
<1>8. CASE Verify(q)
  <2>1. Shown /\ ClassifyMerged(q, run[q].known)
    <3>1. CASE Verdict(q) \in Stops
      BY <1>0, <1>4, <1>5, <1>8, <3>1 DEF Verify, Disarm, Stops, Incidents
    <3>2. CASE Verdict(q) \in {"ok", "poll", "armed"}
      BY <1>4, <1>5, <1>8, <3>2 DEF Verify, Disarm
    <3>. QED
      BY <3>1, <3>2, Classifications DEF Verdicts
  <2>. QED
    BY <1>0, <1>8, <2>1, ClassifyMergedKind DEF Verify, Blamed
<1>9. CASE FinalRead(q)
  <2>1. Shown /\ ClassifyMerged(q, run[q].known)
    <3>1. CASE Verdict(q) \in Stops
      BY <1>0, <1>4, <1>5, <1>9, <3>1 DEF FinalRead, Disarm, Stops, Incidents
    <3>2. CASE Verdict(q) \in {"ok", "poll", "armed"}
      BY <1>4, <1>5, <1>9, <3>2 DEF FinalRead, Disarm
    <3>. QED
      BY <3>1, <3>2, Classifications DEF Verdicts
  <2>. QED
    BY <1>0, <1>9, <2>1, ClassifyMergedKind DEF FinalRead, Blamed
<1>10. CASE ReadBack(q)
  <2>1. ~NotApplied(q)
    BY <1>0, <1>4 DEF NotApplied, Disarm, Incidents
  <2>2. Shown /\ ClassifyMerged(q, run[q].known \cup {run[q].auth})
    BY <1>4, <1>5, <1>6, <1>10, <2>1 DEF ReadBack
  <2>. QED
    BY <1>0, <1>10, <2>2, ClassifyMergedKind DEF ReadBack, Blamed
<1>11. CASE StopAtGuard(q)
  <2>1. Shown /\ ClassifyMerged(q, run[q].known \cup {run[q].auth})
    BY <1>0, <1>4, <1>11 DEF StopAtGuard, Incidents
  <2>. QED
    BY <1>0, <1>11, <2>1, ClassifyMergedKind DEF StopAtGuard, Blamed
<1>. QED
  BY <1>3, <1>7, <1>8, <1>9, <1>10, <1>11

LEMMA StepRecognised ==
  ASSUME OInv, [Next]_vars
  PROVE  Recognised'
<1>. SUFFICES ASSUME NEW q \in Runs, outcome'[q].kind = "changed-underneath-me"
              PROVE  /\ Shown'
                     /\ \A n \in intents' :
                           n.auth = run'[q].auth /\ n.run = branch'[mergedAs'].run /\ n.run <= q =>
                              ~HasAuthorizedParents(mergedAs, q)'
  BY DEF Recognised
<1>0. /\ Base /\ Clean /\ MergedHead /\ Blameless /\ NewestWrites /\ Informed /\ Recognised
      /\ TypeOK /\ Base'
  BY StepBase DEF OInv, IInv, Base
<1>1. stage[q] \in {"record", "done"} \/ (outcome'[q] # outcome[q] /\ Blamed(q))
  BY <1>0, IncidentCases DEF Base, Open
<1>2. stage[q] \in {"record", "done", "verify", "final", "readback", "stopping"}
  BY <1>0, <1>1, IncidentCases
<1>3. stage'[q] \in {"record", "done"}
  BY <1>0 DEF Base, Open
<1>4. /\ run'[q].auth = run[q].auth /\ auths'[run'[q].auth] = auths[run[q].auth]
  BY <1>0, <1>2, <1>3, AuthStays
<1>5. Shown
  BY <1>0, <1>1, IncidentCases DEF Blamed, Recognised
<1>6. mergedAs' = mergedAs /\ mergedAs \in 1..Tip /\ branch[mergedAs].head = head
  BY <1>0, <1>5, MergedStays DEF MergedHead, Merges
<1>7. branch'[mergedAs'] = branch[mergedAs]
  BY <1>0, <1>6, Growth
<1>8. ASSUME NEW n \in intents', n.run <= q PROVE n \in intents
  <2>. SUFFICES ASSUME n \notin intents PROVE FALSE
    OBVIOUS
  <2>1. n.run \in Runs /\ n.run = current /\ stage[n.run] = "intent"
    BY <1>0, NewIntents
  <2>2. q <= current
    BY <1>0, <1>2, <2>1 DEF Base, Fresh, Runs
  <2>3. n.run = q
    BY <1>8, <2>1, <2>2 DEF Runs
  <2>. QED
    BY <1>2, <2>1, <2>3
<1>9. ASSUME NEW n \in intents, n.auth = run[q].auth, n.run = branch[mergedAs].run, n.run <= q,
             HasAuthorizedParents(mergedAs, q)
      PROVE  FALSE
  <2>1. CASE outcome'[q] = outcome[q]
    BY <1>0, <1>9, <2>1 DEF Recognised
  <2>2. CASE outcome'[q] # outcome[q]
    <3>1. Blamed(q) /\ stage[q] \in {"verify", "final", "readback", "stopping"}
      BY <1>0, <2>2, IncidentCases
    <3>2. head = Auth(q).head
      BY <1>6, <1>9 DEF HasAuthorizedParents
    <3>3. n.run \in Runs /\ n.run # 0
      BY <1>0 DEF TypeOK, Runs
    <3>4. Ours(mergedAs)
      BY <1>0, <1>6, <1>9, <3>3 DEF Base, BranchOK
    <3>5. stage[q] \in {"verify", "final"} /\ run[q].auth \notin run[q].known
      BY <3>1, <3>2, <3>4 DEF Blamed
    <3>6. n.run # q
      BY <1>0, <1>6, <1>9, <3>5 DEF Clean, Before, Nothing, Landed
    <3>7. n.run < q
      BY <1>9, <3>3, <3>6 DEF Runs
    <3>. QED
      BY <1>0, <1>9, <3>5, <3>7 DEF Informed, Early
  <2>. QED
    BY <2>1, <2>2
<1>10. HasAuthorizedParents(mergedAs, q)' => HasAuthorizedParents(mergedAs, q)
  BY <1>4, <1>7 DEF HasAuthorizedParents, Auth
<1>. QED
  BY <1>4, <1>5, <1>6, <1>7, <1>8, <1>9, <1>10 DEF Shown

LEMMA InitOInv == Init => OInv
<1>. SUFFICES ASSUME Init PROVE OInv
  OBVIOUS
<1>1. \A q \in Runs : stage[q] = "off" /\ outcome[q].kind = "none" /\ run[q].verdict = "ok"
  BY DEF Init, Undecided, Blank
<1>2. MergedHead /\ NewestWrites /\ intents = {}
  BY <1>1 DEF Init, MergedHead, Shown, NewestWrites
<1>3. Blameless /\ Informed /\ Recognised
  BY <1>1 DEF Blameless, Incidents, Informed, Early, Recognised
<1>. QED
  BY <1>2, <1>3, InitIInv DEF OInv

LEMMA OInvInvariant == Spec => []OInv
<1>1. OInv /\ [Next]_vars => OInv'
  <2>. SUFFICES ASSUME OInv, [Next]_vars PROVE OInv'
    OBVIOUS
  <2>1. IInv /\ Base /\ MergedHead /\ Blameless /\ NewestWrites /\ Informed
    BY DEF OInv, IInv
  <2>2. IInv' /\ MergedHead'
    BY <2>1, StepIInv, MergedStays
  <2>3. Blameless' /\ NewestWrites' /\ Informed'
    BY <2>1, StepBlameless, StepNewest, StepInformed
  <2>. QED
    BY <2>2, <2>3, StepRecognised DEF OInv
<1>. QED
  BY <1>1, InitOInv, PTL DEF Spec

(* A merge this Step landed is never recorded as somebody else's under the *)
(* same authorization, however many Runs crashed or lost their lease       *)
(* between the ref update and its record.                                  *)
THEOREM OwnMergesAreRecognised == Spec => []OwnMergeIsRecognised
<1>1. OInv => OwnMergeIsRecognised
  <2>. SUFFICES ASSUME OInv, NEW r \in Runs, stage[r] = "done",
                       outcome[r].kind = "changed-underneath-me",
                       NEW n \in intents, n.auth = run[r].auth, n.run = branch[mergedAs].run
                PROVE  ~HasAuthorizedParents(mergedAs, r)
    BY DEF OwnMergeIsRecognised
  <2>1. n.run <= r
    BY DEF OInv, NewestWrites
  <2>. QED
    BY <2>1 DEF OInv, Recognised
<1>. QED
  BY <1>1, OInvInvariant, PTL
-----------------------------------------------------------------------------
(***************************************************************************)
(* MergeExecutor implements ExactMerge.  What stops the updates that are   *)
(* still on their way when the Step has settled is the order of the bases: *)
(* an authorization is based on the tip of its day, a Run takes up none    *)
(* older than the Runs before it did, and a Run that reports a merge or a  *)
(* drift saw the branch past the base of its own.                          *)
(***************************************************************************)
\* A later authorization has no lower base.
Rising ==
  \A a \in 1..Len(auths) : \A b \in 1..Len(auths) : a <= b => auths[a].base <= auths[b].base

\* No Run takes up an older authorization than a Run before it.
Forward ==
  \A q \in Runs : stage[q] \notin {"off", "select", "dead"} =>
    \A n \in intents : n.run < q => n.auth <= run[q].auth

\* A Run that has not come to its intent record has none.
Silent ==
  \A q \in Runs : stage[q] \in {"off", "select", "verify", "intent"} =>
    \A n \in intents : n.run # q

\* A drift that a Run reports, or carries with it, is one.
Drifts ==
  \A q \in Runs :
    \/ outcome[q].kind = "base-drift"
    \/ stage[q] \in {"guard", "stopping"} /\ run[q].verdict = "base-drift"
    => Auth(q).base < Tip

\* One update for each Run, in flight or landed.
Single ==
  \A q \in Runs :
    /\ \A u, v \in InFlight(q) : u = v
    /\ InFlight(q) # {} => Landed(q) = {}

XInv == OInv /\ Rising /\ Forward /\ Silent /\ Drifts /\ Single

LEMMA StepRising == ASSUME Base, Rising, [Next]_vars PROVE Rising'
<1>1. CASE auths' = auths
  BY <1>1 DEF Rising
<1>2. CASE Authorize
  <2>. SUFFICES ASSUME NEW a \in 1..Len(auths'), NEW b \in 1..Len(auths'), a <= b
       PROVE  auths'[a].base <= auths'[b].base
    BY DEF Rising
  <2>1. /\ Len(auths) \in Nat /\ Len(auths') = Len(auths) + 1
        /\ \A i \in 1..Len(auths) : auths'[i] = auths[i]
        /\ auths'[Len(auths) + 1] = [base |-> Tip, head |-> head]
    BY <1>2, AuthorizeEffect DEF Base
  <2>2. \A i \in 1..Len(auths) : auths[i].base <= Tip
    BY DEF Base, BranchOK
  <2>3. Tip \in Nat
    BY TipIsNat DEF Base
  <2>4. CASE b \in 1..Len(auths)
    <3>1. a \in 1..Len(auths)
      BY <2>1, <2>4
    <3>. QED
      BY <2>1, <2>4, <3>1 DEF Rising
  <2>5. CASE b = Len(auths) + 1
    <3>1. auths'[b].base = Tip
      BY <2>1, <2>5
    <3>2. a \in 1..Len(auths) \/ a = b
      BY <2>1, <2>5
    <3>. QED
      BY <2>1, <2>2, <2>3, <3>1, <3>2
  <2>. QED
    BY <2>1, <2>4, <2>5
<1>3. auths' = auths \/ Authorize
  <2>1. Calm \/ Foreign \/ (\E u \in wire : Apply(u)) => auths' = auths
    BY DEF Calm, Foreign, Apply
  <2>2. ASSUME NEW r \in Runs, StartRun(r) \/ Crash(r) \/ Step(r) PROVE auths' = auths
    BY <2>2 DEF StartRun, Crash, Die, Step, Select, Verify, WriteIntent, Recheck, FinalRead, Send,
       Answered, AnswerLost, ReadBack, Guard, StopAtGuard, VerifyLanded, Record, Refused
  <2>. QED
    BY <2>1, <2>2, StepCases DEF Base
<1>. QED
  BY <1>1, <1>2, <1>3

\* A Run leaves the first two stages by its selection, or dies.
LEMMA SelectedCases ==
  ASSUME Base, [Next]_vars, NEW q \in Runs, stage'[q] \notin {"off", "select", "dead"}
  PROVE  stage[q] \notin {"off", "select", "dead"} \/ Select(q)
<1>0. TypeOK /\ Fresh /\ StoppingVerdict /\ mergedAs <= Tip
  BY DEF Base, BranchOK
<1>1. CASE Calm \/ Foreign \/ Authorize \/ \E u \in wire : Apply(u)
  BY <1>1 DEF Calm, Foreign, Authorize, Apply
<1>2. ASSUME NEW r \in Runs, StartRun(r) \/ Crash(r) PROVE Others(r) /\ stage'[r] \in {"select", "dead"}
  BY <1>0, <1>2, StartRunEffect, DieEffect
<1>3. ASSUME NEW r \in Runs, Step(r), ~Select(r), ~Refused(r)
      PROVE  Others(r) /\ stage[r] \notin {"off", "select", "dead"}
  BY <1>0, <1>3, VerifyEffect, WriteIntentEffect, RecheckEffect,
     FinalReadEffect, SendEffect, AnsweredEffect, ReadBackEffect, GuardEffect,
     StopAtGuardEffect, VerifyLandedEffect, RecordEffect
     DEF Step
<1>4. ASSUME NEW r \in Runs, Select(r) PROVE Others(r)
  BY <1>0, <1>4, SelectEffect
<1>5. ASSUME NEW r \in Runs, Refused(r) PROVE Others(r) /\ stage'[r] = "dead"
  BY <1>0, <1>5, DieEffect
<1>. QED
  BY <1>0, <1>1, <1>2, <1>3, <1>4, <1>5, StepCases DEF Others

LEMMA StepForward ==
  ASSUME Base, Licensed, NewestWrites, Forward, [Next]_vars
  PROVE  Forward'
<1>. SUFFICES ASSUME NEW q \in Runs, stage'[q] \notin {"off", "select", "dead"},
                     NEW n \in intents', n.run < q
     PROVE  n.auth <= run'[q].auth
  BY DEF Forward
<1>a. TypeOK /\ TypeOK' /\ Fresh
  BY StepBase DEF Base
<1>b. Len(auths) \in Nat /\ current \in Nat /\ q \in Nat
  BY <1>a, LenProperties DEF TypeOK, Runs
<1>c. n.run \in Nat
  BY <1>a DEF TypeOK, Runs
<1>0. TypeOK /\ Fresh /\ n.run \in Nat /\ q \in Nat /\ current \in Nat /\ Len(auths) \in Nat
  BY <1>a, <1>b, <1>c
<1>1. CASE n \notin intents
  <2>1. n.run = current /\ WriteIntent(n.run) /\ n.run \in Runs
    BY <1>1, NewIntents
  <2>2. stage[q] = "off" /\ q # n.run
    BY <1>0, <2>1 DEF Fresh
  <2>3. stage'[q] = stage[q]
    BY <1>0, <2>1, <2>2, WriteIntentEffect DEF Others
  <2>. QED
    BY <2>2, <2>3
<1>2. CASE n \in intents /\ Select(q)
  <2>1. run'[q].auth = Len(auths) /\ Len(auths) \in Nat
    BY <1>0, <1>2, SelectEffect
  <2>. QED
    BY <1>2, <2>1 DEF Licensed
<1>3. CASE n \in intents /\ stage[q] \notin {"off", "select", "dead"}
  <2>1. run'[q].auth = run[q].auth
    BY <1>3, AuthStays
  <2>. QED
    BY <1>3, <2>1 DEF Forward
<1>. QED
  BY <1>1, <1>2, <1>3, SelectedCases

LEMMA StepSilent == ASSUME Base, Silent, [Next]_vars PROVE Silent'
<1>. SUFFICES ASSUME NEW q \in Runs, stage'[q] \in {"off", "select", "verify", "intent"},
                     NEW n \in intents', n.run = q
     PROVE  FALSE
  BY DEF Silent
<1>0. TypeOK /\ Fresh /\ StoppingVerdict /\ mergedAs <= Tip
  BY DEF Base, BranchOK
<1>1. stage[q] \in {"off", "select", "verify", "intent"}
  <2>1. CASE Calm \/ Foreign \/ Authorize \/ \E u \in wire : Apply(u)
    BY <2>1 DEF Calm, Foreign, Authorize, Apply
  <2>2. ASSUME NEW r \in Runs, StartRun(r) \/ Crash(r) \/ Step(r)
        PROVE  /\ Others(r)
               /\ stage'[r] \in {"off", "select", "verify", "intent"}
                    => stage[r] \in {"off", "select", "verify", "intent"}
    BY <1>0, <2>2, StartRunEffect, DieEffect, SelectEffect, VerifyEffect, WriteIntentEffect,
       RecheckEffect, FinalReadEffect, SendEffect, AnsweredEffect, ReadBackEffect, GuardEffect,
       StopAtGuardEffect, VerifyLandedEffect, RecordEffect
       DEF Step, Decides
  <2>. QED
    BY <1>0, <2>1, <2>2, StepCases DEF Others
<1>2. n \notin intents
  BY <1>1 DEF Silent
<1>3. WriteIntent(q)
  BY <1>2, NewIntents
<1>. QED
  BY <1>0, <1>3, WriteIntentEffect

\* A Run that reports a drift sees it, or was stopped for it by the guard.
LEMMA DriftCases ==
  ASSUME Base, [Next]_vars, NEW q \in Runs,
         outcome'[q].kind = "base-drift", outcome'[q] # outcome[q]
  PROVE  Tip # Auth(q).base \/ (stage[q] = "stopping" /\ run[q].verdict = "base-drift")
<1>0. TypeOK /\ Fresh /\ StoppingVerdict /\ mergedAs <= Tip
  BY DEF Base, BranchOK
<1>1. ~(Calm \/ Foreign \/ Authorize \/ \E u \in wire : Apply(u))
  BY DEF Calm, Foreign, Authorize, Apply
<1>2. PICK r \in Runs : StartRun(r) \/ Crash(r) \/ Step(r)
  BY <1>0, <1>1, StepCases
<1>3. r = q /\ (Select(q) \/ Verify(q) \/ Recheck(q) \/ FinalRead(q) \/ ReadBack(q)
                \/ StopAtGuard(q) \/ VerifyLanded(q))
  BY <1>0, <1>2, StartRunEffect, DieEffect, SelectEffect, VerifyEffect, WriteIntentEffect,
     RecheckEffect, FinalReadEffect, SendEffect, AnsweredEffect, ReadBackEffect, GuardEffect,
     StopAtGuardEffect, VerifyLandedEffect, RecordEffect
     DEF Step, Others, Undecides
<1>4. \A k : Stop(q, k) => k = "base-drift"
  BY <1>0, StopKind
<1>5. \A s : ~Goto(q, s)
  BY DEF Goto
<1>6. \A i : ~Decide(q, "merged", i)
  <2>. SUFFICES ASSUME NEW i, Decide(q, "merged", i) PROVE FALSE
    OBVIOUS
  <2>1. outcome'[q] = [kind |-> "merged", commit |-> i]
    BY <1>0, DecideEffect
  <2>. QED
    BY <2>1
<1>7. \A keys : ~ClassifyMerged(q, keys)
  BY <1>4, <1>6 DEF ClassifyMerged
<1>8. Verdict(q) = "base-drift" \/ Classified(q) = "base-drift" => Tip # Auth(q).base
  BY Classifications
<1>9. CASE Select(q) \/ Recheck(q) \/ VerifyLanded(q)
  BY <1>4, <1>5, <1>6, <1>9 DEF Select, Recheck, VerifyLanded
<1>10. CASE Verify(q)
  <2>1. Verdict(q) \in Stops
    BY <1>4, <1>5, <1>7, <1>10, Classifications DEF Verify, Disarm, Verdicts
  <2>2. Stop(q, Verdict(q))
    BY <1>4, <1>5, <1>7, <1>10, <2>1 DEF Verify, Disarm, Stops, Incidents
  <2>. QED
    BY <1>4, <1>8, <2>2
<1>11. CASE FinalRead(q)
  <2>. SUFFICES ASSUME Tip = Auth(q).base PROVE FALSE
    OBVIOUS
  <2>1. CASE Verdict(q) \in Stops
    BY <1>4, <1>5, <1>7, <1>8, <1>11, <2>1 DEF FinalRead, Disarm, Stops, Incidents
  <2>2. CASE Verdict(q) \in {"ok", "poll", "armed"}
    BY <1>4, <1>5, <1>7, <1>11, <2>2 DEF FinalRead, Disarm
  <2>. QED
    BY <2>1, <2>2, Classifications DEF Verdicts
<1>12. CASE ReadBack(q)
  BY <1>4, <1>5, <1>6, <1>7, <1>8, <1>12 DEF ReadBack, NotApplied, Disarm
<1>13. CASE StopAtGuard(q)
  BY <1>4, <1>7, <1>13 DEF StopAtGuard
<1>. QED
  BY <1>3, <1>9, <1>10, <1>11, <1>12, <1>13

LEMMA VerdictCases ==
  ASSUME Base, [Next]_vars, NEW q \in Runs,
         stage'[q] \in {"guard", "stopping"}, run'[q].verdict = "base-drift"
  PROVE  \/ stage[q] \in {"guard", "stopping"} /\ run[q].verdict = "base-drift"
         \/ stage[q] = "readback" /\ Tip # Auth(q).base
<1>0. TypeOK /\ Fresh /\ StoppingVerdict /\ mergedAs <= Tip /\ run \in [Runs -> Processes]
  BY DEF Base, BranchOK, TypeOK
<1>1. CASE Calm \/ Foreign \/ Authorize \/ \E u \in wire : Apply(u)
  BY <1>1 DEF Calm, Foreign, Authorize, Apply
<1>2. ASSUME NEW r \in Runs, StartRun(r) \/ Crash(r) \/ Step(r), ~ReadBack(r), ~Guard(r)
      PROVE  Others(r) /\ stage'[r] \notin {"guard", "stopping"}
  BY <1>0, <1>2, StartRunEffect, DieEffect, SelectEffect, VerifyEffect, WriteIntentEffect,
     RecheckEffect, FinalReadEffect, SendEffect, AnsweredEffect, StopAtGuardEffect,
     VerifyLandedEffect, RecordEffect
     DEF Step, Decides
<1>3. ASSUME NEW r \in Runs, ReadBack(r), r = q PROVE stage[q] = "readback" /\ Tip # Auth(q).base
  <2>1. stage[q] = "readback" /\ stage'[q] # "record"
    BY <1>3 DEF ReadBack
  <2>2. \A k : ~Stop(q, k)
    BY <1>0, <2>1, DecideEffect DEF Stop
  <2>3. \A k, i : ~Decide(q, k, i)
    BY <1>0, <2>1, DecideEffect
  <2>4. run' = [run EXCEPT ![q].verdict = Verdict(q)]
    BY <1>3, <2>2, <2>3 DEF ReadBack, ClassifyMerged, NotApplied, Disarm
  <2>5. run'[q].verdict = Verdict(q)
    BY <1>0, <2>4 DEF Processes
  <2>. QED
    BY <2>1, <2>5, Classifications
<1>4. ASSUME NEW r \in Runs, Guard(r), r = q PROVE stage[q] = "guard" /\ run[q].verdict = "base-drift"
  <2>1. \/ run' = run
        \/ \E n \in {"superseded-authorization", "deferred-merge-machinery",
                     "unresolved-mergeability"} : run' = [run EXCEPT ![q].verdict = n]
    BY <1>4 DEF Guard
  <2>2. ASSUME NEW n, n # "base-drift", run' = [run EXCEPT ![q].verdict = n] PROVE FALSE
    BY <1>0, <2>2 DEF Processes
  <2>3. run' = run
    BY <2>1, <2>2
  <2>. QED
    BY <1>4, <2>3 DEF Guard
<1>5. ASSUME NEW r \in Runs, ReadBack(r) \/ Guard(r) PROVE Others(r)
  BY <1>0, <1>5, ReadBackEffect, GuardEffect
<1>. QED
  BY <1>0, <1>1, <1>2, <1>3, <1>4, <1>5, StepCases DEF Others

LEMMA StepDrifts == ASSUME Base, Drifts, [Next]_vars PROVE Drifts'
<1>. SUFFICES ASSUME NEW q \in Runs,
                     \/ outcome'[q].kind = "base-drift"
                     \/ stage'[q] \in {"guard", "stopping"} /\ run'[q].verdict = "base-drift"
     PROVE  auths'[run'[q].auth].base < Tip'
  BY DEF Drifts, Auth
<1>1. stage'[q] \in {"record", "done", "guard", "stopping"}
  BY StepBase DEF Base, Open
<1>2. /\ stage[q] \notin {"off", "select", "dead"}
      /\ Auth(q).base < Tip
  <2>1. ASSUME Tip # Auth(q).base, stage[q] \notin {"off", "select", "dead"} PROVE Auth(q).base < Tip
    <3>1. run[q].auth \in 1..Len(auths) /\ Tip \in Nat
      BY <2>1, TipIsNat DEF Base, Selected
    <3>2. Auth(q).base <= Tip /\ Auth(q).base \in Nat
      BY <3>1, AuthTypes DEF Base, BranchOK, Auth
    <3>. QED
      BY <2>1, <3>1, <3>2
  <2>2. CASE outcome'[q].kind = "base-drift" /\ outcome'[q] = outcome[q]
    BY <2>2 DEF Drifts, Base, Open
  <2>3. CASE outcome'[q].kind = "base-drift" /\ outcome'[q] # outcome[q]
    <3>1. stage[q] \in {"verify", "recheck", "final", "readback", "stopping", "landed"}
      BY <2>3, DecisionCases
    <3>. QED
      BY <2>1, <2>3, <3>1, DriftCases DEF Drifts
  <2>4. CASE stage'[q] \in {"guard", "stopping"} /\ run'[q].verdict = "base-drift"
    BY <2>1, <2>4, VerdictCases DEF Drifts
  <2>. QED
    BY <2>2, <2>3, <2>4
<1>3. auths'[run'[q].auth] = Auth(q)
  BY <1>1, <1>2, AuthStays DEF Auth
<1>4. run[q].auth \in 1..Len(auths)
  BY <1>2 DEF Base, Selected
<1>5. Auth(q).base \in Nat
  BY <1>4, AuthTypes DEF Base, Auth
<1>. QED
  BY <1>2, <1>3, <1>5, Growth

LEMMA StepSingle == ASSUME Base, Clean, Single, [Next]_vars PROVE Single'
<1>. SUFFICES ASSUME NEW q \in Runs
     PROVE  /\ \A u, v \in wire' : u.run = q /\ v.run = q => u = v
            /\ \A u \in wire' : \A i \in 1..Tip' : ~(u.run = q /\ branch'[i].run = q)
  BY DEF Single, InFlight, Landed
<1>0. TypeOK /\ Tip \in Nat
  BY TipIsNat DEF Base
<1>1. /\ \A u, v \in wire : u.run = q /\ v.run = q => u = v
      /\ \A u \in wire : \A i \in 1..Tip : ~(u.run = q /\ branch[i].run = q)
  BY DEF Single, InFlight, Landed
<1>2. CASE wire' \subseteq wire /\ Tip' = Tip
  BY <1>1, <1>2, Growth
<1>3. CASE wire' \subseteq wire /\ Foreign
  <2>1. /\ Tip' = Tip + 1 /\ branch'[Tip + 1].run = 0
        /\ \A i \in 1..Tip : branch'[i] = branch[i]
    BY <1>3 DEF Foreign
  <2>2. q # 0
    BY DEF Runs
  <2>3. \A i \in 1..Tip' : branch'[i].run = q => i \in 1..Tip /\ branch[i].run = q
    BY <1>0, <2>1, <2>2
  <2>. QED
    BY <1>1, <1>3, <2>3
<1>4. ASSUME NEW w \in wire, Apply(w)
      PROVE  /\ \A u, v \in wire' : u.run = q /\ v.run = q => u = v
             /\ \A u \in wire' : \A i \in 1..Tip' : ~(u.run = q /\ branch'[i].run = q)
  <2>a. branch'[Tip + 1] = [by |-> "us", run |-> w.run, base |-> Tip, head |-> w.head]
    BY <1>0, <1>4, ApplyEffect
  <2>b. /\ Tip' = Tip + 1 /\ wire' = wire \ {w}
        /\ \A i \in 1..Tip : branch'[i] = branch[i]
    BY <1>0, <1>4, ApplyEffect
  <2>1. /\ Tip' = Tip + 1 /\ wire' = wire \ {w} /\ branch'[Tip + 1].run = w.run
        /\ \A i \in 1..Tip : branch'[i] = branch[i]
    BY <2>a, <2>b
  <2>2. ASSUME NEW u \in wire', u.run = q, NEW i \in 1..Tip', branch'[i].run = q PROVE FALSE
    <3>1. CASE i \in 1..Tip
      BY <1>1, <2>1, <2>2, <3>1
    <3>2. CASE i = Tip + 1
      BY <1>1, <2>1, <2>2, <3>2
    <3>. QED
      BY <1>0, <2>1, <3>1, <3>2
  <2>. QED
    BY <1>1, <2>1, <2>2
<1>5. ASSUME NEW r \in Runs, Send(r)
      PROVE  /\ \A u, v \in wire' : u.run = q /\ v.run = q => u = v
             /\ \A u \in wire' : \A i \in 1..Tip' : ~(u.run = q /\ branch'[i].run = q)
  <2>1. /\ stage[r] = "send" /\ Tip' = Tip /\ branch' = branch
        /\ \/ wire' = wire
           \/ wire' = wire \cup {[run |-> r, base |-> Auth(r).base, head |-> Auth(r).head]}
    BY <1>0, <1>5, SendEffect DEF Tip
  <2>2. /\ \A u \in wire : u.run # r
        /\ \A i \in 1..Tip : branch[i].run # r
    BY <2>1 DEF Clean, Before, Nothing, InFlight, Landed
  <2>. QED
    BY <1>1, <2>1, <2>2
<1>. QED
  BY <1>2, <1>3, <1>4, <1>5, WireCases

LEMMA XInvInvariant == Spec => []XInv
<1>1. Init => XInv
  <2>. SUFFICES ASSUME Init, OInv PROVE XInv
    BY InitOInv
  <2>1. /\ \A q \in Runs : stage[q] = "off" /\ outcome[q].kind = "none"
        /\ wire = {} /\ intents = {} /\ Len(auths) = 1 /\ auths[1].base = 0
    BY DEF Init, Undecided
  <2>2. Rising /\ Forward /\ Silent
    BY <2>1 DEF Rising, Forward, Silent
  <2>3. Drifts /\ Single
    BY <2>1 DEF Drifts, Single, InFlight
  <2>. QED
    BY <2>2, <2>3 DEF XInv
<1>2. OInv /\ XInv /\ [Next]_vars => Rising' /\ Forward' /\ Silent' /\ Drifts' /\ Single'
  BY StepRising, StepForward, StepSilent, StepDrifts, StepSingle DEF XInv, OInv, IInv
<1>3. OInv /\ XInv /\ [Next]_vars /\ OInv' => XInv'
  BY <1>2 DEF XInv
<1>. QED
  BY <1>1, <1>3, OInvInvariant, PTL DEF Spec

-----------------------------------------------------------------------------
(* A step of MergeExecutor is a step of ExactMerge.                        *)

MergeStep == [Exact!MergeNext]_(Exact!mergeVars)
Entries == [run : 0..MaxRuns, base : Nat, head : Nat]

\* A commit as ExactMerge sees it.
Seen(c) == IF c.by = "us" THEN [run |-> c.run, base |-> c.base, head |-> c.head]
           ELSE [run |-> 0, base |-> 0, head |-> 0]

LEMMA TrunkEntries ==
  ASSUME TypeOK
  PROVE  /\ Trunk \in Seq(Entries) /\ Len(Trunk) = Tip /\ Tip \in Nat
         /\ \A i \in 1..Tip : Trunk[i] = Seen(branch[i])
<1>1. Tip \in Nat
  BY TipIsNat
<1>2. \A i \in 1..Tip : Trunk[i] = Seen(branch[i])
  BY DEF Trunk, Seen, Ours
<1>3. \A i \in 1..Tip : branch[i] \in Commits
  BY ElementOfSeq DEF TypeOK, Tip
<1>4. \A i \in 1..Tip : Seen(branch[i]) \in Entries
  BY <1>3, BoundsAssumption, SMT DEF Seen, Entries, Commits, BoundsAssumption
<1>5. Trunk = [i \in 1..Tip |-> Trunk[i]]
  BY DEF Trunk
<1>6. Trunk \in Seq(Entries)
  BY <1>1, <1>2, <1>4, <1>5, IsASeq
<1>7. Len(Trunk) = Tip
  BY <1>1, <1>6, LenProperties DEF Trunk
<1>. QED
  BY <1>1, <1>2, <1>6, <1>7

\* What lands on the branch lands on the trunk.
LEMMA TrunkGrows ==
  ASSUME TypeOK, TypeOK', NEW c, Seen(c) \in Entries,
         Tip' = Tip + 1, branch'[Tip + 1] = c, \A i \in 1..Tip : branch'[i] = branch[i]
  PROVE  Trunk' = Append(Trunk, Seen(c))
<1>. DEFINE longer == Append(Trunk, Seen(c))
<1>1. /\ Trunk \in Seq(Entries) /\ Len(Trunk) = Tip /\ Tip \in Nat
      /\ \A i \in 1..Tip : Trunk[i] = Seen(branch[i])
  BY TrunkEntries
<1>2. (TypeOK => /\ Trunk \in Seq(Entries) /\ Len(Trunk) = Tip /\ Tip \in Nat
                 /\ \A i \in 1..Tip : Trunk[i] = Seen(branch[i]))'
  BY TrunkEntries, PTL
<1>3. /\ Trunk' \in Seq(Entries) /\ Len(Trunk') = Tip + 1
      /\ \A i \in 1..Tip + 1 : Trunk'[i] = Seen(branch'[i])
  BY <1>2
<1>4. /\ longer \in Seq(Entries) /\ Len(longer) = Tip + 1
      /\ \A i \in 1..Tip : longer[i] = Trunk[i]
      /\ longer[Tip + 1] = Seen(c)
  BY <1>1, AppendProperties
<1>. HIDE DEF longer
<1>5. ASSUME NEW i \in 1..Tip + 1 PROVE Trunk'[i] = longer[i]
  <2>1. CASE i \in 1..Tip
    BY <1>1, <1>3, <1>4, <2>1
  <2>2. CASE i = Tip + 1
    BY <1>3, <1>4, <2>2
  <2>. QED
    BY <1>1, <2>1, <2>2
<1>6. Trunk' = longer
  BY <1>3, <1>4, <1>5, SeqEqual
<1>. QED
  BY <1>6 DEF longer

LEMMA TrunkStays == ASSUME branch' = branch PROVE Trunk' = Trunk
BY DEF Trunk, Tip, Ours

\* Only a recorded result changes who is done, and with what.
LEMMA DoneCases ==
  ASSUME Base, [Next]_vars, NEW q \in Runs, ~Record(q)
  PROVE  /\ stage'[q] = "done" <=> stage[q] = "done"
         /\ stage[q] = "done" => outcome'[q] = outcome[q]
<1>0. TypeOK /\ Fresh /\ StoppingVerdict /\ mergedAs <= Tip
  BY DEF Base, BranchOK
<1>1. CASE Calm \/ Foreign \/ Authorize \/ \E u \in wire : Apply(u)
  BY <1>1 DEF Calm, Foreign, Authorize, Apply
<1>2. ASSUME NEW r \in Runs, StartRun(r) \/ Crash(r) \/ Step(r), ~Record(r)
      PROVE  Others(r) /\ stage[r] # "done" /\ stage'[r] # "done"
  <2>1. Crash(r) \/ Refused(r) => stage[r] # "done"
    BY DEF Crash, Refused
  <2>. QED
    BY <1>0, <1>2, <2>1, StartRunEffect, DieEffect, SelectEffect, VerifyEffect, WriteIntentEffect,
       RecheckEffect, FinalReadEffect, SendEffect, AnsweredEffect, ReadBackEffect, GuardEffect,
       StopAtGuardEffect, VerifyLandedEffect
       DEF Step, Decides
<1>3. ASSUME NEW r \in Runs, Record(r) PROVE Others(r)
  BY <1>0, <1>3, RecordEffect
<1>. QED
  BY <1>0, <1>1, <1>2, <1>3, StepCases DEF Others

LEMMA ResultStays ==
  ASSUME Base, [Next]_vars, \A r \in Runs : ~Record(r)
  PROVE  Result' = Result
<1>1. CASE current' = current
  <2>1. current # 0 => current \in Runs
    BY DEF Base, TypeOK, Runs
  <2>2. current # 0 => /\ stage'[current] = "done" <=> stage[current] = "done"
                       /\ stage[current] = "done" => outcome'[current] = outcome[current]
    BY <2>1, DoneCases
  <2>. QED
    BY <1>1, <2>2 DEF Result
<1>2. ASSUME NEW r \in Runs, StartRun(r) PROVE Result' = Result
  <2>1. stage'[r] = "select" /\ current' = r
    BY <1>2, StartRunEffect DEF Base
  <2>. QED
    BY <1>2, <2>1 DEF Result, StartRun
<1>. QED
  BY <1>1, <1>2, CurrentCases

\* A Run that settled on a merge or on a drift left the branch past the bases
\* of all updates still on their way.
LEMMA NothingLands ==
  ASSUME XInv, NEW u \in wire, u.base = Tip,
         current # 0, stage[current] = "done", outcome[current].kind \in {"merged", "base-drift"}
  PROVE  FALSE
<1>1. Base /\ Licensed /\ Owned /\ NewestWrites /\ MergedIsTrue /\ TypeOK
  BY DEF XInv, OInv, IInv, Base
<1>2. current \in Runs /\ run[current].auth \in 1..Len(auths)
  BY <1>1 DEF TypeOK, Runs, Base, Selected
<1>3. Auth(current).base \in Nat /\ Tip \in Nat
  BY <1>1, <1>2, AuthTypes, TipIsNat DEF Auth
<1>4. Auth(current).base < Tip
  <2>1. CASE outcome[current].kind = "merged"
    <3>1. outcome[current].commit \in 1..Tip /\ outcome[current].commit = Auth(current).base + 1
      BY <1>1, <1>2, <2>1 DEF MergedIsTrue
    <3>. QED
      BY <1>3, <3>1
  <2>2. CASE outcome[current].kind = "base-drift"
    BY <1>2, <2>2 DEF XInv, Drifts
  <2>. QED
    BY <2>1, <2>2
<1>5. PICK n \in intents : n.run = u.run /\ auths[n.auth] = [base |-> u.base, head |-> u.head]
  BY <1>1 DEF Licensed, HasIntent
<1>6. n.auth \in 1..Len(auths) /\ n.run \in Nat /\ n.run <= current /\ current \in Nat
  BY <1>1, <1>2 DEF Licensed, NewestWrites, TypeOK, Runs
<1>7. CASE n.run = current
  <2>1. u \in InFlight(current)
    BY <1>5, <1>7 DEF InFlight
  <2>2. u.base = Auth(current).base
    BY <1>1, <1>2, <2>1 DEF Owned
  <2>. QED
    BY <1>3, <1>4, <2>2
<1>8. CASE n.run < current
  <2>1. n.auth <= run[current].auth
    BY <1>2, <1>8 DEF XInv, Forward
  <2>2. auths[n.auth].base <= auths[run[current].auth].base
    BY <1>2, <1>6, <2>1 DEF XInv, Rising
  <2>. QED
    BY <1>3, <1>4, <1>5, <2>2 DEF Auth
<1>. QED
  BY <1>6, <1>7, <1>8

LEMMA ForeignLands ==
  ASSUME TypeOK, TypeOK', Foreign
  PROVE  Exact!OthersLand
<1>1. Trunk' = Append(Trunk, Exact!Alien)
  <2>. DEFINE c == branch'[Tip + 1]
  <2>1. Seen(c) = Exact!Alien
    BY DEF Foreign, Seen, Exact!Alien
  <2>2. Seen(c) \in Entries
    BY <2>1, BoundsAssumption, SMT DEF Exact!Alien, Entries, BoundsAssumption
  <2>3. Trunk' = Append(Trunk, Seen(c))
    BY <2>2, TrunkGrows DEF Foreign
  <2>. QED
    BY <2>1, <2>3
<1>2. UNCHANGED <<auths, intents, current, stage, outcome>>
  BY DEF Foreign
<1>3. Result' = Result
  BY <1>2 DEF Result
<1>. QED
  BY <1>1, <1>2, <1>3 DEF Exact!OthersLand

LEMMA AuthorizeGrants ==
  ASSUME TypeOK, Authorize
  PROVE  Exact!Grant
<1>1. auths' = Append(auths, [base |-> Tip, head |-> head]) /\ head \in 1..MaxHeads
  BY DEF Authorize, TypeOK
<1>2. UNCHANGED <<branch, intents, current, stage, outcome>>
  BY DEF Authorize
<1>3. Result' = Result /\ Trunk' = Trunk
  BY <1>2, TrunkStays DEF Result
<1>4. Len(Trunk) = Tip
  BY TrunkEntries
<1>. QED
  BY <1>1, <1>2, <1>3, <1>4 DEF Exact!Grant

LEMMA ApplyLands ==
  ASSUME XInv, TypeOK', NEW u \in wire, Apply(u)
  PROVE  \E n \in intents : Exact!Land(n)
<1>1. TypeOK /\ Base /\ Licensed /\ Single /\ NewestWrites
  BY DEF XInv, OInv, IInv, Base
<1>2. PICK n \in intents : n.run = u.run /\ auths[n.auth] = [base |-> u.base, head |-> u.head]
  BY <1>1 DEF Licensed, HasIntent
<1>3. u.base = Tip /\ u.run \in Runs /\ u.head \in Nat
  BY <1>1, ApplyEffect DEF TypeOK, Updates
<1>4. UNCHANGED <<auths, intents, current, stage, outcome>>
  BY DEF Apply
<1>5. Result' = Result
  BY <1>4 DEF Result
<1>6. /\ Trunk \in Seq(Entries) /\ Len(Trunk) = Tip /\ Tip \in Nat
      /\ \A i \in 1..Tip : Trunk[i] = Seen(branch[i])
  BY <1>1, TrunkEntries
<1>7. Trunk' = Append(Trunk, [run |-> u.run, base |-> Tip, head |-> u.head])
  <2>. DEFINE c == [by |-> "us", run |-> u.run, base |-> Tip, head |-> u.head]
  <2>1. Seen(c) = [run |-> u.run, base |-> Tip, head |-> u.head]
    BY DEF Seen
  <2>2. Seen(c) \in Entries
    BY <1>3, <1>6, <2>1, SMT DEF Entries, Runs
  <2>3. Tip' = Tip + 1 /\ branch'[Tip + 1] = c /\ \A i \in 1..Tip : branch'[i] = branch[i]
    BY <1>1, ApplyEffect
  <2>. HIDE DEF c
  <2>. QED
    BY <1>1, <2>1, <2>2, <2>3, TrunkGrows
<1>8. \A i \in 1..Len(Trunk) : Trunk[i].run # n.run
  <2>. SUFFICES ASSUME NEW i \in 1..Tip, Seen(branch[i]).run = u.run PROVE FALSE
    BY <1>2, <1>6
  <2>1. branch[i].run = u.run
    BY <1>3 DEF Seen, Runs
  <2>2. u \in InFlight(u.run) /\ i \in Landed(u.run)
    BY <2>1 DEF InFlight, Landed
  <2>. QED
    BY <1>1, <1>3, <2>2 DEF Single
<1>9. ~Exact!IsFinal
  <2>. SUFFICES ASSUME Result.kind \in {"merged", "base-drift"} PROVE FALSE
    BY DEF Exact!IsFinal
  <2>1. current # 0 /\ stage[current] = "done" /\ outcome[current].kind \in {"merged", "base-drift"}
    BY DEF Result
  <2>. QED
    BY <1>3, <2>1, NothingLands
<1>10. Exact!Land(n)
  BY <1>2, <1>3, <1>4, <1>5, <1>6, <1>7, <1>8, <1>9 DEF Exact!Land
<1>. QED
  BY <1>10

LEMMA IntentAnnounces ==
  ASSUME XInv, [Next]_vars, NEW r \in Runs, WriteIntent(r)
  PROVE  Exact!Announce(r)
<1>1. TypeOK /\ Base /\ Licensed /\ NewestWrites
  BY DEF XInv, OInv, IInv, Base
<1>2. stage[r] = "intent" /\ r = current /\ intents' = intents \cup {[run |-> r, auth |-> run[r].auth]}
      /\ UNCHANGED <<branch, auths>>
  BY DEF WriteIntent, platform
<1>3. run[r].auth \in 1..Len(auths)
  BY <1>1, <1>2 DEF Base, Selected
<1>4. ASSUME NEW n \in intents PROVE n.run < r /\ n.auth <= run[r].auth
  <2>1. n.run # r /\ n.run <= r /\ n.run \in Nat /\ r \in Nat
    BY <1>1, <1>2 DEF XInv, Silent, NewestWrites, TypeOK, Runs
  <2>2. n.run < r
    BY <2>1
  <2>. QED
    BY <1>2, <2>2 DEF XInv, Forward
<1>5. Result = Exact!Unsettled
  BY <1>2 DEF Result, Exact!Unsettled
<1>6. Trunk' = Trunk
  BY <1>2, TrunkStays
<1>7. Result' = Result
  <2>1. \A q \in Runs : ~Record(q)
    BY <1>1, <1>2, WriteIntentEffect, RecordEffect DEF Others
  <2>. QED
    BY <1>1, <2>1, ResultStays
<1>. QED
  BY <1>2, <1>3, <1>4, <1>5, <1>6, <1>7 DEF Exact!Announce

LEMMA RecordSettles ==
  ASSUME XInv, NEW r \in Runs, Record(r)
  PROVE  Result'.run = r /\ Exact!Settle(r, Result'.kind, Result'.commit)
<1>1. TypeOK /\ Base /\ NewestWrites /\ MergedIsTrue
  BY DEF XInv, OInv, IInv, Base
<1>2. stage[r] = "record" /\ r = current /\ r # 0 /\ stage'[r] = "done"
      /\ UNCHANGED <<branch, auths, intents, current, outcome>>
  <2>1. stage'[r] = "done"
    BY <1>1, RecordEffect
  <2>. QED
    BY <2>1 DEF Record, platform, Runs
<1>3. Result = Exact!Unsettled
  BY <1>2 DEF Result, Exact!Unsettled
<1>4. Result' = [run |-> r, kind |-> outcome[r].kind, commit |-> outcome[r].commit]
  BY <1>2 DEF Result
<1>5. Trunk' = Trunk
  BY <1>2, TrunkStays
<1>6. \A n \in intents : n.run <= r
  BY <1>1, <1>2 DEF NewestWrites
<1>7. run[r].auth \in 1..Len(auths) /\ auths[run[r].auth] \in Authorizations
  BY <1>1, <1>2, AuthTypes DEF Base, Selected
<1>8. /\ Len(Trunk) = Tip /\ Tip \in Nat
      /\ \A i \in 1..Tip : Trunk[i] = Seen(branch[i]) /\ branch[i] \in Commits
  BY <1>1, TrunkEntries, ElementOfSeq DEF TypeOK, Tip
<1>9. ASSUME outcome[r].kind = "merged"
      PROVE  LET i == outcome[r].commit IN
             /\ i \in 1..Len(Trunk) /\ Trunk[i].run \in Runs
             /\ \E a \in 1..Len(auths) : auths[a] = [base |-> i - 1, head |-> Trunk[i].head]
  <2>. DEFINE i == outcome[r].commit
              a == run[r].auth
  <2>1. i \in 1..Tip /\ Ours(i) /\ i = auths[a].base + 1 /\ branch[i].head = auths[a].head
    BY <1>1, <1>9 DEF MergedIsTrue, Auth
  <2>2. branch[i].by = "us" /\ branch[i].run # 0 /\ branch[i].run \in 0..MaxRuns
    BY <1>1, <1>8, <2>1 DEF Ours, Base, BranchOK, Commits
  <2>3. Trunk[i] = [run |-> branch[i].run, base |-> branch[i].base, head |-> branch[i].head]
    BY <1>8, <2>1, <2>2 DEF Seen
  <2>4. auths[a] = [base |-> auths[a].base, head |-> auths[a].head] /\ auths[a].base \in Nat
    BY <1>7 DEF Authorizations
  <2>5. auths[a].base = i - 1
    BY <2>1, <2>4
  <2>6. branch[i].run \in Runs
    BY <2>2, BoundsAssumption DEF Runs, BoundsAssumption
  <2>. HIDE DEF i, a
  <2>7. auths[a] = [base |-> i - 1, head |-> Trunk[i].head] /\ Trunk[i].run \in Runs
    BY <2>1, <2>3, <2>4, <2>5, <2>6
  <2>. QED
    BY <1>7, <1>8, <2>1, <2>7 DEF i, a
<1>10. ASSUME outcome[r].kind = "base-drift"
       PROVE  \E a \in 1..Len(auths) : auths[a].base < Len(Trunk)
  BY <1>7, <1>8, <1>10 DEF XInv, Drifts, Auth
<1>11. Result'.run = r /\ Result'.kind = outcome[r].kind /\ Result'.commit = outcome[r].commit
  BY <1>4
<1>. QED
  BY <1>2, <1>3, <1>4, <1>5, <1>6, <1>9, <1>10, <1>11 DEF Exact!Settle

LEMMA InitMerges == Init => Exact!MergeInit
<1>. SUFFICES ASSUME Init PROVE Exact!MergeInit
  OBVIOUS
<1>1. Tip = 0 /\ auths = <<[base |-> 0, head |-> 1]>> /\ 1 \in 1..MaxHeads /\ intents = {}
  BY BoundsAssumption DEF Init, Tip, BoundsAssumption
<1>2. Result = Exact!Unsettled
  BY DEF Init, Result, Exact!Unsettled
<1>3. Trunk = <<>>
  <2>1. TypeOK
    BY InitType
  <2>2. Trunk \in Seq(Entries) /\ Len(Trunk) = 0
    BY <1>1, <2>1, TrunkEntries
  <2>. QED
    BY <2>2, EmptySeq
<1>. QED
  BY <1>1, <1>2, <1>3 DEF Exact!MergeInit

LEMMA NextMerges == XInv /\ [Next]_vars => MergeStep
<1>. SUFFICES ASSUME XInv, [Next]_vars PROVE MergeStep
  OBVIOUS
<1>1. Base /\ TypeOK /\ TypeOK'
  BY StepBase DEF XInv, OInv, IInv, Base
<1>2. CASE Foreign
  BY <1>1, <1>2, ForeignLands DEF MergeStep, Exact!MergeNext
<1>3. CASE Authorize
  BY <1>1, <1>3, AuthorizeGrants DEF MergeStep, Exact!MergeNext
<1>4. ASSUME NEW u \in wire, Apply(u) PROVE MergeStep
  BY <1>1, <1>4, ApplyLands DEF MergeStep, Exact!MergeNext
<1>5. ASSUME NEW r \in Runs, WriteIntent(r) PROVE MergeStep
  BY <1>5, IntentAnnounces DEF MergeStep, Exact!MergeNext
<1>6. ASSUME NEW r \in Runs, Record(r) PROVE MergeStep
  BY <1>6, RecordSettles DEF MergeStep, Exact!MergeNext
<1>7. ASSUME UNCHANGED <<branch, auths, intents>>, \A r \in Runs : ~Record(r) PROVE MergeStep
  <2>1. Trunk' = Trunk /\ Result' = Result
    BY <1>1, <1>7, TrunkStays, ResultStays
  <2>. QED
    BY <1>7, <2>1 DEF MergeStep, Exact!mergeVars
<1>8. Calm => UNCHANGED <<branch, auths, intents>>
  BY DEF Calm
<1>9. ASSUME NEW r \in Runs, StartRun(r) \/ Crash(r) \/ Step(r), ~WriteIntent(r)
      PROVE  UNCHANGED <<branch, auths, intents>>
  BY <1>9 DEF StartRun, Crash, Die, Step, Select, Verify, Recheck, FinalRead, Send, Answered,
     AnswerLost, ReadBack, Guard, StopAtGuard, VerifyLanded, Record, Refused, platform
<1>. QED
  BY <1>1, <1>2, <1>3, <1>4, <1>5, <1>6, <1>7, <1>8, <1>9, StepCases

(* The executor keeps the promise of an exact-head authorization: however  *)
(* many Runs die or outlive their lease and however late the platform acts *)
(* on what they sent, each lands at most one commit, on the base and with  *)
(* the head it announced; the Step settles once, and after it settled as   *)
(* merged or on a drifted base nothing of it lands any more.               *)
THEOREM ExactMergeImplemented == Spec => MergeRefined
<1>1. Init => Exact!MergeInit
  BY InitMerges
<1>2. XInv /\ [Next]_vars => [Exact!MergeNext]_(Exact!mergeVars)
  BY NextMerges DEF MergeStep
<1>. QED
  BY <1>1, <1>2, XInvInvariant, PTL DEF Spec, MergeRefined, Exact!MergeSpec
=============================================================================
