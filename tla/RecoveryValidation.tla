-------------------------- MODULE RecoveryValidation --------------------------
(***************************************************************************)
(* The classification of one recoverable merge stop: after the executor    *)
(* stopped on a moved base (or a failed check), a worker tick decides      *)
(* whether the control plane repairs the stop by itself, waits, or hands   *)
(* it to the operator with a card.                                         *)
(*                                                                         *)
(* A tick reads the durable facts, reads GitHub, and decides again under   *)
(* the mutex of the Chain; each of these is a step, and between them the   *)
(* Chain is held, a Run starts, the facts change, or the process dies.     *)
(* What a failed tick costs is accounted per class of failure.             *)
(***************************************************************************)
EXTENDS Naturals, FiniteSets

CONSTANTS
    Ceiling,           \* [Class -> Nat \ {0}], the ceilings, in units of the first backoff
    BackoffCap,        \* the longest hold, in the same unit
    MaxRecoveries,     \* automatic recoveries of one merge
    MaxTries,          \* bound: a failure counter stops here
    MaxRevalidations,  \* bound: times the operator resets a ceiling
    MaxDeaths          \* bound: ticks that end early

\* The third class of the code, validation, is one no step of the tick raises.
Class == {"waiting", "transport"}

ASSUME RecoveryAssumption ==
    /\ Ceiling \in [Class -> Nat \ {0}]
    /\ BackoffCap \in Nat \ {0}
    /\ MaxRecoveries \in Nat
    /\ MaxTries \in Nat \ {0}
    /\ 2^(MaxTries - 1) >= BackoffCap
    /\ MaxRevalidations \in Nat
    /\ MaxDeaths \in Nat

Choices == {"re-validate", "abandon", "re-authorize"}
Conditions == {"base-drift", "other"}  \* other: mergeability and checks

\* STOP_CHOICES, the card of a condition; CeilingChoices, the wider card.
StopChoices ==
    [s \in Conditions |-> IF s = "base-drift" THEN {"abandon"} ELSE {"re-authorize", "abandon"}]
CeilingChoices == {"re-validate", "abandon"}
AnswerableChoices ==
    [s \in Conditions |->
        IF s = "base-drift" THEN CeilingChoices \cup StopChoices[s] ELSE StopChoices[s]]

VARIABLES
    stop,     \* the recorded stop, fixed: its condition, whether it is bound to
              \* an executor Run, and whether a failed check caused it
    spent,    \* automatic recoveries the merge used before this stop, fixed
    attempt,  \* the MergeRecoveryAttempt row
    card,     \* the stop questions, by generation
    task,     \* the integrator Task: in REVIEW, DONE, or refreshed by the operator
    chain,    \* what others decide: HELD, an active Run, the durable facts
    tick,     \* where the worker is, and what it judged
    deaths,   \* ticks that ended early
    fresh     \* history: time since the attempt opened or its class was reset

vars == <<stop, spent, attempt, card, task, chain, tick, deaths, fresh>>

Generations == 0..MaxRevalidations
Unasked == [state |-> "none", offers |-> {}]
Idle == [at |-> "idle", verdict |-> "none"]
Clear == [c \in Class |-> 0]

Init ==
    /\ stop \in {s \in [condition : Conditions, bound : BOOLEAN, ci : BOOLEAN] :
                    s.ci => s.condition = "other"}
    /\ spent \in 0..MaxRecoveries
    /\ attempt = [status |-> "NONE", refusal |-> "none", gen |-> 0, hold |-> 0,
                  tries |-> Clear, age |-> Clear]
    /\ card = [g \in Generations |-> Unasked]
    /\ task = "REVIEW"
    /\ chain \in [held : {FALSE}, active : BOOLEAN, fit : BOOLEAN]
    /\ tick = Idle
    /\ deaths = 0
    /\ fresh = Clear

Verdicts == Class \cup {"ineligible"}
Judged(v) == [at |-> "settle", verdict |-> v]
At(place) == [at |-> place, verdict |-> "none"]
Undecided == attempt.status \in {"NONE", "VALIDATING"}

(*************************** The operator's card ***************************)

\* openStopQuestion: one card for each generation of the attempt.
\* Mutant: the generation is left out of the key.
QuestionKey_NoGeneration(a) == 0
QuestionKey(a) == a.gen

Asked(a, choices) ==
    LET g == QuestionKey(a) IN
    IF card[g].state = "none"
    THEN [card EXCEPT ![g] = [state |-> "open", offers |-> choices]]
    ELSE card

Closed == [g \in Generations |->
              IF card[g].state = "open" THEN [card[g] EXCEPT !.state = "closed"] ELSE card[g]]

\* exhaust and the question: the attempt is settled and the operator asked.
Settle(a, refusal) ==
    /\ attempt' = [a EXCEPT !.status = "FAILED", !.refusal = refusal]
    /\ card' = Asked(a, IF refusal \in Class THEN CeilingChoices ELSE StopChoices[stop.condition])
    /\ task' = "REVIEW"

(********************************* The tick ********************************)

\* classifyCandidate: what is wrong with the stop itself comes before the
\* active Run, and everything else after it.
TickReads ==
    /\ tick.at = "idle"
    /\ task = "REVIEW" /\ ~chain.held
    /\ Undecided /\ attempt.hold = 0
    /\ \/ ~stop.bound /\ tick' = Judged("ineligible")
       \/ stop.bound /\ chain.active /\ tick' = Judged("waiting")
       \/ stop.bound /\ ~chain.active /\ ~chain.fit /\ tick' = Judged("ineligible")
       \/ stop.bound /\ ~chain.active /\ chain.fit /\ tick' = At("inspect")
    /\ UNCHANGED <<stop, spent, attempt, card, task, chain, deaths, fresh>>

\* ensureRecoveryValidation
Ensured == IF attempt.status = "NONE" THEN [attempt EXCEPT !.status = "VALIDATING"] ELSE attempt

OpenAttempt ==
    /\ tick.at = "inspect"
    /\ attempt' = Ensured
    /\ tick' = IF Ensured.status = "VALIDATING" THEN At("reading") ELSE Idle
    /\ UNCHANGED <<stop, spent, card, task, chain, deaths, fresh>>

\* The pull request, the ancestry of its base and the logs of a failed check.
ReadRepository ==
    /\ tick.at = "reading"
    /\ tick' \in {Judged("transport"), Judged("ineligible"), At("queueing")}
    /\ UNCHANGED <<stop, spent, attempt, card, task, chain, deaths, fresh>>

\* queueRecovery: everything read before is read again under the mutex.
MayQueue == tick.at = "queueing" /\ ~chain.held /\ attempt.status = "VALIDATING"
StillFits == ~chain.active /\ chain.fit /\ task = "REVIEW"

QueueSkips ==
    /\ tick.at = "queueing"
    /\ chain.held \/ attempt.status # "VALIDATING"
    /\ tick' = Idle
    /\ UNCHANGED <<stop, spent, attempt, card, task, chain, deaths, fresh>>

\* The facts changed, or the Regression Run was refused or its birth threw.
QueueFails ==
    /\ MayQueue
    /\ \/ chain.active /\ tick' = Judged("waiting")
       \/ ~chain.active /\ ~StillFits /\ tick' = Judged("ineligible")
       \/ StillFits /\ spent < MaxRecoveries /\ tick' = Judged("ineligible")
    /\ UNCHANGED <<stop, spent, attempt, card, task, chain, deaths, fresh>>

\* The recoveries are used up, or a check failed again on the same head.
QueueExhausts ==
    /\ MayQueue /\ StillFits
    /\ spent >= MaxRecoveries \/ (stop.ci /\ spent > 0)
    /\ Settle(attempt, "none")
    /\ tick' = Idle
    /\ UNCHANGED <<stop, spent, chain, deaths, fresh>>

\* enterRepair: every open question closes and a Regression Run is queued.
QueueRepairs ==
    /\ MayQueue /\ StillFits /\ spent < MaxRecoveries
    /\ attempt' = [attempt EXCEPT !.status = "REPAIRING"]
    /\ card' = Closed
    /\ tick' = Idle
    /\ UNCHANGED <<stop, spent, task, chain, deaths, fresh>>

(*************************** What a verdict costs **************************)

\* Only the worker decides an attempt that is not FAILED, and one tick runs at
\* a time: the verdict of a tick that was not cut short always finds its attempt
\* VALIDATING, or not there yet when the first facts already decided.

\* retryBackoffMs, from the counter after the failure
Backoff(n) == IF 2^(n - 1) \in 0..BackoffCap THEN 2^(n - 1) ELSE BackoffCap

\* Mutant: every failure restarts the clock of its class.
Failed_RestartsClock(a, c) ==
    [a EXCEPT !.tries[c] = IF @ = MaxTries THEN @ ELSE @ + 1, !.age[c] = 0]

\* The counter and the first failure of a class: the clock starts with it.
Failed(a, c) == [a EXCEPT !.tries[c] = IF @ = MaxTries THEN @ ELSE @ + 1]

\* recordRecoveryClassificationRetry checks neither the hold nor the Task.
Retries(c) ==
    LET a == Failed(Ensured, c) IN
    /\ tick = Judged(c)
    /\ Ensured.status = "VALIDATING"
    /\ a.age[c] < Ceiling[c]
    /\ attempt' = [a EXCEPT !.hold = Backoff(a.tries[c])]
    /\ tick' = Idle
    /\ UNCHANGED <<stop, spent, card, task, chain, deaths, fresh>>

CrossesCeiling(c) ==
    LET a == Failed(Ensured, c) IN
    /\ tick = Judged(c)
    /\ Ensured.status = "VALIDATING"
    /\ a.age[c] >= Ceiling[c]
    /\ Settle([a EXCEPT !.hold = 0], c)
    /\ tick' = Idle
    /\ UNCHANGED <<stop, spent, chain, deaths, fresh>>

\* settleIneligible
Refuses ==
    /\ tick = Judged("ineligible")
    /\ task = "REVIEW" /\ Undecided
    /\ Settle(Ensured, "none")
    /\ tick' = Idle
    /\ UNCHANGED <<stop, spent, chain, deaths, fresh>>

\* The worker dies, or another stop of the same tick throws.
TickDies ==
    /\ tick.at # "idle" /\ deaths < MaxDeaths
    /\ deaths' = deaths + 1
    /\ tick' = Idle
    /\ UNCHANGED <<stop, spent, attempt, card, task, chain, fresh>>

\* A tick takes the time of its start for everything it writes. The clock of a
\* class that failed runs on, also while the operator has the card.
Older(n, limit) == IF n < limit THEN n + 1 ELSE n

TimePasses ==
    /\ tick.at = "idle" /\ attempt.status \in {"VALIDATING", "FAILED"}
    /\ attempt' = [attempt EXCEPT
          !.hold = IF @ > 0 THEN @ - 1 ELSE 0,
          !.age = [c \in Class |-> IF attempt.tries[c] > 0 THEN Older(@[c], Ceiling[c]) ELSE 0]]
    /\ fresh' = [c \in Class |-> Older(fresh[c], Ceiling[c])]
    /\ UNCHANGED <<stop, spent, card, task, chain, tick, deaths>>

(******************************* The operator ******************************)

\* An answer must be a choice of an open card and one of its condition.
Answers(g, choice) ==
    /\ card[g].state = "open" /\ choice \in card[g].offers
    /\ choice \in AnswerableChoices[stop.condition]

\* Mutant: the cases of the switch are swapped.
Reset_OtherClass(a, c) ==
    [a EXCEPT !.tries = [d \in Class |-> IF d = c THEN @[d] ELSE 0],
              !.age = [d \in Class |-> IF d = c THEN @[d] ELSE 0]]

\* mergeRecoveryClassReset, that class and no other
Reset(a, c) == [a EXCEPT !.tries[c] = 0, !.age[c] = 0]

\* revalidateAfterClassCeiling
Revalidate(g) ==
    LET c == attempt.refusal IN
    /\ Answers(g, "re-validate")
    /\ attempt.status = "FAILED" /\ c \in Class
    /\ attempt.gen < MaxRevalidations
    /\ attempt' = [Reset(attempt, c) EXCEPT
          !.status = "VALIDATING", !.refusal = "none", !.hold = 0, !.gen = @ + 1]
    /\ fresh' = [fresh EXCEPT ![c] = 0]
    /\ card' = [card EXCEPT ![g].state = "answered"]
    /\ task' = "REVIEW"
    /\ UNCHANGED <<stop, spent, chain, tick, deaths>>

Abandon(g) ==
    /\ Answers(g, "abandon")
    /\ card' = [Closed EXCEPT ![g].state = "answered"]
    /\ task' = "DONE"
    /\ UNCHANGED <<stop, spent, attempt, chain, tick, deaths, fresh>>

\* The readiness step is armed again or a confirmation card asked for.
Reauthorize(g) ==
    /\ Answers(g, "re-authorize")
    /\ card' = [card EXCEPT ![g].state = "answered"]
    /\ task' = "REFRESHED"
    /\ UNCHANGED <<stop, spent, attempt, chain, tick, deaths, fresh>>

(******************************** The Chain ********************************)

HoldOrResume ==
    /\ chain' = [chain EXCEPT !.held = ~@]
    /\ UNCHANGED <<stop, spent, attempt, card, task, tick, deaths, fresh>>

RunStartsOrEnds ==
    /\ chain' = [chain EXCEPT !.active = ~@]
    /\ UNCHANGED <<stop, spent, attempt, card, task, tick, deaths, fresh>>

FactsChange ==
    /\ chain' = [chain EXCEPT !.fit = ~@]
    /\ UNCHANGED <<stop, spent, attempt, card, task, tick, deaths, fresh>>

Tick ==
    \/ TickReads \/ OpenAttempt \/ ReadRepository
    \/ QueueSkips \/ QueueFails \/ QueueExhausts \/ QueueRepairs
    \/ \E c \in Class : Retries(c) \/ CrossesCeiling(c)
    \/ Refuses

Answer == \E g \in Generations : Revalidate(g) \/ Abandon(g) \/ Reauthorize(g)

Next == Tick \/ TickDies \/ TimePasses \/ Answer \/ HoldOrResume \/ RunStartsOrEnds \/ FactsChange

Spec == Init /\ [][Next]_vars

\* The interval starts a tick again and again, and time goes on.
LiveSpec == Spec /\ WF_vars(Tick) /\ WF_vars(TimePasses)

(******************************** Properties *******************************)

Attempts == [status : {"NONE", "VALIDATING", "REPAIRING", "FAILED"},
             refusal : Class \cup {"none"}, gen : Generations, hold : 0..BackoffCap,
             tries : [Class -> 0..MaxTries], age : [Class -> Nat]]
Cards == [state : {"none", "open", "answered", "closed"}, offers : SUBSET Choices]
Ticks == [at : {"idle", "inspect", "reading", "queueing", "settle"}, verdict : Verdicts \cup {"none"}]

\* The values of the variables; the clocks stop at the ceilings.
TypeOK ==
    /\ stop \in [condition : Conditions, bound : BOOLEAN, ci : BOOLEAN]
    /\ spent \in 0..MaxRecoveries
    /\ attempt \in Attempts
    /\ card \in [Generations -> Cards]
    /\ task \in {"REVIEW", "DONE", "REFRESHED"}
    /\ chain \in [held : BOOLEAN, active : BOOLEAN, fit : BOOLEAN]
    /\ tick \in Ticks
    /\ deaths \in 0..MaxDeaths
    /\ fresh \in [Class -> Nat]
    /\ \A c \in Class : attempt.age[c] <= Ceiling[c] /\ fresh[c] <= Ceiling[c]

\* A stop whose recovery is settled and nobody decided has exactly one open
\* card, the one of its generation, and there is no open card otherwise: the
\* operator always has a way on, also after a re-validate that settles again.
SettledIsAsked ==
    \A g \in Generations :
        card[g].state = "open" <=>
            attempt.status = "FAILED" /\ task = "REVIEW" /\ g = attempt.gen

\* A class ends the recovery only after its whole ceiling, counted from the
\* operator's last reset of that class: a re-validate buys all of it again.
WholeBudgetAgain ==
    attempt.status = "FAILED" /\ attempt.refusal \in Class =>
        fresh[attempt.refusal] >= Ceiling[attempt.refusal]

\* Whatever fails and whoever dies, a recovery whose Chain is not held for
\* ever is repaired, or settled and given to the operator.
RecoveryConcludes == <>[](~chain.held) => []<>(~Undecided)

\* Every choice a card offers is one the answer transaction accepts
\* (db/src/merge-integrator.ts:609-613, docs/operator-api.md:2658-2671).
OfferedIsAnswerable ==
    \A g \in Generations : card[g].state = "open" =>
        \A choice \in card[g].offers :
            /\ choice \in AnswerableChoices[stop.condition]
            /\ choice = "re-validate" => attempt.refusal \in Class
===============================================================================
