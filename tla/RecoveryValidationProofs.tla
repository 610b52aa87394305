----------------------- MODULE RecoveryValidationProofs -----------------------
(***************************************************************************)
(* Theorems about RecoveryValidation, for every ceiling, backoff, allowance*)
(* and number of re-validations.                                           *)
(*                                                                         *)
(* That a settled stop has its open card needs what the key of the card    *)
(* relies on: no card exists yet for the generation a recovery is in until *)
(* it is settled, nor for a later one (CardsAhead), and a tick is under    *)
(* way only while the attempt is undecided (TickIsAlone). That a class     *)
(* spends its whole ceiling needs that the clock of its first failure      *)
(* never runs ahead of the time since its reset (ClocksAgree).             *)
(***************************************************************************)
EXTENDS RecoveryValidation, TLAPS

CardsAhead ==
    \A g \in Generations :
        g > attempt.gen \/ (g = attempt.gen /\ attempt.status # "FAILED") => card[g].state = "none"
TickIsAlone == tick.at # "idle" => Undecided
LeftWhenSettled == task # "REVIEW" => attempt.status = "FAILED"
CardInv == SettledIsAsked /\ CardsAhead /\ TickIsAlone /\ LeftWhenSettled

ClocksAgree ==
    \A c \in Class :
        /\ attempt.age[c] <= fresh[c]
        /\ attempt.tries[c] = 0 => attempt.age[c] = 0
ClockInv == ClocksAgree /\ WholeBudgetAgain

IInv == TypeOK /\ CardInv /\ ClockInv

-----------------------------------------------------------------------------
(***************************************************************************)
(* What the operators on the attempt return.                               *)
(***************************************************************************)

\* Opening an attempt changes nothing but its status.
LEMMA EnsuredIs ==
    ASSUME TypeOK, Undecided
    PROVE  /\ Ensured \in Attempts /\ Ensured.status = "VALIDATING"
           /\ Ensured.gen = attempt.gen /\ Ensured.tries = attempt.tries
           /\ Ensured.age = attempt.age /\ Ensured.refusal = attempt.refusal
BY DEF TypeOK, Undecided, Ensured, Attempts

\* A failure is counted, and moves no clock.
LEMMA FailedIs ==
    ASSUME RecoveryAssumption, NEW a \in Attempts, NEW c \in Class
    PROVE  /\ Failed(a, c) \in Attempts
           /\ Failed(a, c).status = a.status /\ Failed(a, c).gen = a.gen
           /\ Failed(a, c).age = a.age /\ Failed(a, c).refusal = a.refusal
           /\ \A d \in Class : Failed(a, c).tries[d] = 0 => a.tries[d] = 0
<1>1. a.tries \in [Class -> 0..MaxTries] BY DEF Attempts
<1> DEFINE n == IF a.tries[c] = MaxTries THEN a.tries[c] ELSE a.tries[c] + 1
<1>2. n \in 0..MaxTries /\ n # 0 BY <1>1 DEF RecoveryAssumption
<1>3. Failed(a, c) = [a EXCEPT !.tries = [a.tries EXCEPT ![c] = n]] BY DEF Failed, Attempts
<1> DEFINE t == [a.tries EXCEPT ![c] = n]
<1>4. t \in [Class -> 0..MaxTries] /\ \A d \in Class : t[d] = 0 => a.tries[d] = 0
  BY <1>1, <1>2
<1> HIDE DEF t
<1>5. Failed(a, c) = [a EXCEPT !.tries = t] BY <1>3 DEF t
<1> QED BY <1>4, <1>5 DEF Attempts

LEMMA BackoffIs == ASSUME RecoveryAssumption, NEW n PROVE Backoff(n) \in 0..BackoffCap
BY DEF RecoveryAssumption, Backoff

\* A reset clears one class and leaves the others alone.
LEMMA ResetIs ==
    ASSUME RecoveryAssumption, NEW a \in Attempts, NEW c \in Class
    PROVE  /\ Reset(a, c) \in Attempts /\ Reset(a, c).gen = a.gen
           /\ Reset(a, c).tries = [a.tries EXCEPT ![c] = 0]
           /\ Reset(a, c).age = [a.age EXCEPT ![c] = 0]
<1> DEFINE t == [a.tries EXCEPT ![c] = 0]
           o == [a.age EXCEPT ![c] = 0]
<1>1. a.tries \in [Class -> 0..MaxTries] /\ a.age \in [Class -> Nat] BY DEF Attempts
<1>2. 0 \in 0..MaxTries BY DEF RecoveryAssumption
<1>3. t \in [Class -> 0..MaxTries] /\ o \in [Class -> Nat] BY <1>1, <1>2
<1>4. Reset(a, c) = [a EXCEPT !.tries = t, !.age = o] BY DEF Reset, Attempts
<1> HIDE DEF t, o
<1>5. Reset(a, c) \in Attempts /\ Reset(a, c).gen = a.gen /\ Reset(a, c).tries = t
      /\ Reset(a, c).age = o
  BY <1>3, <1>4 DEF Attempts
<1> QED BY <1>5 DEF t, o

LEMMA AskedIs ==
    ASSUME TypeOK, NEW choices \in SUBSET Choices, CardsAhead, attempt.status # "FAILED",
           NEW a, a.gen = attempt.gen
    PROVE  /\ Asked(a, choices) \in [Generations -> Cards]
           /\ Asked(a, choices) =
                [card EXCEPT ![attempt.gen] = [state |-> "open", offers |-> choices]]
<1>1. attempt.gen \in Generations /\ card \in [Generations -> Cards] BY DEF TypeOK, Attempts
<1>2. card[attempt.gen].state = "none" BY <1>1 DEF CardsAhead
<1>3. [state |-> "open", offers |-> choices] \in Cards BY DEF Cards
<1> QED BY <1>1, <1>2, <1>3 DEF Asked, QuestionKey

LEMMA OffersOK == StopChoices \in [Conditions -> SUBSET Choices] /\ CeilingChoices \in SUBSET Choices
BY DEF StopChoices, CeilingChoices, Choices

\* A settled attempt: FAILED, in REVIEW, with the card of its generation.
LEMMA SettleIs ==
    ASSUME TypeOK, CardInv, Undecided, NEW a \in Attempts, NEW r \in Class \cup {"none"},
           a.gen = attempt.gen, Settle(a, r)
    PROVE  /\ attempt' \in Attempts /\ attempt'.status = "FAILED" /\ attempt'.refusal = r
           /\ attempt'.gen = attempt.gen /\ attempt'.tries = a.tries /\ attempt'.age = a.age
           /\ card' \in [Generations -> Cards]
           /\ \A g \in Generations :
                 card'[g].state = IF g = attempt.gen THEN "open" ELSE card[g].state
           /\ task' = "REVIEW"
<1>1. attempt' = [a EXCEPT !.status = "FAILED", !.refusal = r] /\ task' = "REVIEW" BY DEF Settle
<1>2. attempt' \in Attempts /\ attempt'.status = "FAILED" /\ attempt'.refusal = r
      /\ attempt'.gen = attempt.gen /\ attempt'.tries = a.tries /\ attempt'.age = a.age
  BY <1>1 DEF Attempts
<1> DEFINE ch == IF r \in Class THEN CeilingChoices ELSE StopChoices[stop.condition]
<1>3. ch \in SUBSET Choices BY OffersOK DEF TypeOK
<1>4. card' = Asked(a, ch) BY DEF Settle
<1> HIDE DEF ch
<1>5. attempt.status # "FAILED" /\ CardsAhead BY DEF Undecided, CardInv
<1>6. card' \in [Generations -> Cards]
      /\ card' = [card EXCEPT ![attempt.gen] = [state |-> "open", offers |-> ch]]
  BY <1>3, <1>4, <1>5, AskedIs
<1>7. card \in [Generations -> Cards] /\ attempt.gen \in Generations BY DEF TypeOK, Attempts
<1>8. \A g \in Generations : card'[g].state = IF g = attempt.gen THEN "open" ELSE card[g].state
  BY <1>6, <1>7
<1> QED BY <1>1, <1>2, <1>6, <1>8

LEMMA ClosedIs ==
    ASSUME TypeOK
    PROVE  /\ Closed \in [Generations -> Cards]
           /\ \A g \in Generations :
                 Closed[g].state = IF card[g].state = "open" THEN "closed" ELSE card[g].state
BY DEF TypeOK, Closed, Cards

LEMMA AnsweredIs ==
    ASSUME NEW k \in [Generations -> Cards], NEW g \in Generations
    PROVE  /\ [k EXCEPT ![g].state = "answered"] \in [Generations -> Cards]
           /\ \A h \in Generations :
                 [k EXCEPT ![g].state = "answered"][h].state =
                    IF h = g THEN "answered" ELSE k[h].state
BY DEF Cards

\* The invariant after a step that settles the attempt.
LEMMA SettlePreserves ==
    ASSUME RecoveryAssumption, IInv, Undecided, NEW a \in Attempts, NEW r \in Class \cup {"none"},
           a.gen = attempt.gen, a.age = attempt.age,
           \A c \in Class : a.tries[c] = 0 => attempt.tries[c] = 0,
           r \in Class => fresh[r] >= Ceiling[r],
           Settle(a, r), tick' = Idle, UNCHANGED <<stop, spent, chain, deaths, fresh>>
    PROVE  IInv'
<1> USE DEF IInv
<1>1. /\ attempt' \in Attempts /\ attempt'.status = "FAILED" /\ attempt'.refusal = r
      /\ attempt'.gen = attempt.gen /\ attempt'.tries = a.tries /\ attempt'.age = a.age
      /\ card' \in [Generations -> Cards]
      /\ \A g \in Generations :
            card'[g].state = IF g = attempt.gen THEN "open" ELSE card[g].state
      /\ task' = "REVIEW"
  BY SettleIs
<1>2. TypeOK' BY <1>1 DEF TypeOK, Idle, Ticks
<1>3. attempt.gen \in Generations BY DEF TypeOK, Attempts
<1>4. CardInv'
  <2>1. SettledIsAsked' BY <1>1, <1>3 DEF SettledIsAsked, CardInv, Undecided
  <2>2. CardsAhead'
    BY <1>1, <1>3 DEF CardsAhead, CardInv, Generations
  <2> QED BY <1>1, <2>1, <2>2 DEF CardInv, TickIsAlone, LeftWhenSettled, Idle
<1>5. ClockInv' BY <1>1 DEF ClockInv, ClocksAgree, WholeBudgetAgain
<1> QED BY <1>2, <1>4, <1>5

-----------------------------------------------------------------------------
(***************************************************************************)
(* The steps.                                                              *)
(***************************************************************************)
LEMMA InitInv == ASSUME RecoveryAssumption, Init PROVE IInv
<1> DEFINE a == [status |-> "NONE", refusal |-> "none", gen |-> 0, hold |-> 0,
                 tries |-> Clear, age |-> Clear]
<1>1. /\ attempt = a /\ card = [g \in Generations |-> Unasked] /\ task = "REVIEW"
      /\ tick = Idle /\ fresh = Clear
  BY DEF Init
<1>2. Clear \in [Class -> 0..MaxTries] /\ Clear \in [Class -> Nat] /\ \A c \in Class : Clear[c] = 0
  BY DEF Clear, RecoveryAssumption
<1>3. a \in Attempts BY <1>2 DEF Attempts, Generations, RecoveryAssumption
<1>4. TypeOK
  <2>1. card \in [Generations -> Cards] BY <1>1 DEF Unasked, Cards
  <2>2. \A c \in Class : attempt.age[c] <= Ceiling[c] /\ fresh[c] <= Ceiling[c]
    BY <1>1, <1>2 DEF RecoveryAssumption
  <2>3. stop \in [condition : Conditions, bound : BOOLEAN, ci : BOOLEAN] BY DEF Init
  <2>4. chain \in [held : BOOLEAN, active : BOOLEAN, fit : BOOLEAN] BY DEF Init
  <2>5. spent \in 0..MaxRecoveries /\ deaths \in 0..MaxDeaths BY DEF Init, RecoveryAssumption
  <2>6. tick \in Ticks BY <1>1 DEF Idle, Ticks
  <2> QED BY <1>1, <1>2, <1>3, <2>1, <2>2, <2>3, <2>4, <2>5, <2>6 DEF TypeOK
<1>5. CardInv
  BY <1>1 DEF CardInv, SettledIsAsked, CardsAhead, TickIsAlone, LeftWhenSettled, Unasked, Idle
<1>6. ClockInv BY <1>1, <1>2 DEF ClockInv, ClocksAgree, WholeBudgetAgain
<1> QED BY <1>4, <1>5, <1>6 DEF IInv

\* Steps that move only the tick, its deaths or the Chain, and leave the tick
\* on its way only where the attempt is undecided.
LEMMA QuietStep ==
    ASSUME IInv, TypeOK', UNCHANGED <<attempt, card, task, fresh>>,
           tick'.at # "idle" => Undecided
    PROVE  IInv'
BY DEF IInv, CardInv, SettledIsAsked, CardsAhead, TickIsAlone, LeftWhenSettled, Undecided,
       ClockInv, ClocksAgree, WholeBudgetAgain

LEMMA JudgedIs ==
    /\ \A v \in Verdicts : Judged(v) \in Ticks /\ Judged(v).at = "settle"
    /\ \A p \in {"inspect", "reading", "queueing"} : At(p) \in Ticks /\ At(p).at = p
    /\ Idle \in Ticks /\ Idle.at = "idle"
    /\ {"waiting", "transport", "ineligible"} \subseteq Verdicts
BY DEF Judged, At, Idle, Ticks, Verdicts, Class

LEMMA TickReadsPreserves == ASSUME IInv, TickReads PROVE IInv'
<1>1. tick' \in Ticks BY JudgedIs DEF TickReads
<1>2. TypeOK' BY <1>1 DEF IInv, TypeOK, TickReads
<1> QED BY <1>2, QuietStep DEF TickReads

LEMMA OpenAttemptPreserves == ASSUME IInv, OpenAttempt PROVE IInv'
<1>1. Undecided BY DEF IInv, CardInv, TickIsAlone, OpenAttempt
<1>2. /\ attempt' \in Attempts /\ attempt'.status = "VALIDATING"
      /\ attempt'.gen = attempt.gen /\ attempt'.tries = attempt.tries
      /\ attempt'.age = attempt.age
  BY <1>1, EnsuredIs DEF IInv, OpenAttempt
<1>3. tick' \in Ticks BY JudgedIs DEF OpenAttempt
<1>4. TypeOK' BY <1>2, <1>3 DEF IInv, TypeOK, OpenAttempt
<1>5. UNCHANGED <<card, task, fresh>> BY DEF OpenAttempt
<1>6. CardInv'
  BY <1>1, <1>2, <1>5 DEF IInv, CardInv, SettledIsAsked, CardsAhead, TickIsAlone,
     LeftWhenSettled, Undecided
<1>7. ClockInv' BY <1>2, <1>5 DEF IInv, ClockInv, ClocksAgree, WholeBudgetAgain
<1> QED BY <1>4, <1>6, <1>7 DEF IInv

LEMMA ReadRepositoryPreserves == ASSUME IInv, ReadRepository PROVE IInv'
<1>1. tick' \in Ticks BY JudgedIs DEF ReadRepository
<1>2. TypeOK' BY <1>1 DEF IInv, TypeOK, ReadRepository
<1>3. Undecided BY DEF IInv, CardInv, TickIsAlone, ReadRepository
<1> QED BY <1>2, <1>3, QuietStep DEF ReadRepository

LEMMA QueueSkipsPreserves == ASSUME IInv, QueueSkips PROVE IInv'
<1>1. tick' \in Ticks /\ tick'.at = "idle" BY JudgedIs DEF QueueSkips
<1>2. TypeOK' BY <1>1 DEF IInv, TypeOK, QueueSkips
<1> QED BY <1>1, <1>2, QuietStep DEF QueueSkips

LEMMA QueueFailsPreserves == ASSUME IInv, QueueFails PROVE IInv'
<1>1. tick' \in Ticks BY JudgedIs DEF QueueFails
<1>2. TypeOK' BY <1>1 DEF IInv, TypeOK, QueueFails
<1>3. Undecided BY DEF IInv, CardInv, TickIsAlone, QueueFails, MayQueue
<1> QED BY <1>2, <1>3, QuietStep DEF QueueFails

LEMMA QueueExhaustsPreserves == ASSUME RecoveryAssumption, IInv, QueueExhausts PROVE IInv'
<1>1. Undecided /\ attempt \in Attempts
  BY DEF IInv, TypeOK, QueueExhausts, MayQueue, Undecided
<1>2. "none" \notin Class BY DEF Class
<1> QED BY <1>1, <1>2, SettlePreserves DEF QueueExhausts

LEMMA QueueRepairsPreserves == ASSUME IInv, QueueRepairs PROVE IInv'
<1>1. attempt.status = "VALIDATING" BY DEF QueueRepairs, MayQueue
<1>2. /\ attempt' \in Attempts /\ attempt'.status = "REPAIRING"
      /\ attempt'.gen = attempt.gen /\ attempt'.tries = attempt.tries
      /\ attempt'.age = attempt.age
  BY DEF IInv, TypeOK, Attempts, QueueRepairs
<1>3. /\ card' \in [Generations -> Cards]
      /\ \A g \in Generations :
            card'[g].state = IF card[g].state = "open" THEN "closed" ELSE card[g].state
  BY ClosedIs DEF IInv, QueueRepairs
<1>4. tick' \in Ticks /\ tick'.at = "idle" BY JudgedIs DEF QueueRepairs
<1>5. TypeOK' BY <1>2, <1>3, <1>4 DEF IInv, TypeOK, QueueRepairs
<1>6. UNCHANGED <<task, fresh>> BY DEF QueueRepairs
<1>7. CardInv'
  BY <1>1, <1>2, <1>3, <1>4, <1>6 DEF IInv, CardInv, SettledIsAsked, CardsAhead, TickIsAlone,
     LeftWhenSettled
<1>8. ClockInv' BY <1>2, <1>6 DEF IInv, ClockInv, ClocksAgree, WholeBudgetAgain
<1> QED BY <1>5, <1>7, <1>8 DEF IInv

LEMMA RetriesPreserves ==
    ASSUME RecoveryAssumption, IInv, NEW c \in Class, Retries(c) PROVE IInv'
<1>1. Undecided BY DEF IInv, CardInv, TickIsAlone, Retries, Judged
<1>2. /\ Ensured \in Attempts /\ Ensured.status = "VALIDATING"
      /\ Ensured.gen = attempt.gen /\ Ensured.tries = attempt.tries
      /\ Ensured.age = attempt.age
  BY <1>1, EnsuredIs DEF IInv
<1> DEFINE a == Failed(Ensured, c)
<1>3. /\ a \in Attempts /\ a.status = "VALIDATING" /\ a.gen = attempt.gen
      /\ a.age = attempt.age /\ \A d \in Class : a.tries[d] = 0 => attempt.tries[d] = 0
  BY <1>2, FailedIs
<1>4. attempt' = [a EXCEPT !.hold = Backoff(a.tries[c])] BY DEF Retries
<1> HIDE DEF a
<1>5. Backoff(a.tries[c]) \in 0..BackoffCap BY BackoffIs
<1>6. /\ attempt' \in Attempts /\ attempt'.status = "VALIDATING"
      /\ attempt'.gen = attempt.gen /\ attempt'.age = attempt.age
      /\ \A d \in Class : attempt'.tries[d] = 0 => attempt.tries[d] = 0
  BY <1>3, <1>4, <1>5 DEF Attempts
<1>7. tick' \in Ticks /\ tick'.at = "idle" BY JudgedIs DEF Retries
<1>8. TypeOK' BY <1>6, <1>7 DEF IInv, TypeOK, Retries
<1>9. UNCHANGED <<card, task, fresh>> BY DEF Retries
<1>10. CardInv'
  BY <1>1, <1>6, <1>7, <1>9 DEF IInv, CardInv, SettledIsAsked, CardsAhead, TickIsAlone,
     LeftWhenSettled, Undecided
<1>11. ClockInv' BY <1>6, <1>9 DEF IInv, ClockInv, ClocksAgree, WholeBudgetAgain
<1> QED BY <1>8, <1>10, <1>11 DEF IInv

LEMMA CrossesCeilingPreserves ==
    ASSUME RecoveryAssumption, IInv, NEW c \in Class, CrossesCeiling(c) PROVE IInv'
<1>1. Undecided BY DEF IInv, CardInv, TickIsAlone, CrossesCeiling, Judged
<1>2. /\ Ensured \in Attempts /\ Ensured.gen = attempt.gen
      /\ Ensured.tries = attempt.tries /\ Ensured.age = attempt.age
  BY <1>1, EnsuredIs DEF IInv
<1> DEFINE a == Failed(Ensured, c)
<1>3. /\ a \in Attempts /\ a.gen = attempt.gen /\ a.age = attempt.age
      /\ \A d \in Class : a.tries[d] = 0 => attempt.tries[d] = 0
  BY <1>2, FailedIs
<1>4. a.age[c] >= Ceiling[c] /\ Settle([a EXCEPT !.hold = 0], c) BY DEF CrossesCeiling
<1> HIDE DEF a
<1> DEFINE b == [a EXCEPT !.hold = 0]
<1>5. /\ b \in Attempts /\ b.gen = attempt.gen /\ b.age = attempt.age
      /\ \A d \in Class : b.tries[d] = 0 => attempt.tries[d] = 0
  BY <1>3 DEF Attempts, RecoveryAssumption
<1>6. fresh[c] >= Ceiling[c]
  <2>1. attempt.age[c] <= fresh[c] BY DEF IInv, ClockInv, ClocksAgree
  <2>2. /\ attempt.age[c] \in Nat /\ fresh[c] \in Nat /\ Ceiling[c] \in Nat
    BY DEF IInv, TypeOK, Attempts, RecoveryAssumption
  <2> QED BY <1>3, <1>4, <2>1, <2>2
<1>7. Settle(b, c) BY <1>4
<1> HIDE DEF b
<1>8. c \in Class \cup {"none"} OBVIOUS
<1>9. tick' = Idle /\ UNCHANGED <<stop, spent, chain, deaths, fresh>> BY DEF CrossesCeiling
<1> QED BY <1>1, <1>5, <1>6, <1>7, <1>8, <1>9, SettlePreserves

LEMMA RefusesPreserves == ASSUME RecoveryAssumption, IInv, Refuses PROVE IInv'
<1>1. Undecided BY DEF Refuses
<1>2. /\ Ensured \in Attempts /\ Ensured.gen = attempt.gen
      /\ Ensured.tries = attempt.tries /\ Ensured.age = attempt.age
  BY <1>1, EnsuredIs DEF IInv
<1>3. "none" \notin Class BY DEF Class
<1> QED BY <1>1, <1>2, <1>3, SettlePreserves DEF Refuses

LEMMA TickDiesPreserves == ASSUME RecoveryAssumption, IInv, TickDies PROVE IInv'
<1>1. tick' \in Ticks /\ tick'.at = "idle" BY JudgedIs DEF TickDies
<1>2. deaths' \in 0..MaxDeaths BY DEF IInv, TypeOK, TickDies, RecoveryAssumption
<1>3. TypeOK' BY <1>1, <1>2 DEF IInv, TypeOK, TickDies
<1> QED BY <1>1, <1>3, QuietStep DEF TickDies

LEMMA OlderIs ==
    ASSUME NEW n \in Nat, NEW m \in Nat, NEW limit \in Nat, n <= m, m <= limit
    PROVE  /\ Older(n, limit) \in Nat /\ Older(n, limit) <= limit
           /\ n <= Older(n, limit) /\ Older(n, limit) <= Older(m, limit)
BY DEF Older

LEMMA TimePassesPreserves == ASSUME RecoveryAssumption, IInv, TimePasses PROVE IInv'
<1>1. attempt \in Attempts BY DEF IInv, TypeOK
<1> DEFINE h == IF attempt.hold > 0 THEN attempt.hold - 1 ELSE 0
           ages == [c \in Class |->
                      IF attempt.tries[c] > 0 THEN Older(attempt.age[c], Ceiling[c]) ELSE 0]
<1>2. attempt' = [attempt EXCEPT !.hold = h, !.age = ages] BY <1>1 DEF TimePasses, Attempts
<1>3. h \in 0..BackoffCap BY <1>1 DEF Attempts, RecoveryAssumption
<1>4. ASSUME NEW c \in Class
      PROVE  /\ Ceiling[c] \in Nat /\ attempt.age[c] \in Nat /\ fresh[c] \in Nat
             /\ attempt.age[c] <= fresh[c] /\ fresh[c] <= Ceiling[c]
             /\ attempt.tries[c] \in Nat
  BY <1>1 DEF IInv, TypeOK, ClockInv, ClocksAgree, RecoveryAssumption, Attempts
<1>5. fresh' = [c \in Class |-> Older(fresh[c], Ceiling[c])] BY DEF TimePasses
<1>6. ASSUME NEW c \in Class
      PROVE  /\ ages[c] \in Nat /\ ages[c] <= Ceiling[c] /\ fresh'[c] \in Nat
             /\ fresh'[c] <= Ceiling[c] /\ ages[c] <= fresh'[c] /\ fresh[c] <= fresh'[c]
             /\ attempt.tries[c] = 0 => ages[c] = 0
  <2>1. /\ Older(attempt.age[c], Ceiling[c]) \in Nat
        /\ Older(attempt.age[c], Ceiling[c]) <= Ceiling[c]
        /\ Older(attempt.age[c], Ceiling[c]) <= Older(fresh[c], Ceiling[c])
    BY <1>4, OlderIs
  <2>2. /\ Older(fresh[c], Ceiling[c]) \in Nat /\ Older(fresh[c], Ceiling[c]) <= Ceiling[c]
        /\ fresh[c] <= Older(fresh[c], Ceiling[c])
    BY <1>4, OlderIs
  <2>3. fresh'[c] = Older(fresh[c], Ceiling[c]) BY <1>5
  <2>4. ages[c] = IF attempt.tries[c] > 0 THEN Older(attempt.age[c], Ceiling[c]) ELSE 0 OBVIOUS
  <2> HIDE DEF ages
  <2> QED BY <1>4, <2>1, <2>2, <2>3, <2>4
<1>7. ages \in [Class -> Nat] /\ fresh' \in [Class -> Nat]
  <2>1. \A c \in Class : ages[c] \in Nat /\ fresh'[c] \in Nat BY <1>6
  <2> QED BY <1>5, <2>1
<1> HIDE DEF ages, h
<1>8. /\ attempt' \in Attempts /\ attempt'.age = ages
      /\ attempt'.status = attempt.status /\ attempt'.refusal = attempt.refusal
      /\ attempt'.gen = attempt.gen /\ attempt'.tries = attempt.tries
  BY <1>1, <1>2, <1>3, <1>7 DEF Attempts
<1>9. UNCHANGED <<stop, spent, card, task, chain, tick, deaths>> BY DEF TimePasses
<1>10. TypeOK' BY <1>6, <1>7, <1>8, <1>9 DEF IInv, TypeOK
<1>11. CardInv'
  BY <1>8, <1>9 DEF IInv, CardInv, SettledIsAsked, CardsAhead, TickIsAlone, LeftWhenSettled,
     Undecided
<1>12. ClocksAgree' BY <1>6, <1>8 DEF ClocksAgree
<1>13. WholeBudgetAgain'
  BY <1>4, <1>6, <1>8 DEF IInv, ClockInv, WholeBudgetAgain
<1> QED BY <1>10, <1>11, <1>12, <1>13 DEF IInv, ClockInv

LEMMA RevalidatePreserves ==
    ASSUME RecoveryAssumption, IInv, NEW g \in Generations, Revalidate(g) PROVE IInv'
<1> DEFINE c == attempt.refusal
           r == Reset(attempt, c)
<1>1. /\ attempt \in Attempts /\ c \in Class /\ attempt.status = "FAILED"
      /\ attempt.gen < MaxRevalidations /\ card[g].state = "open"
  BY DEF IInv, TypeOK, Revalidate, Answers
<1>2. /\ r \in Attempts /\ r.gen = attempt.gen /\ r.tries = [attempt.tries EXCEPT ![c] = 0]
      /\ r.age = [attempt.age EXCEPT ![c] = 0]
  BY <1>1, ResetIs
<1>3. attempt' = [r EXCEPT !.status = "VALIDATING", !.refusal = "none", !.hold = 0,
                           !.gen = r.gen + 1]
  BY DEF Revalidate
<1>4. fresh' = [fresh EXCEPT ![c] = 0] BY DEF Revalidate
<1> HIDE DEF r, c
<1>5. attempt.gen + 1 \in Generations /\ attempt.gen \in Generations
  BY <1>1 DEF Attempts, Generations, RecoveryAssumption
<1>6. /\ attempt' \in Attempts /\ attempt'.status = "VALIDATING" /\ attempt'.gen = attempt.gen + 1
      /\ attempt'.tries = [attempt.tries EXCEPT ![c] = 0]
      /\ attempt'.age = [attempt.age EXCEPT ![c] = 0]
  <2> DEFINE t == [attempt.tries EXCEPT ![c] = 0]
             o == [attempt.age EXCEPT ![c] = 0]
  <2>1. r \in Attempts /\ r.gen = attempt.gen /\ r.tries = t /\ r.age = o BY <1>2
  <2> HIDE DEF t, o
  <2>2. 0 \in 0..BackoffCap BY DEF RecoveryAssumption
  <2>3. /\ attempt' \in Attempts /\ attempt'.status = "VALIDATING"
        /\ attempt'.gen = attempt.gen + 1 /\ attempt'.tries = t /\ attempt'.age = o
    BY <1>3, <1>5, <2>1, <2>2 DEF Attempts
  <2> QED BY <2>3 DEF t, o
<1>7. card \in [Generations -> Cards] BY DEF IInv, TypeOK
<1>8. /\ card' \in [Generations -> Cards]
      /\ \A h \in Generations : card'[h].state = IF h = g THEN "answered" ELSE card[h].state
  BY <1>7, AnsweredIs DEF Revalidate
<1>9. task' = "REVIEW" /\ UNCHANGED <<stop, spent, chain, tick, deaths>> BY DEF Revalidate
<1>10. TypeOK'
  <2>1. fresh' \in [Class -> Nat] BY <1>4 DEF IInv, TypeOK
  <2>2. \A d \in Class : attempt'.age[d] <= Ceiling[d] /\ fresh'[d] <= Ceiling[d]
    BY <1>1, <1>4, <1>6 DEF IInv, TypeOK, Attempts, RecoveryAssumption
  <2> QED BY <1>6, <1>8, <1>9, <2>1, <2>2 DEF IInv, TypeOK
<1>11. g = attempt.gen BY <1>1 DEF IInv, CardInv, SettledIsAsked
<1>12. CardInv'
  <2>1. \A h \in Generations : h > attempt.gen => card[h].state = "none"
    BY DEF IInv, CardInv, CardsAhead
  <2>2. \A h \in Generations : h # attempt.gen => card[h].state # "open"
    BY DEF IInv, CardInv, SettledIsAsked
  <2>3. SettledIsAsked' BY <1>6, <1>8, <1>11, <2>2 DEF SettledIsAsked
  <2>4. CardsAhead'
    <3>1. ASSUME NEW h \in Generations, h >= attempt.gen + 1 PROVE h > attempt.gen /\ h # g
      BY <1>5, <1>11, <3>1 DEF Generations
    <3>2. ASSUME NEW h \in Generations,
                 h > attempt'.gen \/ (h = attempt'.gen /\ attempt'.status # "FAILED")
          PROVE  h >= attempt.gen + 1
      BY <1>5, <1>6, <3>2 DEF Generations
    <3>3. ASSUME NEW h \in Generations,
                 h > attempt'.gen \/ (h = attempt'.gen /\ attempt'.status # "FAILED")
          PROVE  card'[h].state = "none"
      BY <1>8, <2>1, <3>1, <3>2, <3>3
    <3> QED BY <3>3 DEF CardsAhead
  <2>5. TickIsAlone' BY <1>6 DEF TickIsAlone, Undecided
  <2>6. LeftWhenSettled' BY <1>9 DEF LeftWhenSettled
  <2> QED BY <2>3, <2>4, <2>5, <2>6 DEF CardInv
<1>13. ClocksAgree'
  <2>1. \A d \in Class : attempt.age[d] <= fresh[d] /\ (attempt.tries[d] = 0 => attempt.age[d] = 0)
    BY DEF IInv, ClockInv, ClocksAgree
  <2>2. /\ attempt.age \in [Class -> Nat] /\ fresh \in [Class -> Nat]
        /\ attempt.tries \in [Class -> 0..MaxTries]
    BY <1>1 DEF IInv, TypeOK, Attempts
  <2>3. ASSUME NEW d \in Class
        PROVE  attempt'.age[d] <= fresh'[d] /\ (attempt'.tries[d] = 0 => attempt'.age[d] = 0)
    BY <1>1, <1>4, <1>6, <2>1, <2>2
  <2> QED BY <2>3 DEF ClocksAgree
<1>14. WholeBudgetAgain' BY <1>6 DEF WholeBudgetAgain
<1> QED BY <1>10, <1>12, <1>13, <1>14 DEF IInv, ClockInv

\* An answer that ends the recovery leaves no card open behind it.
LEMMA EndPreserves ==
    ASSUME IInv, NEW g \in Generations, card[g].state = "open",
           UNCHANGED <<stop, spent, attempt, chain, tick, deaths, fresh>>,
           task' \in {"DONE", "REFRESHED"}, card' \in [Generations -> Cards],
           \A h \in Generations : card'[h].state =
               IF h = g THEN "answered" ELSE card[h].state
    PROVE  IInv'
<1>1. TypeOK' BY DEF IInv, TypeOK
<1>2. attempt.status = "FAILED" /\ g = attempt.gen BY DEF IInv, CardInv, SettledIsAsked
<1>3. \A h \in Generations : h # g => card[h].state # "open"
  BY <1>2 DEF IInv, CardInv, SettledIsAsked
<1>4. attempt.gen \in Nat /\ Generations \subseteq Nat BY DEF IInv, TypeOK, Attempts, Generations
<1>5. SettledIsAsked' BY <1>3 DEF SettledIsAsked
<1>6. CardsAhead' BY <1>2, <1>4 DEF IInv, CardInv, CardsAhead
<1>7. TickIsAlone' /\ LeftWhenSettled'
  BY <1>2 DEF IInv, CardInv, TickIsAlone, LeftWhenSettled, Undecided
<1>8. ClockInv' BY DEF IInv, ClockInv, ClocksAgree, WholeBudgetAgain
<1> QED BY <1>1, <1>5, <1>6, <1>7, <1>8 DEF IInv, CardInv

LEMMA AbandonPreserves == ASSUME IInv, NEW g \in Generations, Abandon(g) PROVE IInv'
<1>1. TypeOK /\ card[g].state = "open" BY DEF IInv, Abandon, Answers
<1>2. /\ Closed \in [Generations -> Cards]
      /\ \A h \in Generations :
            Closed[h].state = IF card[h].state = "open" THEN "closed" ELSE card[h].state
  BY <1>1, ClosedIs
<1>3. \A h \in Generations : card[h].state = "open" => h = g
  BY <1>1 DEF IInv, CardInv, SettledIsAsked
<1>4. /\ card' \in [Generations -> Cards]
      /\ \A h \in Generations : card'[h].state = IF h = g THEN "answered" ELSE Closed[h].state
  BY <1>2, AnsweredIs DEF Abandon
<1>5. \A h \in Generations : card'[h].state = IF h = g THEN "answered" ELSE card[h].state
  BY <1>2, <1>3, <1>4
<1>6. task' = "DONE" /\ UNCHANGED <<stop, spent, attempt, chain, tick, deaths, fresh>>
  BY DEF Abandon
<1> QED BY <1>1, <1>4, <1>5, <1>6, EndPreserves

LEMMA ReauthorizePreserves == ASSUME IInv, NEW g \in Generations, Reauthorize(g) PROVE IInv'
<1>1. card \in [Generations -> Cards] /\ card[g].state = "open"
  BY DEF IInv, TypeOK, Reauthorize, Answers
<1>2. /\ card' \in [Generations -> Cards]
      /\ \A h \in Generations : card'[h].state = IF h = g THEN "answered" ELSE card[h].state
  BY <1>1, AnsweredIs DEF Reauthorize
<1>3. task' = "REFRESHED" /\ UNCHANGED <<stop, spent, attempt, chain, tick, deaths, fresh>>
  BY DEF Reauthorize
<1> QED BY <1>1, <1>2, <1>3, EndPreserves

LEMMA ChainPreserves ==
    ASSUME IInv, HoldOrResume \/ RunStartsOrEnds \/ FactsChange PROVE IInv'
<1>1. chain' \in [held : BOOLEAN, active : BOOLEAN, fit : BOOLEAN]
  BY DEF IInv, TypeOK, HoldOrResume, RunStartsOrEnds, FactsChange
<1>2. UNCHANGED <<stop, spent, attempt, card, task, tick, deaths, fresh>>
  BY DEF HoldOrResume, RunStartsOrEnds, FactsChange
<1>3. TypeOK' BY <1>1, <1>2 DEF IInv, TypeOK
<1> QED BY <1>2, <1>3, QuietStep DEF IInv, CardInv, TickIsAlone

LEMMA NextPreserves == ASSUME RecoveryAssumption, IInv, [Next]_vars PROVE IInv'
<1>1. CASE Tick
  BY <1>1, TickReadsPreserves, OpenAttemptPreserves, ReadRepositoryPreserves,
     QueueSkipsPreserves, QueueFailsPreserves, QueueExhaustsPreserves, QueueRepairsPreserves,
     RetriesPreserves, CrossesCeilingPreserves, RefusesPreserves DEF Tick
<1>2. CASE Answer
  BY <1>2, RevalidatePreserves, AbandonPreserves, ReauthorizePreserves DEF Answer
<1>3. CASE TickDies BY <1>3, TickDiesPreserves
<1>4. CASE TimePasses BY <1>4, TimePassesPreserves
<1>5. CASE HoldOrResume \/ RunStartsOrEnds \/ FactsChange BY <1>5, ChainPreserves
<1>6. CASE UNCHANGED vars
  <2>1. TypeOK' BY <1>6 DEF IInv, TypeOK, vars
  <2> QED BY <1>6, <2>1, QuietStep DEF IInv, CardInv, TickIsAlone, vars
<1> QED BY <1>1, <1>2, <1>3, <1>4, <1>5, <1>6 DEF Next

\* The inductive invariant.
THEOREM RecoveryInvariant == Spec => []IInv
<1>1. Init => IInv BY InitInv, RecoveryAssumption
<1>2. IInv /\ [Next]_vars => IInv' BY NextPreserves, RecoveryAssumption
<1> QED BY <1>1, <1>2, PTL DEF Spec

\* The attempt, its cards and its clocks have their types.
THEOREM RecoveryTypes == Spec => []TypeOK
<1>1. IInv => TypeOK BY DEF IInv
<1> QED BY <1>1, RecoveryInvariant, PTL

\* A settled stop nobody decided has its open card, and no other card is open
\* (openDeferredBaseDriftQuestion, stopQuestionKey).
THEOREM SettledStopIsAsked == Spec => []SettledIsAsked
<1>1. IInv => SettledIsAsked BY DEF IInv, CardInv
<1> QED BY <1>1, RecoveryInvariant, PTL

\* A class ends a recovery only after its whole ceiling since its last reset
\* (classifyRetryBudget, mergeRecoveryClassReset).
THEOREM CeilingIsWhole == Spec => []WholeBudgetAgain
<1>1. IInv => WholeBudgetAgain BY DEF IInv, ClockInv
<1> QED BY <1>1, RecoveryInvariant, PTL
===============================================================================
