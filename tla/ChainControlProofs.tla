------------------------- MODULE ChainControlProofs -------------------------
(***************************************************************************)
(* Theorems about ChainControl, for all Chains, layers, bindings and       *)
(* bounds.                                                                 *)
(*                                                                         *)
(* IInv adds to the types what Hold relies on: a Run was born (Hold counts *)
(* births, HoldIsABarrier speaks of open Runs), and no event is of a later *)
(* generation than its Chain; while the Chain is held its generation has   *)
(* not been released.                                                      *)
(*                                                                         *)
(* JInv adds what was reached: the Agent steps before a row that ran, is   *)
(* DONE or has a card ran themselves.  KInv adds who answers for a row     *)
(* that waits.  Each action is read once, as what it does to a row         *)
(* (RowStep, Good), and the invariants follow from that.                   *)
(***************************************************************************)
EXTENDS ChainControl, WellFoundedInduction, TLAPS

Sound(row) == row \in Step /\ (row.run # "none" => row.births > 0)

RowsOK(tk) == tk \in [Tasks -> Step] /\ \A t \in Tasks : Sound(tk[t])

RestOK ==
    /\ binding \in [Tasks -> Tasks \cup {Nobody}]
    /\ seen \in [Tasks -> Statuses \cup {"none"}]
    /\ commits \subseteq Commit
    /\ owed \subseteq Tasks

ControlOK ==
    /\ control \in [Chains -> [held : BOOLEAN, barrier : Nat, generation : Nat]]
    /\ events \subseteq ControlEvent
    /\ \A e \in events :
          /\ e.generation <= control[e.chain].generation
          /\ control[e.chain].held /\ e.kind = "RELEASED" => e.generation < control[e.chain].generation
    /\ RequestActsOnce

IInv == RowsOK(task) /\ RestOK /\ ControlOK /\ HoldIsABarrier

-----------------------------------------------------------------------------
(***************************************************************************)
(* What the row functions build.                                           *)
(***************************************************************************)
LEMMA BornOK ==
    ASSUME NEW row, Sound(row), NEW refused
    PROVE  Sound(Born(row, refused))
<1>. DEFINE parked == [row EXCEPT !.status = "REVIEW"]
            queued == [row EXCEPT !.run = "QUEUED", !.births = @ + 1]
<1>1. row \in Step /\ row.births \in Nat BY DEF Sound, Step
<1>2. row.run = "none" => Sound(parked) BY <1>1 DEF Sound, Step, Statuses
<1>. DEFINE n == row.births + 1
<1>3. queued \in Step
  <2>1. n \in Nat BY <1>1
  <2>2. queued = [row EXCEPT !.run = "QUEUED", !.births = n] OBVIOUS
  <2>. HIDE DEF n, queued
  <2>. QED BY <1>1, <2>1, <2>2 DEF Step
<1>4. queued.births = row.births + 1 BY <1>1 DEF Step
<1>5. Sound(queued) BY <1>1, <1>3, <1>4 DEF Sound
<1>. QED BY <1>2, <1>5 DEF Born

LEMMA WokenOK ==
    ASSUME NEW row, Sound(row), row.status = "REVIEW" => row.resumes # MaxResumes
    PROVE  Sound(Woken(row)) /\ Woken(row).run = row.run
<1>. DEFINE woken == [row EXCEPT !.status = "TODO", !.resumes = @ + 1]
<1>1. row \in Step /\ row.resumes \in 0..MaxResumes BY DEF Sound, Step
<1>2. row.resumes # MaxResumes => row.resumes + 1 \in 0..MaxResumes BY <1>1, ChainAssumption
<1>3. row.resumes # MaxResumes => woken \in Step BY <1>1, <1>2 DEF Step, Statuses
<1>4. woken.run = row.run /\ woken.births = row.births BY <1>1 DEF Step
<1>5. row.status = "REVIEW" => Sound(woken) BY <1>3, <1>4 DEF Sound
<1>. QED BY <1>4, <1>5 DEF Woken

LEMMA AskedOK ==
    ASSUME NEW row, Sound(row), NEW sourced
    PROVE  Sound(Asked(row, sourced))
BY DEF Sound, Asked, Step, Statuses

LEMMA AdvancedOK ==
    ASSUME NEW t \in Tasks, NEW row, Sound(row), NEW sourced, NEW refused
    PROVE  Sound(Advanced(t, row, sourced, refused))
<1>1. CASE LeftAlone(t, row) BY <1>1 DEF Advanced
<1>2. CASE ~LeftAlone(t, row)
  <2>1. Sound(Woken(row)) BY <1>2, WokenOK DEF LeftAlone
  <2>2. Sound(Born(Woken(row), refused)) BY <2>1, BornOK
  <2>3. Sound(Asked(Woken(row), sourced)) BY <2>1, AskedOK
  <2>. QED BY <1>2, <2>2, <2>3 DEF Advanced
<1>. QED BY <1>1, <1>2

\* Activation writes rows of t's Chain behind t only, and none that is barred.
LEMMA ActivatedOK ==
    ASSUME NEW tk, RowsOK(tk), NEW t \in Tasks, NEW sourced, NEW refused, NEW barred
    PROVE  /\ RowsOK(Activated(tk, t, sourced, refused, barred))
           /\ \A x \in Tasks : x \in barred \/ ChainOf[x] # ChainOf[t] =>
                 Activated(tk, t, sourced, refused, barred)[x] = tk[x]
<1>. DEFINE new == Activated(tk, t, sourced, refused, barred)
<1>1. ASSUME NEW x \in Tasks PROVE Sound(new[x])
  <2>1. Sound(tk[x]) BY DEF RowsOK
  <2>2. Sound(Advanced(x, tk[x], sourced, x \in refused)) BY <2>1, AdvancedOK
  <2>. QED BY <2>1, <2>2 DEF Activated
<1>2. new \in [Tasks -> Step]
  <2>1. \A x \in Tasks : new[x] \in Step BY <1>1 DEF Sound
  <2>. QED BY <2>1 DEF Activated
<1>3. ASSUME NEW x \in Tasks, x \in barred \/ ChainOf[x] # ChainOf[t] PROVE new[x] = tk[x]
  <2>1. Follows(tk, t, x) => ChainOf[x] = ChainOf[t]
    BY ChainAssumption DEF Follows, After, Row
  <2>. QED BY <1>3, <2>1 DEF Activated
<1>. QED BY <1>1, <1>2, <1>3 DEF RowsOK

\* The dispatches a completion owes are well formed.
LEMMA DispatchesOK ==
    ASSUME NEW tk, NEW t \in Tasks
    PROVE  Dispatches(tk, t) \subseteq Commit
<1>. DEFINE bound == {b \in Tasks : binding[b] = t}
            rec == [from |-> t, over |-> ChainDone(tk, ChainOf[t]), todo |-> bound, done |-> {}]
<1>1. ChainDone(tk, ChainOf[t]) \in BOOLEAN BY DEF ChainDone
<1>2. bound \in SUBSET Tasks OBVIOUS
<1>. HIDE DEF bound
<1>3. rec \in Commit BY <1>1, <1>2 DEF Commit
<1>4. Dispatches(tk, t) \subseteq {rec} BY DEF Dispatches, bound
<1>. QED BY <1>3, <1>4

\* One row is overwritten with a sound one.
LEMMA OverwriteOK ==
    ASSUME NEW tk, RowsOK(tk), NEW t \in Tasks, NEW row, Sound(row)
    PROVE  RowsOK([tk EXCEPT ![t] = row])
BY DEF RowsOK, Sound

\* A step that opens no Run beyond a barrier and moves no barrier keeps it.
LEMMA BarrierKept ==
    ASSUME HoldIsABarrier, UNCHANGED control,
           \A t \in Tasks : Held(t) => task'[t].run \in {task[t].run, "none"}
    PROVE  HoldIsABarrier'
BY DEF HoldIsABarrier, Held

LEMMA ControlKept ==
    ASSUME ControlOK, UNCHANGED <<control, events>>
    PROVE  ControlOK'
BY DEF ControlOK, RequestActsOnce

-----------------------------------------------------------------------------
(***************************************************************************)
(* Every action keeps the invariant.  Actions of Runs and of the operator  *)
(* leave the control rows alone; what each lemma shows is that its rows    *)
(* stay sound and that no Run opens beyond a barrier.                      *)
(***************************************************************************)
LEMMA InitOK == Init => IInv
BY ChainAssumption DEF Init, IInv, RowsOK, Sound, RestOK, ControlOK, HoldIsABarrier, Held,
   RequestActsOnce, Idle, Step, Statuses, ControlEvent, Commit

LEMMA ClaimOK == ASSUME IInv, NEW t \in Tasks, Claim(t) PROVE IInv'
<1>. USE DEF IInv
<1>. DEFINE row == [task[t] EXCEPT !.run = "CLAIMED", !.status = "DOING"]
<1>1. Sound(task[t]) /\ Sound(row) BY DEF Claim, RowsOK, Sound, Step, Statuses
<1>2. task' = [task EXCEPT ![t] = row] BY <1>1 DEF Claim, RowsOK
<1>3. RowsOK(task)'
  <2>. HIDE DEF row
  <2>. QED BY <1>1, <1>2, OverwriteOK
<1>4. HoldIsABarrier' BY <1>2, BarrierKept DEF Claim, RowsOK
<1>5. RestOK' BY DEF Claim, RestOK
<1>6. ControlOK' BY ControlKept DEF Claim
<1>. QED BY <1>3, <1>4, <1>5, <1>6

LEMMA ReadCompletionOK == ASSUME IInv, NEW t \in Tasks, ReadCompletion(t) PROVE IInv'
<1>. USE DEF IInv
<1>1. RowsOK(task)' BY DEF ReadCompletion
<1>2. HoldIsABarrier' BY BarrierKept DEF ReadCompletion
<1>3. RestOK'
  <2>1. task[t].status \in Statuses BY DEF RowsOK, Step
  <2>. QED BY <2>1 DEF ReadCompletion, RestOK
<1>4. ControlOK' BY ControlKept DEF ReadCompletion
<1>. QED BY <1>1, <1>2, <1>3, <1>4

\* What an activation after a completion or a decision writes.
LEMMA ActivationOK ==
    ASSUME IInv, NEW t \in Tasks, NEW row, Sound(row), row.run \in {task[t].run, "none"},
           NEW sourced, NEW refused,
           task' = Activated([task EXCEPT ![t] = row], t, sourced, refused, Beyond),
           UNCHANGED control
    PROVE  RowsOK(task)' /\ HoldIsABarrier'
<1>. USE DEF IInv
<1>. DEFINE over == [task EXCEPT ![t] = row]
<1>1. RowsOK(over) BY OverwriteOK
<1>2. RowsOK(task)' BY <1>1, ActivatedOK
<1>3. \A x \in Tasks : Held(x) => task'[x].run \in {task[x].run, "none"}
  <2>. SUFFICES ASSUME NEW x \in Tasks, Held(x) PROVE task'[x].run \in {task[x].run, "none"}
    OBVIOUS
  <2>1. x \in Beyond BY DEF Beyond
  <2>2. task' = Activated(over, t, sourced, refused, Beyond) OBVIOUS
  <2>3. over[x].run \in {task[x].run, "none"} BY DEF RowsOK
  <2>. HIDE DEF over
  <2>4. task'[x] = over[x] BY <1>1, <2>1, <2>2, ActivatedOK
  <2>. QED BY <2>3, <2>4
<1>. QED BY <1>2, <1>3, BarrierKept

\* The status of a row that lost its Run, or was decided on.
LEMMA ClosedOK ==
    ASSUME IInv, NEW t \in Tasks, NEW status \in Statuses
    PROVE  /\ Sound([Ended(t) EXCEPT !.status = status])
           /\ Sound([Ended(t) EXCEPT !.status = status, !.card = "open"])
           /\ Sound([task[t] EXCEPT !.status = status, !.card = "none"])
           /\ Sound(Ended(t))
           /\ [Ended(t) EXCEPT !.status = status].run = "none"
           /\ [Ended(t) EXCEPT !.status = status, !.card = "open"].run = "none"
           /\ [task[t] EXCEPT !.status = status, !.card = "none"].run = task[t].run
           /\ Ended(t).run = "none"
<1>1. Sound(task[t]) BY DEF IInv, RowsOK
<1>2. Sound(Ended(t)) /\ Ended(t).run = "none" BY <1>1 DEF Ended, Sound, Step
<1>. HIDE DEF Ended
<1>. QED BY <1>1, <1>2 DEF Sound, Step

LEMMA SucceedRunOK ==
    ASSUME IInv, NEW t \in Tasks, NEW refused, SucceedRun(t, refused)
    PROVE  IInv'
<1>. USE DEF IInv
<1>. DEFINE done == [Ended(t) EXCEPT !.status = "DONE"]
            asked == [Ended(t) EXCEPT !.status = "REVIEW", !.card = "open"]
            over == [task EXCEPT ![t] = done]
<1>1. /\ Sound(done) /\ done.run = "none" /\ Sound(asked) /\ asked.run = "none"
      /\ Sound(Ended(t)) /\ Ended(t).run = "none"
  BY ClosedOK DEF Statuses
<1>2. ControlOK' BY ControlKept DEF SucceedRun
<1>3. commits' = commits \/ commits' = commits \cup Dispatches(over, t) BY DEF SucceedRun
<1>4. RestOK' BY <1>3, DispatchesOK DEF SucceedRun, RestOK
<1>. HIDE DEF done, asked
<1>5. \/ task' = [task EXCEPT ![t] = Ended(t)]
      \/ task' = [task EXCEPT ![t] = asked]
      \/ task' = Activated(over, t, TRUE, refused, Beyond)
  BY DEF SucceedRun, done, asked
<1>6. UNCHANGED control BY DEF SucceedRun
<1>7. ASSUME NEW row, Sound(row), row.run = "none", task' = [task EXCEPT ![t] = row]
      PROVE  RowsOK(task)' /\ HoldIsABarrier'
  <2>1. RowsOK(task)' BY <1>7, OverwriteOK
  <2>2. \A x \in Tasks : task'[x].run \in {task[x].run, "none"} BY <1>7 DEF RowsOK
  <2>. QED BY <2>1, <2>2, <1>6, BarrierKept
<1>8. RowsOK(task)' /\ HoldIsABarrier' BY <1>1, <1>5, <1>6, <1>7, ActivationOK
<1>. QED BY <1>2, <1>4, <1>8

LEMMA FailRunOK == ASSUME IInv, NEW t \in Tasks, NEW retry \in BOOLEAN, FailRun(t, retry) PROVE IInv'
<1>. USE DEF IInv
<1>. DEFINE n == IF retry THEN task[t].births + 1 ELSE task[t].births
            run == IF retry THEN "QUEUED" ELSE "none"
            status == IF task[t].status # seen[t] THEN task[t].status
                      ELSE IF retry THEN "DOING" ELSE "REVIEW"
            row == [task[t] EXCEPT !.run = run, !.births = n, !.status = status]
<1>1. task[t] \in Step /\ task[t].births \in Nat /\ task[t].status \in Statuses
  BY DEF RowsOK, Step
<1>2. /\ n \in Nat /\ (run # "none" => n > 0)
      /\ status \in Statuses /\ run \in {"none", "QUEUED"}
  BY <1>1 DEF Statuses
<1>3. task' = [task EXCEPT ![t] = row] BY <1>1 DEF FailRun, Failed
<1>. HIDE DEF n, run, status
<1>4. Sound(row) BY <1>1, <1>2 DEF Sound, Step
<1>5. row.run = run BY <1>1 DEF Step
<1>6. RowsOK(task)'
  <2>. HIDE DEF row
  <2>. QED BY <1>3, <1>4, OverwriteOK
<1>7. HoldIsABarrier'
  <2>1. Held(t) => row.run = "none" BY <1>5 DEF FailRun, run
  <2>. HIDE DEF row
  <2>2. \A x \in Tasks : Held(x) => task'[x].run \in {task[x].run, "none"}
    BY <1>3, <2>1 DEF RowsOK
  <2>. QED BY <2>2, BarrierKept DEF FailRun
<1>8. RestOK' BY DEF FailRun, RestOK
<1>9. ControlOK' BY ControlKept DEF FailRun
<1>. QED BY <1>6, <1>7, <1>8, <1>9

LEMMA EndRunOK == ASSUME IInv, NEW t \in Tasks, NEW status \in Statuses, EndRun(t, status) PROVE IInv'
<1>. USE DEF IInv
<1>. DEFINE row == [task[t] EXCEPT !.run = "none", !.status = status]
<1>1. Sound(row) BY DEF RowsOK, Sound, Step
<1>2. task' = [task EXCEPT ![t] = row] BY DEF EndRun, RowsOK
<1>3. RowsOK(task)'
  <2>. HIDE DEF row
  <2>. QED BY <1>1, <1>2, OverwriteOK
<1>4. HoldIsABarrier' BY <1>2, BarrierKept DEF EndRun, RowsOK, Step
<1>5. RestOK' BY DEF EndRun, RestOK
<1>6. ControlOK' BY ControlKept DEF EndRun
<1>. QED BY <1>3, <1>4, <1>5, <1>6

\* Start and Retry write the same row, and neither behind a barrier.
LEMMA OpenedOK ==
    ASSUME IInv, NEW t \in Tasks, NEW refused \in BOOLEAN, Start(t, refused) \/ Retry(t, refused)
    PROVE  IInv'
<1>. USE DEF IInv
<1>. DEFINE row == IF refused THEN Born(task[t], TRUE)
                   ELSE [Born(task[t], FALSE) EXCEPT !.status = "TODO"]
<1>1. Sound(Born(task[t], TRUE)) /\ Sound(Born(task[t], FALSE)) BY BornOK DEF RowsOK
<1>2. Sound(row) BY <1>1 DEF Sound, Step, Statuses
<1>3. task' = [task EXCEPT ![t] = row] BY DEF Start, Retry
<1>4. ~Held(t) /\ UNCHANGED <<binding, seen, control, events, commits, owed>> BY DEF Start, Retry
<1>. HIDE DEF row
<1>5. RowsOK(task)' BY <1>2, <1>3, OverwriteOK
<1>6. HoldIsABarrier'
  <2>1. \A x \in Tasks : Held(x) => task'[x].run \in {task[x].run, "none"} BY <1>3, <1>4 DEF RowsOK
  <2>. QED BY <1>4, <2>1, BarrierKept
<1>7. RestOK' BY <1>4 DEF RestOK
<1>8. ControlOK' BY <1>4, ControlKept
<1>. QED BY <1>5, <1>6, <1>7, <1>8

\* Approving a gate and closing a Human step write DONE and activate.
LEMMA DecidedOK ==
    ASSUME IInv, NEW t \in Tasks, NEW refused, Approve(t, refused) \/ HumanDone(t, refused)
    PROVE  IInv'
<1>. USE DEF IInv
<1>. DEFINE row == [task[t] EXCEPT !.status = "DONE", !.card = "none"]
            over == [task EXCEPT ![t] = row]
<1>1. Sound(row) /\ row.run = task[t].run BY ClosedOK DEF Statuses
<1>2. over = [task EXCEPT ![t].status = "DONE", ![t].card = "none"] BY DEF RowsOK, Step
<1>. HIDE DEF row
<1>3. \E sourced \in BOOLEAN : task' = Activated(over, t, sourced, refused, Beyond)
  BY <1>2 DEF Approve, HumanDone
<1>4. commits' = commits \cup Dispatches(over, t) BY <1>2 DEF Approve, HumanDone
<1>5. UNCHANGED <<binding, seen, control, events, owed>> BY DEF Approve, HumanDone
<1>6. RowsOK(task)' /\ HoldIsABarrier' BY <1>1, <1>3, <1>5, ActivationOK
<1>7. RestOK' BY <1>4, <1>5, DispatchesOK DEF RestOK
<1>8. ControlOK' BY <1>5, ControlKept
<1>. QED BY <1>6, <1>7, <1>8

LEMMA RejectOK ==
    ASSUME IInv, NEW t \in Tasks, NEW x \in Tasks, NEW refused \in BOOLEAN, Reject(t, x, refused)
    PROVE  IInv'
<1>. USE DEF IInv
<1>. DEFINE gate == [task[t] EXCEPT !.card = "rejected", !.status = "TODO"]
            mid == [task EXCEPT ![t] = gate]
            redo == [mid[x] EXCEPT !.status = "TODO"]
            row == Born(redo, refused)
<1>1. Sound(gate) /\ gate.run = task[t].run BY DEF RowsOK, Sound, Step, Statuses
<1>2. task' = [mid EXCEPT ![x] = row] BY DEF Reject
<1>. HIDE DEF gate
<1>3. RowsOK(mid) BY <1>1, OverwriteOK
<1>. HIDE DEF mid
<1>4. Sound(redo) BY <1>3 DEF RowsOK, Sound, Step, Statuses
<1>. HIDE DEF redo
<1>6. Sound(row) BY <1>4, BornOK
<1>. HIDE DEF row
<1>7. RowsOK(task)' BY <1>2, <1>3, <1>6, OverwriteOK
<1>8. \A y \in Tasks : Held(y) => task'[y].run \in {task[y].run, "none"}
  <2>1. ~Held(x) BY DEF Reject
  <2>2. ASSUME NEW y \in Tasks, y # x PROVE task'[y].run = task[y].run
    BY <1>1, <1>2, <2>2 DEF mid, RowsOK
  <2>. QED BY <2>1, <2>2
<1>9. HoldIsABarrier' BY <1>8, BarrierKept DEF Reject
<1>10. RestOK' BY DEF Reject, RestOK
<1>11. ControlOK' BY ControlKept DEF Reject
<1>. QED BY <1>7, <1>9, <1>10, <1>11

LEMMA RebindOK ==
    ASSUME IInv, NEW t \in Tasks, NEW p \in Tasks \cup {Nobody}, Rebind(t, p)
    PROVE  IInv'
<1>. USE DEF IInv
<1>1. RowsOK(task)' BY DEF Rebind
<1>2. HoldIsABarrier' BY BarrierKept DEF Rebind
<1>3. RestOK' BY DEF Rebind, RestOK
<1>4. ControlOK' BY ControlKept DEF Rebind
<1>. QED BY <1>1, <1>2, <1>3, <1>4

LEMMA DispatchBoundOK ==
    ASSUME IInv, NEW x \in commits, NEW b \in x.todo, NEW refused \in BOOLEAN, DispatchBound(x, b, refused)
    PROVE  IInv'
<1>. USE DEF IInv
<1>. DEFINE row == Dispatched(x, b, task[b], refused)
            rest == [x EXCEPT !.todo = @ \ {b}, !.done = @ \cup {b}]
<1>1. x \in Commit /\ b \in Tasks BY DEF RestOK, Commit
<1>2. Sound(task[b]) BY <1>1 DEF RowsOK
<1>3. Sound(row)
  <2>1. Sound([task[b] EXCEPT !.status = "REVIEW"]) BY <1>2 DEF Sound, Step, Statuses
  <2>2. Sound(Born(task[b], refused)) BY <1>2, BornOK
  <2>. QED BY <1>2, <2>1, <2>2 DEF Dispatched
<1>4. Held(b) => row.run = task[b].run
  <2>1. [task[b] EXCEPT !.status = "REVIEW"].run = task[b].run BY <1>2 DEF Sound, Step
  <2>. QED BY <2>1 DEF Dispatched, Held
<1>5. task' = [task EXCEPT ![b] = row] BY DEF DispatchBound
<1>. HIDE DEF row
<1>6. RowsOK(task)' BY <1>1, <1>3, <1>5, OverwriteOK
<1>7. \A y \in Tasks : Held(y) => task'[y].run \in {task[y].run, "none"} BY <1>4, <1>5 DEF RowsOK
<1>8. HoldIsABarrier' BY <1>7, BarrierKept DEF DispatchBound
<1>9. rest \in Commit BY <1>1 DEF Commit
<1>10. commits' \subseteq commits \cup {rest} BY DEF DispatchBound
<1>11. RestOK' BY <1>1, <1>9, <1>10 DEF DispatchBound, RestOK
<1>12. ControlOK' BY ControlKept DEF DispatchBound
<1>. QED BY <1>6, <1>8, <1>11, <1>12

\* A new event is the only one of its request and of its generation.
LEMMA EventOK ==
    ASSUME ControlOK, NEW c \in Chains, NEW kind \in {"HELD", "RELEASED"}, NEW r \in Requests,
           NEW g \in Nat, ~Recorded(c, kind, r),
           \A e \in events : e.chain = c /\ e.kind = kind => e.generation < g,
           events' = events \cup {Event(c, kind, r, g)}
    PROVE  events' \subseteq ControlEvent /\ RequestActsOnce'
<1>1. Event(c, kind, r, g) \in ControlEvent BY DEF Event, ControlEvent
<1>2. events' \subseteq ControlEvent BY <1>1 DEF ControlOK
<1>3. ASSUME NEW e \in events', NEW f \in events', e.chain = f.chain, e.kind = f.kind,
             e.request = f.request \/ e.generation = f.generation
      PROVE  e = f
  <2>1. CASE e \in events /\ f \in events BY <1>3, <2>1 DEF ControlOK, RequestActsOnce
  <2>2. ASSUME NEW h \in events, h.chain = c, h.kind = kind
        PROVE  h.request # r /\ h.generation # g
    BY <2>2 DEF Recorded, ControlOK, ControlEvent
  <2>3. CASE e \notin events \/ f \notin events BY <1>3, <2>2, <2>3 DEF Event
  <2>. QED BY <2>1, <2>3
<1>. QED BY <1>2, <1>3 DEF RequestActsOnce

\* What a Hold puts behind its barrier was never admitted, so it has no Run.
LEMMA HoldChainOK == ASSUME IInv, NEW c \in Chains, NEW r \in Requests, HoldChain(c, r) PROVE IInv'
<1>. USE DEF IInv
<1>1. PICK l \in Barriers(c) : control' = [control EXCEPT ![c] =
          [held |-> TRUE, barrier |-> l, generation |-> control[c].generation + 1]]
  BY DEF HoldChain
<1>2. /\ l \in Nat
      /\ \A t \in Tasks : ChainOf[t] = c /\ Layer[t] > l => ~Admitted(t)
  BY ChainAssumption DEF Barriers, Barrier, Row
<1>3. UNCHANGED <<task, binding, seen, commits, owed>> BY DEF HoldChain
<1>. DEFINE g == control[c].generation + 1
<1>4. g \in Nat /\ control[c].generation \in Nat BY DEF ControlOK
<1>5. /\ \A d \in Chains : d # c => control'[d] = control[d]
      /\ control'[c] = [held |-> TRUE, barrier |-> l, generation |-> g]
  BY <1>1 DEF ControlOK
<1>6. control' \in [Chains -> [held : BOOLEAN, barrier : Nat, generation : Nat]]
  BY <1>1, <1>2, <1>4 DEF ControlOK
<1>7. HoldIsABarrier'
  <2>. SUFFICES ASSUME NEW t \in Tasks, Held(t)' PROVE task[t].run = "none"
    BY <1>3 DEF HoldIsABarrier
  <2>1. ChainOf[t] \in Chains BY ChainAssumption
  <2>2. CASE ChainOf[t] = c
    <3>1. Layer[t] > l BY <1>5, <2>2 DEF Held
    <3>2. ~(task[t].births > 0) BY <1>2, <2>2, <3>1 DEF Admitted
    <3>. QED BY <3>2 DEF RowsOK, Sound
  <2>3. CASE ChainOf[t] # c
    <3>1. Held(t) BY <1>5, <2>1, <2>3 DEF Held
    <3>. QED BY <3>1 DEF HoldIsABarrier
  <2>. QED BY <2>2, <2>3
<1>8. /\ events' = events \cup {Event(c, "HELD", r, g)} /\ ~Recorded(c, "HELD", r)
      /\ ~control[c].held
  BY DEF HoldChain
<1>9. \A e \in events : e.chain = c => e.generation < g
  BY <1>4 DEF ControlOK, ControlEvent
<1>10. events' \subseteq ControlEvent /\ RequestActsOnce'
  <2>. HIDE DEF g
  <2>. QED BY <1>4, <1>8, <1>9, EventOK
<1>11. ASSUME NEW e \in events'
       PROVE  /\ e.generation <= control'[e.chain].generation
              /\ control'[e.chain].held /\ e.kind = "RELEASED" => e.generation < control'[e.chain].generation
  <2>1. CASE e \in events
    <3>1. e.chain \in Chains /\ e.generation \in Nat BY <2>1 DEF ControlOK, ControlEvent
    <3>2. CASE e.chain = c
      <4>1. e.generation < g BY <1>9, <2>1, <3>2
      <4>2. control'[e.chain].generation = g BY <1>5, <3>2
      <4>. HIDE DEF g
      <4>. QED BY <1>4, <3>1, <4>1, <4>2
    <3>3. CASE e.chain # c BY <1>5, <2>1, <3>1, <3>3 DEF ControlOK
    <3>. QED BY <3>2, <3>3
  <2>2. CASE e = Event(c, "HELD", r, g)
    <3>1. e.chain = c /\ e.kind = "HELD" /\ e.generation = g BY <2>2 DEF Event
    <3>2. control'[c].generation = g BY <1>5
    <3>. HIDE DEF g
    <3>. QED BY <1>4, <3>1, <3>2
  <2>. QED BY <1>8, <2>1, <2>2
<1>12. ControlOK' BY <1>6, <1>10, <1>11 DEF ControlOK
<1>13. RestOK' BY <1>3 DEF RestOK
<1>14. RowsOK(task)' BY <1>3
<1>. QED BY <1>7, <1>12, <1>13, <1>14

\* Releasing a Chain records one more event and lifts one barrier.
LEMMA ReleasedOK ==
    ASSUME IInv, NEW c \in Chains, NEW r \in Requests, Released(c, r)
    PROVE  /\ ControlOK'
           /\ \A t \in Tasks : Held(t)' => Held(t) /\ ChainOf[t] # c
<1>. USE DEF IInv
<1>. DEFINE g == control[c].generation
<1>1. g \in Nat /\ control[c].held BY DEF ControlOK, Released
<1>2. /\ control' = [control EXCEPT ![c].held = FALSE]
      /\ events' = events \cup {Event(c, "RELEASED", r, g)} /\ ~Recorded(c, "RELEASED", r)
  BY DEF Released
<1>3. /\ \A d \in Chains : d # c => control'[d] = control[d]
      /\ control'[c].generation = g /\ ~control'[c].held
  BY <1>2 DEF ControlOK
<1>4. control' \in [Chains -> [held : BOOLEAN, barrier : Nat, generation : Nat]]
  BY <1>2 DEF ControlOK
<1>5. \A e \in events : e.chain = c /\ e.kind = "RELEASED" => e.generation < g
  BY <1>1 DEF ControlOK
<1>6. events' \subseteq ControlEvent /\ RequestActsOnce'
  <2>. HIDE DEF g
  <2>. QED BY <1>1, <1>2, <1>5, EventOK
<1>7. ASSUME NEW e \in events'
      PROVE  /\ e.generation <= control'[e.chain].generation
             /\ control'[e.chain].held /\ e.kind = "RELEASED" => e.generation < control'[e.chain].generation
  <2>1. CASE e \in events
    <3>1. e.chain \in Chains /\ e.generation \in Nat BY <2>1 DEF ControlOK, ControlEvent
    <3>2. e.generation <= control[e.chain].generation BY <2>1 DEF ControlOK
    <3>3. CASE e.chain = c BY <1>3, <3>2, <3>3
    <3>4. CASE e.chain # c BY <1>3, <2>1, <3>1, <3>4 DEF ControlOK
    <3>. QED BY <3>3, <3>4
  <2>2. CASE e = Event(c, "RELEASED", r, g)
    <3>1. e.chain = c /\ e.generation = g BY <2>2 DEF Event
    <3>. HIDE DEF g
    <3>. QED BY <1>1, <1>3, <3>1
  <2>. QED BY <1>2, <2>1, <2>2
<1>8. ControlOK' BY <1>4, <1>6, <1>7 DEF ControlOK
<1>9. ASSUME NEW t \in Tasks, Held(t)' PROVE Held(t) /\ ChainOf[t] # c
  <2>1. ChainOf[t] \in Chains BY ChainAssumption
  <2>. QED BY <1>3, <1>9, <2>1 DEF Held
<1>. QED BY <1>8, <1>9

LEMMA ResumeChainOK ==
    ASSUME IInv, NEW c \in Chains, NEW r \in Requests, NEW refused, ResumeChain(c, r, refused)
    PROVE  IInv'
<1>. USE DEF IInv
<1>1. Released(c, r) /\ UNCHANGED <<binding, seen, owed>> BY DEF ResumeChain
<1>2. ControlOK' BY <1>1, ReleasedOK
<1>3. CASE UNCHANGED <<task, commits>>
  <2>1. RowsOK(task)' /\ RestOK' BY <1>1, <1>3 DEF RestOK
  <2>2. HoldIsABarrier' BY <1>1, <1>3, ReleasedOK DEF HoldIsABarrier
  <2>. QED BY <1>2, <2>1, <2>2
<1>4. CASE \E t \in Anchor(c) : CatchUp(t, refused)
  <2>1. PICK t \in Anchor(c) : CatchUp(t, refused) BY <1>4
  <2>2. t \in Tasks /\ ChainOf[t] = c BY DEF Anchor, Row
  <2>3. task' = Activated(task, t, Sourced(t), refused, {}) BY <2>1 DEF CatchUp
  <2>4. commits' = commits \cup Dispatches(task, t) BY <2>1 DEF CatchUp
  <2>5. RowsOK(task)' BY <2>2, <2>3, ActivatedOK
  <2>6. \A x \in Tasks : ChainOf[x] # c => task'[x] = task[x] BY <2>2, <2>3, ActivatedOK
  <2>7. HoldIsABarrier' BY <1>1, <2>6, ReleasedOK DEF HoldIsABarrier
  <2>8. RestOK' BY <1>1, <2>2, <2>4, DispatchesOK DEF RestOK
  <2>. QED BY <1>2, <2>5, <2>7, <2>8
<1>. QED BY <1>3, <1>4 DEF ResumeChain

\* The rows of the first layer of a Chain that is started or parked.
LEMMA ResumeBeforeFirstOK ==
    ASSUME IInv, NEW c \in Chains, NEW r \in Requests, ResumeBeforeFirst(c, r)
    PROVE  IInv'
<1>. USE DEF IInv
<1>1. Released(c, r) /\ UNCHANGED <<binding, seen, commits, owed>> BY DEF ResumeBeforeFirst
<1>. DEFINE started(t) == [Born(task[t], FALSE) EXCEPT !.status = "TODO"]
            new(t) == IF StartsFirst(c) /\ t \in First[c] THEN started(t) ELSE task[t]
<1>2. task' = [t \in Tasks |-> new(t)] BY DEF ResumeBeforeFirst
<1>3. ASSUME NEW t \in Tasks PROVE Sound(new(t)) /\ (ChainOf[t] # c => new(t) = task[t])
  <2>1. Sound(task[t]) BY DEF RowsOK
  <2>2. Sound(Born(task[t], FALSE)) BY <2>1, BornOK
  <2>3. Sound(started(t)) BY <2>2 DEF Sound, Step, Statuses
  <2>4. t \in First[c] => ChainOf[t] = c BY DEF First, Row
  <2>. HIDE DEF started
  <2>. QED BY <2>1, <2>3, <2>4
<1>. HIDE DEF new
<1>4. RowsOK(task)' BY <1>2, <1>3 DEF RowsOK, Sound
<1>5. HoldIsABarrier' BY <1>1, <1>2, <1>3, ReleasedOK DEF HoldIsABarrier
<1>6. RestOK' BY <1>1 DEF RestOK
<1>7. ControlOK' BY <1>1, ReleasedOK
<1>. QED BY <1>4, <1>5, <1>6, <1>7

LEMMA ResumeRefusedOK ==
    ASSUME IInv, NEW c \in Chains, NEW r \in Requests, ResumeRefused(c, r)
    PROVE  IInv'
<1>. USE DEF IInv
<1>. DEFINE new(t) == IF t \in First[c] THEN Born(task[t], TRUE) ELSE task[t]
<1>1. task' = [t \in Tasks |-> new(t)] BY DEF ResumeRefused
<1>2. ASSUME NEW t \in Tasks PROVE Sound(new(t)) /\ new(t).run = task[t].run
  <2>1. Sound(task[t]) BY DEF RowsOK
  <2>2. Sound(Born(task[t], TRUE)) BY <2>1, BornOK
  <2>3. Born(task[t], TRUE).run = task[t].run BY <2>1 DEF Born, Sound, Step
  <2>. QED BY <2>1, <2>2, <2>3
<1>. HIDE DEF new
<1>3. RowsOK(task)' BY <1>1, <1>2 DEF RowsOK, Sound
<1>4. HoldIsABarrier' BY <1>1, <1>2, BarrierKept DEF ResumeRefused
<1>5. RestOK' BY DEF ResumeRefused, RestOK
<1>6. ControlOK' BY ControlKept DEF ResumeRefused
<1>. QED BY <1>3, <1>4, <1>5, <1>6

-----------------------------------------------------------------------------
(***************************************************************************)
(* The theorems.                                                           *)
(***************************************************************************)
LEMMA NextOK == ASSUME IInv, [Next]_vars PROVE IInv'
<1>1. CASE RunNext
  BY <1>1, ClaimOK, ReadCompletionOK, SucceedRunOK, FailRunOK, EndRunOK DEF RunNext, Statuses
<1>2. CASE OperatorNext
  BY <1>2, OpenedOK, DecidedOK, RejectOK, RebindOK, ChainAssumption DEF OperatorNext
<1>3. CASE ControlNext
  BY <1>3, HoldChainOK, ResumeChainOK, ResumeBeforeFirstOK, ResumeRefusedOK DEF ControlNext
<1>4. CASE DispatchNext
  BY <1>4, DispatchBoundOK DEF DispatchNext
<1>5. CASE UNCHANGED vars
  BY <1>5 DEF vars, IInv, RowsOK, RestOK, ControlOK, RequestActsOnce, HoldIsABarrier, Held
<1>. QED BY <1>1, <1>2, <1>3, <1>4, <1>5 DEF Next

LEMMA Invariance == Spec => []IInv
BY InitOK, NextOK, PTL DEF Spec

\* The columns of Task, Run, ChainControl and its events keep their types,
\* however Chains are layered and bound; a Task is woken MaxResumes times at
\* most.
THEOREM TypeCorrect == Spec => []TypeOK
<1>1. IInv => TypeOK BY DEF IInv, RowsOK, RestOK, ControlOK, TypeOK
<1>. QED BY <1>1, Invariance, PTL

\* No interleaving of completions, gates, operators and dispatches opens a Run
\* beyond the barrier of a held Chain, and a Hold never leaves one there.
THEOREM HoldIsRespected == Spec => []HoldIsABarrier
<1>1. IInv => HoldIsABarrier BY DEF IInv
<1>. QED BY <1>1, Invariance, PTL

\* However often and late a Hold or Resume request is delivered, it is one
\* event, and a generation is held once and released once.
THEOREM RequestsActOnce == Spec => []RequestActsOnce
<1>1. IInv => RequestActsOnce BY DEF IInv, ControlOK
<1>. QED BY <1>1, Invariance, PTL

-----------------------------------------------------------------------------
(***************************************************************************)
(* The first Run of a step.  That a rejected gate never gives birth to a   *)
(* first Run needs what its card stands for: every Agent step before it    *)
(* ran (Reached), and an Agent that is DONE or has a card ran itself.      *)
(***************************************************************************)
PriorBorn(t) == \A x \in Before[t] \cap Agents : task[x].births > 0

Reached ==
    \A t \in Tasks : task[t].births > 0 \/ task[t].status = "DONE" \/ task[t].card = "open" =>
        PriorBorn(t)

AgentsRan ==
    \A t \in Tasks : /\ seen[t] # "none" => task[t].births > 0
                     /\ t \in Agents /\ (task[t].status = "DONE" \/ task[t].card = "open") =>
                           task[t].births > 0

BoundFirst ==
    \A t \in Tasks : binding[t] # Nobody =>
        Before[t] = {} /\ binding[t] \in Tasks /\ ChainOf[binding[t]] # ChainOf[t]

CommitsDone == \A x \in commits : task[x.from].status = "DONE"

JInv == IInv /\ Reached /\ AgentsRan /\ BoundFirst /\ CommitsDone

FirstOK(t) ==
    /\ \A x \in Nearest(t) : task'[x].status = "DONE"
    /\ binding[t] # Nobody => task[binding[t]].status = "DONE"

\* What a step may do to a row: it never forgets a birth, and a first birth, a
\* completion and a card come only to a step that was reached.
Ran(t) == PriorBorn(t) /\ (t \in Agents => task[t].births > 0)

RowStep(t) ==
    /\ task'[t].births >= task[t].births
    /\ task[t].births = 0 /\ task'[t].births > 0 => PriorBorn(t) /\ FirstOK(t)
    /\ task'[t].status = "DONE" => task[t].status = "DONE" \/ Ran(t)
    /\ task'[t].card = "open" => task[t].card = "open" \/ Ran(t) \/ (t \notin Agents /\ PriorBorn(t))

\* Everything before t is DONE, in its Chain and at its binding.
Ready(t) ==
    /\ \A y \in Before[t] : task[y].status = "DONE"
    /\ binding[t] # Nobody => task[binding[t]].status = "DONE"

SeenStep == \A t \in Tasks : seen'[t] # "none" => seen[t] # "none" \/ task[t].births > 0

\* The rows around a row of its Chain.
LEMMA Neighbours ==
    \A t \in Tasks : /\ Before[t] = {x \in Tasks : ChainOf[x] = ChainOf[t] /\ Layer[x] < Layer[t]}
                     /\ After[t] = {x \in Tasks : ChainOf[x] = ChainOf[t] /\ Layer[x] > Layer[t]}
                     /\ LayerOf[t] = {x \in Tasks : ChainOf[x] = ChainOf[t] /\ Layer[x] = Layer[t]}
                     /\ Layer[t] \in Nat
<1>1. \A t \in Tasks : ChainOf[t] \in Chains /\ Layer[t] \in Nat BY ChainAssumption
<1>2. \A t \in Tasks : Row[ChainOf[t]] = {x \in Tasks : ChainOf[x] = ChainOf[t]} BY <1>1 DEF Row
<1>. QED BY <1>1, <1>2 DEF Before, After, LayerOf

LEMMA RowStepsKeep ==
    ASSUME JInv, IInv', \A t \in Tasks : RowStep(t), SeenStep
    PROVE  Reached' /\ AgentsRan'
<1>1. \A t \in Tasks : task[t].births \in Nat /\ task'[t].births \in Nat
  BY DEF JInv, IInv, RowsOK, Step
<1>2. \A t \in Tasks : task[t].births > 0 => task'[t].births > 0 BY <1>1 DEF RowStep
<1>3. \A t \in Tasks : PriorBorn(t) => PriorBorn(t)' BY <1>2, Neighbours DEF PriorBorn
<1>4. Reached'
  <2>. SUFFICES ASSUME NEW t \in Tasks,
                       task'[t].births > 0 \/ task'[t].status = "DONE" \/ task'[t].card = "open"
                PROVE  PriorBorn(t)
    BY <1>3 DEF Reached
  <2>1. CASE task'[t].births > 0 BY <1>1, <2>1 DEF RowStep, JInv, Reached
  <2>2. CASE task'[t].status = "DONE" \/ task'[t].card = "open"
    BY <2>2 DEF RowStep, Ran, JInv, Reached
  <2>. QED BY <2>1, <2>2
<1>5. AgentsRan' BY <1>1, <1>2 DEF SeenStep, RowStep, Ran, JInv, AgentsRan
<1>. QED BY <1>4, <1>5

\* What an activation does to one row.
LEMMA AdvancedIs ==
    ASSUME NEW t \in Tasks, NEW row, Sound(row), NEW sourced, NEW refused
    PROVE  LET new == Advanced(t, row, sourced, refused)
           IN /\ new.births >= row.births
              /\ new.status = "DONE" => row.status = "DONE"
              /\ row.status = "DONE" => new = row
              /\ new.card = "open" => row.card = "open" \/ t \notin Agents
<1>. DEFINE new == Advanced(t, row, sourced, refused)
            woken == Woken(row)
<1>1. row \in Step /\ row.births \in Nat BY DEF Sound, Step
<1>2. CASE LeftAlone(t, row) BY <1>1, <1>2 DEF Advanced
<1>3. CASE ~LeftAlone(t, row)
  <2>1. row.status # "DONE" /\ row.run = "none" BY <1>3 DEF LeftAlone
  <2>2. Sound(woken) BY <1>3, WokenOK DEF LeftAlone
  <2>3. woken.births = row.births /\ woken.status # "DONE" /\ woken.card = row.card
    BY <1>1, <2>1 DEF Woken, Step
  <2>. HIDE DEF woken
  <2>4. woken \in Step /\ woken.births \in Nat BY <2>2 DEF Sound, Step
  <2>5. CASE t \in Agents
    <3>1. new = Born(woken, refused) BY <1>3, <2>5 DEF Advanced, woken
    <3>2. Born(woken, refused).births >= woken.births
      <4>. DEFINE n == woken.births + 1
      <4>1. [woken EXCEPT !.run = "QUEUED", !.births = n].births = n BY <2>4 DEF Step
      <4>2. [woken EXCEPT !.status = "REVIEW"].births = woken.births BY <2>4 DEF Step
      <4>3. n >= woken.births BY <2>4
      <4>. QED BY <2>4, <4>1, <4>2, <4>3 DEF Born
    <3>3. Born(woken, refused).status # "DONE" /\ Born(woken, refused).card = woken.card
      BY <2>3, <2>4 DEF Born, Step
    <3>. HIDE DEF new
    <3>4. new.births >= row.births /\ new.status # "DONE" /\ new.card = row.card
      BY <2>3, <3>1, <3>2, <3>3
    <3>. QED BY <2>1, <3>4 DEF new
  <2>6. CASE t \notin Agents
    <3>1. new = Asked(woken, sourced) BY <1>3, <2>6 DEF Advanced, woken
    <3>2. new.births = woken.births /\ new.status # "DONE" BY <2>3, <2>4, <3>1 DEF Asked, Step
    <3>. HIDE DEF new
    <3>3. new.births >= row.births BY <1>1, <2>3, <3>2
    <3>. QED BY <2>1, <2>6, <3>2, <3>3 DEF new
  <2>. QED BY <2>5, <2>6
<1>. QED BY <1>2, <1>3

\* An activation after t: what it starts was reached, and follows a DONE layer.
LEMMA ActivationSteps ==
    ASSUME JInv, NEW t \in Tasks, NEW row, Sound(row),
           row.births = task[t].births, row.status = "DONE", row.card \in {task[t].card, "none"},
           Ran(t), NEW sourced, NEW refused, NEW barred,
           task' = Activated([task EXCEPT ![t] = row], t, sourced, refused, barred)
    PROVE  /\ \A x \in Tasks : RowStep(x)
           /\ task'[t] = row /\ \A x \in Tasks : ChainOf[x] # ChainOf[t] => task'[x] = task[x]
<1>. DEFINE over == [task EXCEPT ![t] = row]
<1>1. /\ over \in [Tasks -> Step] /\ over[t] = row /\ \A x \in Tasks : x # t => over[x] = task[x]
      /\ RowsOK(over)
  BY OverwriteOK DEF JInv, IInv, RowsOK, Sound
<1>2. task' = [x \in Tasks |-> IF Follows(over, t, x) /\ x \notin barred
                     THEN Advanced(x, over[x], sourced, x \in refused) ELSE over[x]]
  BY DEF Activated
<1>. HIDE DEF over
<1>3. ASSUME NEW x \in Tasks, over[x].status = "DONE" PROVE task'[x] = over[x]
  <2>1. Sound(over[x]) BY <1>1 DEF RowsOK
  <2>2. Advanced(x, over[x], sourced, x \in refused) = over[x] BY <1>3, <2>1, AdvancedIs
  <2>. QED BY <1>2, <2>2
<1>4. \A x \in Tasks : over[x].status = "DONE" /\ x \in Agents => task[x].births > 0
  BY <1>1 DEF JInv, AgentsRan, Ran
<1>0. \A x \in Tasks : Follows(over, t, x) => ChainOf[x] = ChainOf[t] /\ x # t
  BY Neighbours DEF Follows
<1>. SUFFICES ASSUME NEW x \in Tasks PROVE RowStep(x) BY <1>0, <1>1, <1>2
<1>5. task[x].births \in Nat BY DEF JInv, IInv, RowsOK, Step
<1>6. CASE ~Follows(over, t, x) \/ x \in barred
  <2>1. task'[x] = over[x] BY <1>2, <1>6
  <2>2. CASE x = t BY <1>1, <1>5, <2>1, <2>2 DEF RowStep
  <2>3. CASE x # t BY <1>1, <1>5, <2>1, <2>3 DEF RowStep
  <2>. QED BY <2>2, <2>3
<1>7. CASE Follows(over, t, x) /\ x \notin barred
  <2>1. /\ t \in Before[x] /\ x # t /\ LayerDone(over, t)
        /\ \A y \in After[t] : Layer[y] < Layer[x] => over[y].status = "DONE"
    BY <1>7, Neighbours DEF Follows
  <2>2. task'[x] = Advanced(x, task[x], sourced, x \in refused) BY <1>1, <1>2, <1>7, <2>1
  <2>3. Sound(task[x]) BY DEF JInv, IInv, RowsOK
  <2>4. /\ task'[x].births >= task[x].births
        /\ task'[x].status = "DONE" => task[x].status = "DONE"
        /\ task'[x].card = "open" => task[x].card = "open" \/ x \notin Agents
    BY <2>2, <2>3, AdvancedIs
  <2>5. \A y \in Before[x] : \/ y \in Before[t]
                             \/ over[y].status = "DONE"
    BY <2>1, Neighbours DEF LayerDone
  <2>6. PriorBorn(x) BY <1>4, <2>5, Neighbours DEF PriorBorn, Ran
  <2>7. \A y \in Nearest(x) : y \in Before[x] /\ y \notin Before[t]
    BY <2>1, Neighbours DEF Nearest
  <2>8. FirstOK(x)
    <3>1. \A y \in Nearest(x) : y \in Tasks /\ task'[y].status = "DONE"
      BY <1>3, <2>5, <2>7, Neighbours
    <3>2. binding[x] = Nobody BY <2>1 DEF JInv, BoundFirst
    <3>. QED BY <3>1, <3>2 DEF FirstOK
  <2>. QED BY <2>4, <2>6, <2>8 DEF RowStep
<1>. QED BY <1>6, <1>7

\* One row is rewritten.
LEMMA OneRowSteps ==
    ASSUME JInv, NEW t \in Tasks, NEW row, task' = [task EXCEPT ![t] = row],
           row.births >= task[t].births,
           task[t].births = 0 /\ row.births > 0 => Ready(t),
           row.status = "DONE" => task[t].status = "DONE" \/ Ran(t),
           row.card = "open" => task[t].card = "open" \/ Ran(t)
    PROVE  /\ \A x \in Tasks : RowStep(x)
           /\ task'[t] = row /\ \A x \in Tasks : x # t => task'[x] = task[x]
<1>1. task'[t] = row /\ \A x \in Tasks : x # t => task'[x] = task[x] BY DEF JInv, IInv, RowsOK
<1>2. ASSUME NEW x \in Tasks, x # t PROVE RowStep(x)
  <2>1. task[x].births \in Nat BY DEF JInv, IInv, RowsOK, Step
  <2>. QED BY <1>1, <1>2, <2>1 DEF RowStep
<1>3. RowStep(t)
  <2>1. ASSUME \A y \in Before[t] : task[y].status = "DONE" PROVE PriorBorn(t)
    BY <2>1, Neighbours DEF PriorBorn, JInv, AgentsRan
  <2>2. \A y \in Nearest(t) : y \in Before[t] /\ y \in Tasks /\ y # t BY Neighbours DEF Nearest
  <2>. QED BY <1>1, <2>1, <2>2 DEF RowStep, FirstOK, Ready
<1>. QED BY <1>1, <1>2, <1>3

\* Rows of a Chain that nobody has locked are rewritten; what is committed next
\* starts from a DONE step.
LEMMA CommitsKept ==
    ASSUME JInv, NEW c, ~Locked(c),
           \A x \in Tasks : ChainOf[x] # c => task'[x] = task[x],
           \A d \in commits' : d \in commits \/ task'[d.from].status = "DONE"
    PROVE  CommitsDone'
<1>1. \A x \in commits : x.from \in Tasks /\ ChainOf[x.from] # c
  BY DEF JInv, IInv, RestOK, Commit, Locked
<1>. QED BY <1>1 DEF CommitsDone, JInv

\* The first three facts of a step that leaves the bindings alone.
JStep == (\A x \in Tasks : RowStep(x)) /\ SeenStep /\ BoundFirst' /\ CommitsDone'

LEMMA SameRows ==
    ASSUME JInv, UNCHANGED task
    PROVE  \A x \in Tasks : RowStep(x)
<1>1. \A x \in Tasks : task[x].births \in Nat BY DEF JInv, IInv, RowsOK, Step
<1>. QED BY <1>1 DEF RowStep

\* One row of an unlocked Chain is rewritten and nothing is committed.
LEMMA PlainStep ==
    ASSUME JInv, NEW t \in Tasks, ~Locked(ChainOf[t]), NEW row, task' = [task EXCEPT ![t] = row],
           row.births >= task[t].births,
           task[t].births = 0 /\ row.births > 0 => Ready(t),
           row.status = "DONE" => task[t].status = "DONE" \/ Ran(t),
           row.card = "open" => task[t].card = "open" \/ Ran(t),
           binding' = binding, commits' = commits, \A x \in Tasks : seen'[x] \in {seen[x], "none"}
    PROVE  JStep
<1>1. /\ \A x \in Tasks : RowStep(x)
      /\ task'[t] = row /\ \A x \in Tasks : x # t => task'[x] = task[x]
  BY OneRowSteps
<1>2. \A x \in Tasks : ChainOf[x] # ChainOf[t] => task'[x] = task[x] BY <1>1
<1>3. CommitsDone' BY <1>2, CommitsKept
<1>4. BoundFirst' BY DEF JInv, BoundFirst
<1>5. SeenStep BY DEF SeenStep
<1>. QED BY <1>1, <1>3, <1>4, <1>5 DEF JStep

\* A completion is under way only of a Run that was born.
LEMMA SeenRan == ASSUME JInv, NEW t \in Tasks, seen[t] # "none" PROVE Ran(t) /\ task[t].births > 0
BY DEF JInv, AgentsRan, Reached, Ran

LEMMA RunSteps ==
    ASSUME JInv, NEW t \in Tasks,
           \/ Claim(t) \/ (\E retry \in BOOLEAN : FailRun(t, retry))
           \/ (\E status \in {"REVIEW", "BACKLOG"} : EndRun(t, status))
    PROVE  JStep
<1>1. task[t] \in Step /\ task[t].births \in Nat /\ ~Locked(ChainOf[t])
  BY DEF JInv, IInv, RowsOK, Step, Claim, FailRun, EndRun
<1>2. CASE Claim(t)
  <2>. DEFINE row == [task[t] EXCEPT !.run = "CLAIMED", !.status = "DOING"]
  <2>1. row.births = task[t].births /\ row.status = "DOING" /\ row.card = task[t].card
    BY <1>1 DEF Step
  <2>2. task' = [task EXCEPT ![t] = row] BY <1>2 DEF Claim, JInv, IInv, RowsOK
  <2>. HIDE DEF row
  <2>3. binding' = binding /\ commits' = commits /\ \A x \in Tasks : seen'[x] \in {seen[x], "none"}
    BY <1>2 DEF Claim
  <2>4. row.births >= task[t].births /\ ~(task[t].births = 0 /\ row.births > 0) BY <1>1, <2>1
  <2>. QED BY <1>1, <2>1, <2>2, <2>3, <2>4, PlainStep
<1>3. ASSUME NEW retry \in BOOLEAN, FailRun(t, retry) PROVE JStep
  <2>. DEFINE n == IF retry THEN task[t].births + 1 ELSE task[t].births
              run == IF retry THEN "QUEUED" ELSE "none"
              status == IF task[t].status # seen[t] THEN task[t].status
                        ELSE IF retry THEN "DOING" ELSE "REVIEW"
              row == [task[t] EXCEPT !.run = run, !.births = n, !.status = status]
  <2>1. n \in Nat /\ n >= task[t].births BY <1>1
  <2>2. status = "DONE" => task[t].status = "DONE" OBVIOUS
  <2>3. task' = [task EXCEPT ![t] = row] BY <1>3 DEF FailRun, Failed
  <2>. HIDE DEF n, run, status
  <2>4. row.births = n /\ row.status = status /\ row.card = task[t].card BY <1>1 DEF Step
  <2>. HIDE DEF row
  <2>5. task[t].births > 0 BY <1>3, SeenRan DEF FailRun
  <2>6. binding' = binding /\ commits' = commits /\ \A x \in Tasks : seen'[x] \in {seen[x], "none"}
    BY <1>3 DEF FailRun, JInv, IInv, RestOK
  <2>7. row.births >= task[t].births /\ ~(task[t].births = 0 /\ row.births > 0)
    BY <1>1, <2>1, <2>4, <2>5
  <2>8. row.status = "DONE" => task[t].status = "DONE" BY <2>2, <2>4
  <2>9. row.card = "open" => task[t].card = "open" BY <2>4
  <2>. QED BY <1>1, <2>3, <2>6, <2>7, <2>8, <2>9, PlainStep
<1>4. ASSUME NEW status \in {"REVIEW", "BACKLOG"}, EndRun(t, status) PROVE JStep
  <2>. DEFINE row == [task[t] EXCEPT !.run = "none", !.status = status]
  <2>1. row.births = task[t].births /\ row.status = status /\ row.card = task[t].card
    BY <1>1 DEF Step
  <2>2. task' = [task EXCEPT ![t] = row] BY <1>4 DEF EndRun, JInv, IInv, RowsOK
  <2>. HIDE DEF row
  <2>3. binding' = binding /\ commits' = commits /\ \A x \in Tasks : seen'[x] \in {seen[x], "none"}
    BY <1>4 DEF EndRun
  <2>4. row.births >= task[t].births /\ ~(task[t].births = 0 /\ row.births > 0) BY <1>1, <2>1
  <2>5. row.status # "DONE" BY <2>1
  <2>. QED BY <1>1, <2>1, <2>2, <2>3, <2>4, <2>5, PlainStep
<1>. QED BY <1>2, <1>3, <1>4

LEMMA ReadSteps == ASSUME JInv, NEW t \in Tasks, ReadCompletion(t) PROVE JStep
<1>1. \A x \in Tasks : RowStep(x) BY SameRows DEF ReadCompletion
<1>2. task[t].births > 0 BY DEF ReadCompletion, JInv, IInv, RowsOK, Sound
<1>3. SeenStep BY <1>2 DEF ReadCompletion, SeenStep, JInv, IInv, RestOK
<1>4. BoundFirst' /\ CommitsDone' BY DEF ReadCompletion, JInv, BoundFirst, CommitsDone
<1>. QED BY <1>1, <1>3, <1>4 DEF JStep

\* A Run born by the operator, on a step whose past is DONE or that ran before.
LEMMA OpenedSteps ==
    ASSUME JInv, NEW t \in Tasks, NEW refused \in BOOLEAN, Start(t, refused) \/ Retry(t, refused)
    PROVE  JStep
<1>. DEFINE row == IF refused THEN Born(task[t], TRUE)
                   ELSE [Born(task[t], FALSE) EXCEPT !.status = "TODO"]
            n == task[t].births + 1
<1>1. task[t] \in Step /\ task[t].births \in Nat /\ ~Locked(ChainOf[t]) /\ task[t].run = "none"
  BY DEF JInv, IInv, RowsOK, Step, Start, Retry
<1>2. Born(task[t], TRUE) = [task[t] EXCEPT !.status = "REVIEW"] BY <1>1 DEF Born
<1>3. Born(task[t], FALSE) = [task[t] EXCEPT !.run = "QUEUED", !.births = n] BY <1>1 DEF Born
<1>4. n \in Nat /\ n >= task[t].births BY <1>1
<1>. HIDE DEF n
<1>5. row.births \in {task[t].births, n} /\ row.status \in {"REVIEW", "TODO"} /\ row.card = task[t].card
  BY <1>1, <1>2, <1>3, <1>4 DEF Step
<1>6. task' = [task EXCEPT ![t] = row] BY DEF Start, Retry
<1>. HIDE DEF row
<1>7. row.births >= task[t].births BY <1>1, <1>4, <1>5
<1>8. task[t].births = 0 => Ready(t) BY <1>1 DEF Start, Retry, Blocked, Resolved, Ready
<1>9. binding' = binding /\ commits' = commits /\ \A x \in Tasks : seen'[x] \in {seen[x], "none"}
  BY DEF Start, Retry
<1>. QED BY <1>1, <1>5, <1>6, <1>7, <1>8, <1>9, PlainStep

\* A step that is DONE by now and what it activates and commits.
LEMMA CompletedSteps ==
    ASSUME JInv, NEW t \in Tasks, NEW row, Sound(row),
           row.births = task[t].births, row.status = "DONE", row.card \in {task[t].card, "none"},
           Ran(t), NEW sourced, NEW refused, NEW barred,
           task' = Activated([task EXCEPT ![t] = row], t, sourced, refused, barred),
           commits' = commits \cup Dispatches([task EXCEPT ![t] = row], t),
           ~Locked(ChainOf[t])
    PROVE  (\A x \in Tasks : RowStep(x)) /\ CommitsDone'
<1>1. /\ \A x \in Tasks : RowStep(x)
      /\ task'[t] = row /\ \A x \in Tasks : ChainOf[x] # ChainOf[t] => task'[x] = task[x]
  BY ActivationSteps
<1>2. \A d \in Dispatches([task EXCEPT ![t] = row], t) : d.from = t BY DEF Dispatches
<1>3. \A d \in commits' : d \in commits \/ task'[d.from].status = "DONE" BY <1>1, <1>2
<1>. QED BY <1>1, <1>3, CommitsKept

LEMMA SucceedSteps == ASSUME JInv, NEW t \in Tasks, NEW refused, SucceedRun(t, refused) PROVE JStep
<1>. DEFINE done == [Ended(t) EXCEPT !.status = "DONE"]
            asked == [Ended(t) EXCEPT !.status = "REVIEW", !.card = "open"]
<1>1. Ran(t) BY SeenRan DEF SucceedRun
<1>2. task[t] \in Step /\ task[t].births \in Nat /\ ~Locked(ChainOf[t])
  BY DEF JInv, IInv, RowsOK, Step, SucceedRun
<1>3. /\ Ended(t).births = task[t].births /\ Ended(t).status = task[t].status
      /\ Ended(t).card = task[t].card
      /\ done.births = task[t].births /\ done.status = "DONE" /\ done.card = task[t].card
      /\ asked.births = task[t].births /\ asked.status = "REVIEW"
  BY <1>2 DEF Ended, Step
<1>4. Sound(done) BY ClosedOK DEF JInv, Statuses
<1>5. binding' = binding /\ \A x \in Tasks : seen'[x] \in {seen[x], "none"}
  BY DEF SucceedRun, JInv, IInv, RestOK
<1>. DEFINE ended == Ended(t)
<1>. HIDE DEF done, asked, ended
<1>6. \/ task' = [task EXCEPT ![t] = ended] /\ commits' = commits
      \/ task' = [task EXCEPT ![t] = asked] /\ commits' = commits
      \/ /\ task' = Activated([task EXCEPT ![t] = done], t, TRUE, refused, Beyond)
         /\ commits' = commits \cup Dispatches([task EXCEPT ![t] = done], t)
  BY DEF SucceedRun, done, asked, ended
<1>10. /\ ended.births >= task[t].births /\ ~(task[t].births = 0 /\ ended.births > 0)
       /\ asked.births >= task[t].births /\ ~(task[t].births = 0 /\ asked.births > 0)
       /\ ended.status = task[t].status /\ ended.card = task[t].card
  BY <1>2, <1>3 DEF ended
<1>7. CASE task' = [task EXCEPT ![t] = ended] /\ commits' = commits
  BY <1>2, <1>5, <1>7, <1>10, PlainStep
<1>8. CASE task' = [task EXCEPT ![t] = asked] /\ commits' = commits
  BY <1>1, <1>2, <1>3, <1>5, <1>8, <1>10, PlainStep
<1>9. CASE /\ task' = Activated([task EXCEPT ![t] = done], t, TRUE, refused, Beyond)
           /\ commits' = commits \cup Dispatches([task EXCEPT ![t] = done], t)
  <2>1. (\A x \in Tasks : RowStep(x)) /\ CommitsDone'
    BY <1>1, <1>2, <1>3, <1>4, <1>9, CompletedSteps
  <2>2. SeenStep BY <1>5 DEF SeenStep
  <2>. QED BY <1>5, <2>1, <2>2 DEF JStep, JInv, BoundFirst
<1>. QED BY <1>6, <1>7, <1>8, <1>9

LEMMA DecidedSteps ==
    ASSUME JInv, NEW t \in Tasks, NEW refused, Approve(t, refused) \/ HumanDone(t, refused)
    PROVE  JStep
<1>. DEFINE row == [task[t] EXCEPT !.status = "DONE", !.card = "none"]
<1>1. task[t] \in Step /\ ~Locked(ChainOf[t])
  BY DEF JInv, IInv, RowsOK, Approve, HumanDone
<1>2. Sound(row) BY ClosedOK DEF JInv, Statuses
<1>3. row.births = task[t].births /\ row.status = "DONE" /\ row.card = "none" BY <1>1 DEF Step
<1>4. [task EXCEPT ![t] = row] = [task EXCEPT ![t].status = "DONE", ![t].card = "none"]
  BY DEF JInv, IInv, RowsOK, Step
<1>. HIDE DEF row
<1>5. Ran(t)
  <2>1. CASE Approve(t, refused) BY <2>1 DEF Approve, JInv, Reached, AgentsRan, Ran
  <2>2. CASE HumanDone(t, refused)
    <3>1. \A y \in Before[t] : y \in Tasks /\ task[y].status = "DONE"
      BY <2>2, Neighbours DEF HumanDone, Blocked
    <3>. QED BY <2>2, <3>1 DEF HumanDone, JInv, AgentsRan, Ran, PriorBorn
  <2>. QED BY <2>1, <2>2
<1>6. PICK sourced \in BOOLEAN : task' = Activated([task EXCEPT ![t] = row], t, sourced, refused, Beyond)
  BY <1>4 DEF Approve, HumanDone
<1>7. commits' = commits \cup Dispatches([task EXCEPT ![t] = row], t)
  BY <1>4 DEF Approve, HumanDone
<1>8. (\A x \in Tasks : RowStep(x)) /\ CommitsDone'
  BY <1>1, <1>2, <1>3, <1>5, <1>6, <1>7, CompletedSteps
<1>9. UNCHANGED <<binding, seen>> BY DEF Approve, HumanDone
<1>. QED BY <1>8, <1>9 DEF JStep, SeenStep, JInv, BoundFirst

\* What a birth does to a row.
LEMMA BornIs ==
    ASSUME NEW row, Sound(row), NEW refused
    PROVE  LET new == Born(row, refused)
           IN /\ new.births >= row.births /\ new.births \in Nat
              /\ refused => new.births = row.births
              /\ new.status = "DONE" => row.status = "DONE"
              /\ new.card = row.card
              /\ [new EXCEPT !.status = "TODO"].births = new.births
              /\ [new EXCEPT !.status = "TODO"].status = "TODO"
              /\ [new EXCEPT !.status = "TODO"].card = new.card
<1>. DEFINE n == row.births + 1
            parked == [row EXCEPT !.status = "REVIEW"]
            queued == [row EXCEPT !.run = "QUEUED", !.births = n]
            new == Born(row, refused)
<1>1. row \in Step /\ row.births \in Nat BY DEF Sound, Step
<1>2. n \in Nat /\ n >= row.births BY <1>1
<1>3. new \in Step BY BornOK DEF Sound
<1>4. parked.births = row.births /\ parked.status = "REVIEW" /\ parked.card = row.card
  BY <1>1 DEF Step
<1>. HIDE DEF n
<1>5. queued.births = n /\ queued.status = row.status /\ queued.card = row.card BY <1>1 DEF Step
<1>6. new = IF row.run # "none" THEN row ELSE IF refused THEN parked ELSE queued
  BY DEF Born, n
<1>. HIDE DEF parked, queued, new
<1>7. new.births >= row.births BY <1>1, <1>2, <1>4, <1>5, <1>6
<1>8. /\ refused => new.births = row.births
      /\ new.status = "DONE" => row.status = "DONE"
      /\ new.card = row.card
  BY <1>4, <1>5, <1>6
<1>9. new.births \in Nat BY <1>3 DEF Step
<1>10. /\ [new EXCEPT !.status = "TODO"].births = new.births
       /\ [new EXCEPT !.status = "TODO"].status = "TODO"
       /\ [new EXCEPT !.status = "TODO"].card = new.card
  BY <1>3 DEF Step
<1>. QED BY <1>7, <1>8, <1>9, <1>10 DEF new

\* A rejection sends a step back that ran: its own gate's Agent, or one before it.
LEMMA RejectSteps ==
    ASSUME JInv, NEW t \in Tasks, NEW x \in Tasks, NEW refused \in BOOLEAN, Reject(t, x, refused)
    PROVE  JStep
<1>. DEFINE gate == [task[t] EXCEPT !.card = "rejected", !.status = "TODO"]
            mid == [task EXCEPT ![t] = gate]
            redo == [mid[x] EXCEPT !.status = "TODO"]
            row == Born(redo, refused)
<1>1. RowsOK(task) /\ ~Locked(ChainOf[t]) BY DEF JInv, IInv, Reject
<1>2. Sound(gate) BY <1>1 DEF RowsOK, Sound, Step, Statuses
<1>3. gate.births = task[t].births /\ gate.status = "TODO" /\ gate.card = "rejected"
  BY <1>1 DEF RowsOK, Step
<1>4. task' = [mid EXCEPT ![x] = row] BY DEF Reject
<1>. HIDE DEF gate
<1>5. /\ RowsOK(mid) /\ mid[t] = gate /\ \A y \in Tasks : y # t => mid[y] = task[y]
  BY <1>1, <1>2, OverwriteOK DEF RowsOK
<1>. HIDE DEF mid
<1>6. mid[x] \in Step /\ Sound(redo) BY <1>5 DEF RowsOK, Sound, Step, Statuses
<1>7. redo.births = mid[x].births /\ redo.status = "TODO" /\ redo.card = mid[x].card
  BY <1>6 DEF Step
<1>. HIDE DEF redo
<1>8. row.births >= redo.births /\ row.status # "DONE" /\ row.card = redo.card
  BY <1>6, <1>7, BornIs
<1>. HIDE DEF row
<1>9. task'[x] = row /\ \A y \in Tasks : y # x => task'[y] = mid[y] BY <1>4, <1>5 DEF RowsOK
<1>10. task[x].births > 0 /\ ChainOf[x] = ChainOf[t]
  <2>1. PriorBorn(t) /\ task[t].card = "open" BY DEF Reject, JInv, Reached
  <2>2. CASE t \in Agents BY <2>1, <2>2 DEF Reject, RedoTargets, JInv, AgentsRan
  <2>3. CASE t \notin Agents
    <3>1. x \in Before[t] \cap Agents BY <2>3 DEF Reject, RedoTargets
    <3>. QED BY <2>1, <3>1, Neighbours DEF PriorBorn
  <2>. QED BY <2>2, <2>3
<1>11. \A y \in Tasks : task[y].births \in Nat BY <1>1 DEF RowsOK, Step
<1>12. row.births >= task[x].births /\ (row.card = "open" => task[x].card = "open")
  BY <1>3, <1>5, <1>7, <1>8
<1>13. ASSUME NEW y \in Tasks PROVE RowStep(y)
  <2>1. CASE y = x BY <1>8, <1>9, <1>10, <1>11, <1>12, <2>1 DEF RowStep
  <2>2. CASE y # x /\ y = t BY <1>3, <1>5, <1>9, <1>11, <2>2 DEF RowStep
  <2>3. CASE y # x /\ y # t BY <1>5, <1>9, <1>11, <2>3 DEF RowStep
  <2>. QED BY <2>1, <2>2, <2>3
<1>14. \A y \in Tasks : ChainOf[y] # ChainOf[t] => task'[y] = task[y] BY <1>5, <1>9, <1>10
<1>15. UNCHANGED <<binding, seen, commits>> BY DEF Reject
<1>16. CommitsDone' BY <1>1, <1>14, <1>15, CommitsKept
<1>. QED BY <1>13, <1>15, <1>16 DEF JStep, SeenStep, JInv, BoundFirst

LEMMA RebindSteps ==
    ASSUME JInv, NEW t \in Tasks, NEW p \in Tasks \cup {Nobody}, Rebind(t, p)
    PROVE  JStep
<1>1. \A x \in Tasks : RowStep(x) BY SameRows DEF Rebind
<1>2. BoundFirst' BY DEF Rebind, JInv, IInv, RestOK, BoundFirst
<1>. QED BY <1>1, <1>2 DEF Rebind, JStep, SeenStep, JInv, CommitsDone

LEMMA DispatchSteps ==
    ASSUME JInv, NEW x \in commits, NEW b \in x.todo, NEW refused \in BOOLEAN, DispatchBound(x, b, refused)
    PROVE  JStep
<1>. DEFINE row == Dispatched(x, b, task[b], refused)
            rest == [x EXCEPT !.todo = @ \ {b}, !.done = @ \cup {b}]
<1>1. x \in Commit /\ x.from \in Tasks /\ b \in Tasks BY DEF JInv, IInv, RestOK, Commit
<1>2. Sound(task[b]) /\ task[b] \in Step /\ task[b].births \in Nat
  BY <1>1 DEF JInv, IInv, RowsOK, Sound, Step
<1>3. row.births >= task[b].births /\ (row.status = "DONE" => task[b].status = "DONE")
      /\ row.card = task[b].card /\ (binding[b] # x.from => row = task[b])
  <2>. DEFINE parked == [task[b] EXCEPT !.status = "REVIEW"]
              born == Born(task[b], refused)
  <2>1. /\ born.births >= task[b].births /\ (born.status = "DONE" => task[b].status = "DONE")
        /\ born.card = task[b].card
    BY <1>2, BornIs
  <2>2. parked.births = task[b].births /\ parked.status = "REVIEW" /\ parked.card = task[b].card
    BY <1>2 DEF Step
  <2>3. row \in {task[b], parked, born} /\ (binding[b] # x.from => row = task[b]) BY DEF Dispatched
  <2>. HIDE DEF parked, born, row
  <2>4. row.births >= task[b].births BY <1>2, <2>1, <2>2, <2>3
  <2>. QED BY <2>1, <2>2, <2>3, <2>4
<1>4. task' = [task EXCEPT ![b] = row] BY DEF DispatchBound
<1>. HIDE DEF row
<1>5. binding[b] = x.from => Before[b] = {} /\ ChainOf[x.from] # ChainOf[b] /\ Ready(b)
  BY <1>1, ChainAssumption DEF JInv, BoundFirst, CommitsDone, Ready
<1>6. task[b].births = 0 /\ row.births > 0 => Ready(b) BY <1>2, <1>3, <1>5
<1>7. /\ \A y \in Tasks : RowStep(y)
      /\ task'[b] = row /\ \A y \in Tasks : y # b => task'[y] = task[y]
  BY <1>1, <1>3, <1>4, <1>6, OneRowSteps
<1>8. rest.from = x.from BY <1>1 DEF Commit
<1>9. \A y \in commits' : y \in commits \ {x} \/ y = rest BY DEF DispatchBound
<1>10. \A y \in commits \ {x} : y.from \in Tasks /\ y.from # b
  BY <1>1 DEF DispatchBound, JInv, IInv, RestOK, Commit
<1>11. task'[x.from].status = "DONE"
  <2>1. task[x.from].status = "DONE" BY DEF JInv, CommitsDone
  <2>2. CASE x.from # b BY <1>1, <1>7, <2>1, <2>2
  <2>3. CASE x.from = b BY <1>3, <1>5, <1>7, <2>1, <2>3
  <2>. QED BY <2>2, <2>3
<1>. HIDE DEF rest
<1>12. CommitsDone'
  <2>. SUFFICES ASSUME NEW y \in commits' PROVE task'[y.from].status = "DONE" BY DEF CommitsDone
  <2>1. CASE y \in commits \ {x} BY <1>7, <1>10, <2>1 DEF JInv, CommitsDone
  <2>2. CASE y = rest BY <1>8, <1>11, <2>2
  <2>. QED BY <1>9, <2>1, <2>2
<1>. QED BY <1>7, <1>12 DEF DispatchBound, JStep, SeenStep, JInv, BoundFirst

LEMMA HoldSteps == ASSUME JInv, NEW c \in Chains, NEW r \in Requests, HoldChain(c, r) PROVE JStep
<1>1. \A x \in Tasks : RowStep(x) BY SameRows DEF HoldChain
<1>. QED BY <1>1 DEF HoldChain, JStep, SeenStep, JInv, BoundFirst, CommitsDone

\* Catching up starts what the completion of the anchor would have started.
LEMMA ResumeChainSteps ==
    ASSUME JInv, NEW c \in Chains, NEW r \in Requests, NEW refused, ResumeChain(c, r, refused)
    PROVE  JStep
<1>1. ~Locked(c) /\ UNCHANGED <<binding, seen>> BY DEF ResumeChain, Released
<1>2. CASE UNCHANGED <<task, commits>>
  <2>1. \A x \in Tasks : RowStep(x) BY <1>2, SameRows
  <2>. QED BY <1>1, <1>2, <2>1 DEF JStep, SeenStep, JInv, BoundFirst, CommitsDone
<1>3. CASE \E t \in Anchor(c) : CatchUp(t, refused)
  <2>1. PICK t \in Anchor(c) : CatchUp(t, refused) BY <1>3
  <2>2. t \in Tasks /\ ChainOf[t] = c BY DEF Anchor, Row
  <2>3. task[t].status = "DONE" BY <2>2, Neighbours DEF Anchor, LayerDone
  <2>4. Ran(t) BY <2>2, <2>3 DEF JInv, Reached, AgentsRan, Ran
  <2>5. [task EXCEPT ![t] = task[t]] = task /\ Sound(task[t]) BY <2>2 DEF JInv, IInv, RowsOK
  <2>6. /\ task' = Activated([task EXCEPT ![t] = task[t]], t, Sourced(t), refused, {})
        /\ commits' = commits \cup Dispatches([task EXCEPT ![t] = task[t]], t)
    BY <2>1, <2>5 DEF CatchUp
  <2>7. (\A x \in Tasks : RowStep(x)) /\ CommitsDone'
    BY <1>1, <2>2, <2>3, <2>4, <2>5, <2>6, CompletedSteps
  <2>. QED BY <1>1, <2>7 DEF JStep, SeenStep, JInv, BoundFirst
<1>. QED BY <1>2, <1>3 DEF ResumeChain

\* Resume of a Chain that waits before its first layer.
LEMMA ResumeFirstSteps ==
    ASSUME JInv, NEW c \in Chains, NEW r \in Requests, ResumeBeforeFirst(c, r) \/ ResumeRefused(c, r)
    PROVE  JStep
<1>. DEFINE started(t) == [Born(task[t], FALSE) EXCEPT !.status = "TODO"]
            parked(t) == Born(task[t], TRUE)
<1>1. ~Locked(c) /\ UNCHANGED <<binding, seen, commits>>
  BY DEF ResumeBeforeFirst, ResumeRefused, Released
<1>2. \A t \in Tasks :
         \/ task'[t] = task[t]
         \/ t \in First[c] /\ task'[t] \in {started(t), parked(t)}
              /\ (task'[t] = started(t) => StartsFirst(c) \/ started(t) = parked(t))
  <2>1. CASE ResumeBeforeFirst(c, r) BY <2>1 DEF ResumeBeforeFirst
  <2>2. CASE ResumeRefused(c, r) BY <2>2 DEF ResumeRefused
  <2>. QED BY <2>1, <2>2
<1>3. ASSUME NEW t \in Tasks PROVE RowStep(t) /\ (ChainOf[t] # c => task'[t] = task[t])
  <2>1. Sound(task[t]) /\ task[t].births \in Nat BY DEF JInv, IInv, RowsOK, Sound, Step
  <2>2. /\ started(t).births >= task[t].births /\ started(t).status # "DONE"
        /\ started(t).card = task[t].card
        /\ parked(t).births = task[t].births /\ (parked(t).status = "DONE" => task[t].status = "DONE")
        /\ parked(t).card = task[t].card
    <3>0. ASSUME NEW f
          PROVE  /\ Born(task[t], f).births >= task[t].births /\ (f => Born(task[t], f).births = task[t].births)
                 /\ Born(task[t], f).status = "DONE" => task[t].status = "DONE"
                 /\ Born(task[t], f).card = task[t].card
      <4>. DEFINE new == Born(task[t], f)
      <4>1. /\ new.births >= task[t].births
            /\ f => new.births = task[t].births
            /\ new.status = "DONE" => task[t].status = "DONE"
            /\ new.card = task[t].card
        BY <2>1, BornIs
      <4>. QED BY <4>1
    <3>1. /\ parked(t).births = task[t].births /\ parked(t).card = task[t].card
          /\ parked(t).status = "DONE" => task[t].status = "DONE"
      BY <3>0
    <3>2. started(t).births = Born(task[t], FALSE).births BY <2>1, BornIs
    <3>3. started(t).status = "TODO" /\ started(t).card = Born(task[t], FALSE).card BY <2>1, BornIs
    <3>4. /\ Born(task[t], FALSE).births >= task[t].births
          /\ Born(task[t], FALSE).card = task[t].card
      BY <3>0
    <3>. HIDE DEF started, parked
    <3>. QED BY <3>1, <3>2, <3>3, <3>4
  <2>3. t \in First[c] => Before[t] = {} /\ ChainOf[t] = c BY ChainAssumption DEF First, Row
  <2>. HIDE DEF started, parked
  <2>4. CASE task'[t] = task[t] BY <2>1, <2>4 DEF RowStep
  <2>5. CASE t \in First[c] /\ task'[t] = parked(t) BY <2>1, <2>2, <2>3, <2>5 DEF RowStep
  <2>6. CASE t \in First[c] /\ task'[t] = started(t) /\ StartsFirst(c)
    <3>1. PriorBorn(t) /\ FirstOK(t)
      BY <2>3, <2>6 DEF PriorBorn, FirstOK, Nearest, StartsFirst, Resolved
    <3>. QED BY <2>1, <2>2, <2>3, <2>6, <3>1 DEF RowStep
  <2>. QED BY <1>2, <2>3, <2>4, <2>5, <2>6
<1>4. \A t \in Tasks : ChainOf[t] # c => task'[t] = task[t] BY <1>3
<1>5. CommitsDone' BY <1>1, <1>4, CommitsKept
<1>. QED BY <1>1, <1>3, <1>5 DEF JStep, SeenStep, JInv, BoundFirst

LEMMA NextSteps == ASSUME JInv, [Next]_vars PROVE JStep
<1>1. CASE RunNext BY <1>1, RunSteps, ReadSteps, SucceedSteps DEF RunNext
<1>2. CASE OperatorNext
  BY <1>2, OpenedSteps, DecidedSteps, RejectSteps, RebindSteps, ChainAssumption DEF OperatorNext
<1>3. CASE ControlNext
  BY <1>3, HoldSteps, ResumeChainSteps, ResumeFirstSteps DEF ControlNext
<1>4. CASE DispatchNext BY <1>4, DispatchSteps DEF DispatchNext
<1>5. CASE UNCHANGED vars
  <2>1. \A x \in Tasks : RowStep(x) BY <1>5, SameRows DEF vars
  <2>. QED BY <1>5, <2>1 DEF vars, JStep, SeenStep, JInv, BoundFirst, CommitsDone
<1>. QED BY <1>1, <1>2, <1>3, <1>4, <1>5 DEF Next

LEMMA JInit == Init => JInv
<1>. SUFFICES ASSUME Init PROVE JInv OBVIOUS
<1>1. IInv BY InitOK
<1>2. \A t \in Tasks : task[t].births = 0 /\ task[t].status = "TODO" /\ task[t].card = "none"
                       /\ seen[t] = "none"
  BY DEF Init, Idle
<1>3. Reached /\ AgentsRan BY <1>2 DEF Reached, AgentsRan
<1>4. BoundFirst /\ CommitsDone
  BY ChainAssumption, TemplateAssumption DEF Init, BoundFirst, CommitsDone
<1>. QED BY <1>1, <1>3, <1>4 DEF JInv

LEMMA JNext == ASSUME JInv, [Next]_vars PROVE JInv'
<1>1. JStep BY NextSteps
<1>2. IInv' BY NextOK DEF JInv
<1>3. Reached' /\ AgentsRan' BY <1>1, <1>2, RowStepsKeep DEF JStep
<1>. QED BY <1>1, <1>2, <1>3 DEF JInv, JStep

LEMMA JInvariance == Spec => []JInv
BY JInit, JNext, PTL DEF Spec

\* Whichever path gives a step its first Run (Start, Retry, an activation, a
\* rejected gate, a bound dispatch, a Resume), the layer before it is DONE and so
\* is the Task it is bound to.
THEOREM FirstRunIsInOrder == Spec => FirstRunFollows
<1>1. ASSUME JInv, [Next]_vars
      PROVE  [\A t \in Tasks : task[t].births = 0 /\ task'[t].births > 0 =>
                 /\ \A x \in Nearest(t) : task'[x].status = "DONE"
                 /\ binding[t] # Nobody => task[binding[t]].status = "DONE"]_vars
  BY <1>1, NextSteps DEF JStep, RowStep, FirstOK
<1>. QED BY <1>1, JInvariance, PTL DEF Spec, FirstRunFollows

-----------------------------------------------------------------------------
(***************************************************************************)
(* The mutexes of the bound Chains.  A completion has visited its          *)
(* successors in the order of their ids, and each is the first step of its *)
(* Chain, so a mutex stands for one successor.                             *)
(***************************************************************************)
Queues ==
    \A x \in commits : /\ \A b \in x.todo \cup x.done : b \in Tasks /\ Before[b] = {}
                       /\ \A d \in x.done, b \in x.todo : Id[d] < Id[b]

\* Whatever is committed anew has visited nobody yet.
LEMMA FreshQueues ==
    ASSUME JInv, Queues,
           \A y \in commits' : y \in commits \/ (y.done = {} /\ \A b \in y.todo : b \in Tasks /\ Before[b] = {})
    PROVE  Queues'
BY DEF Queues

LEMMA DispatchesFresh ==
    ASSUME JInv, NEW tk, NEW t \in Tasks
    PROVE  \A y \in Dispatches(tk, t) : y.done = {} /\ \A b \in y.todo : b \in Tasks /\ Before[b] = {}
<1>. DEFINE bound == {b \in Tasks : binding[b] = t}
            rec == [from |-> t, over |-> ChainDone(tk, ChainOf[t]), todo |-> bound, done |-> {}]
<1>1. \A b \in bound : Before[b] = {} BY ChainAssumption DEF JInv, BoundFirst
<1>2. Dispatches(tk, t) \subseteq {rec} BY DEF Dispatches
<1>3. rec.done = {} /\ rec.todo = bound OBVIOUS
<1>. HIDE DEF rec
<1>. QED BY <1>1, <1>2, <1>3

LEMMA DispatchQueues ==
    ASSUME JInv, Queues, NEW x \in commits, NEW b \in x.todo, NEW refused \in BOOLEAN,
           DispatchBound(x, b, refused)
    PROVE  Queues'
<1>. DEFINE rest == [x EXCEPT !.todo = @ \ {b}, !.done = @ \cup {b}]
<1>1. x \in Commit BY DEF JInv, IInv, RestOK
<1>2. rest.todo = x.todo \ {b} /\ rest.done = x.done \cup {b} BY <1>1 DEF Commit
<1>3. \A y \in commits' : y \in commits \/ y = rest BY DEF DispatchBound
<1>. HIDE DEF rest
<1>4. \A c \in rest.todo : Id[b] < Id[c]
  <2>1. \A c \in x.todo : c \in Tasks BY DEF Queues
  <2>2. \A c \in x.todo : Id[b] <= Id[c] BY DEF DispatchBound
  <2>. QED BY <1>2, <2>1, <2>2, ChainAssumption
<1>5. \A d \in rest.done, c \in rest.todo : Id[d] < Id[c] BY <1>2, <1>4 DEF Queues
<1>6. \A c \in rest.todo \cup rest.done : c \in Tasks /\ Before[c] = {} BY <1>2 DEF Queues
<1>. QED BY <1>3, <1>5, <1>6 DEF Queues

LEMMA QueuesKept == ASSUME JInv, Queues, [Next]_vars PROVE Queues'
<1>. DEFINE Fresh(y) == y.done = {} /\ \A b \in y.todo : b \in Tasks /\ Before[b] = {}
<1>1. CASE RunNext
  <2>1. \/ UNCHANGED commits
        \/ \E t \in Tasks, tk \in {task} \cup {[task EXCEPT ![x] = [Ended(x) EXCEPT !.status = "DONE"]] : x \in Tasks} :
              commits' = commits \cup Dispatches(tk, t)
    BY <1>1 DEF RunNext, Claim, ReadCompletion, SucceedRun, FailRun, EndRun
  <2>. QED BY <2>1, DispatchesFresh, FreshQueues
<1>2. CASE OperatorNext
  <2>1. \/ UNCHANGED commits
        \/ \E t \in Tasks, tk \in {[task EXCEPT ![x].status = "DONE", ![x].card = "none"] : x \in Tasks} :
              commits' = commits \cup Dispatches(tk, t)
    BY <1>2 DEF OperatorNext, Start, Retry, Approve, Reject, HumanDone, Rebind
  <2>. QED BY <2>1, DispatchesFresh, FreshQueues
<1>3. CASE ControlNext
  <2>1. \/ UNCHANGED commits
        \/ \E t \in Tasks : commits' = commits \cup Dispatches(task, t)
    BY <1>3 DEF ControlNext, HoldChain, ResumeChain, ResumeBeforeFirst, ResumeRefused, CatchUp, Anchor, Row
  <2>. QED BY <2>1, DispatchesFresh, FreshQueues
<1>4. CASE DispatchNext BY <1>4, DispatchQueues DEF DispatchNext
<1>5. CASE UNCHANGED vars BY <1>5 DEF vars, Queues
<1>. QED BY <1>1, <1>2, <1>3, <1>4, <1>5 DEF Next

\* Two completions never take the mutexes of two bound Chains crosswise: each
\* visits its successors in the order of ids, even those bound elsewhere since.
THEOREM SuccessorsInOrder == Spec => []SuccessorLocksInOrder
<1>1. Init => Queues BY DEF Init, Queues
<1>2. ASSUME JInv, Queues PROVE SuccessorLocksInOrder
  <2>. SUFFICES ASSUME NEW x \in commits, NEW y \in commits, NEW b \in x.todo, NEW d \in y.todo,
                       NEW e \in y.done, ChainOf[e] = ChainOf[b],
                       NEW f \in x.done, ChainOf[f] = ChainOf[d]
                PROVE  FALSE
    BY DEF SuccessorLocksInOrder
  <2>1. \A t, u \in Tasks : Before[t] = {} /\ Before[u] = {} /\ ChainOf[t] = ChainOf[u] => t = u
    <3>. SUFFICES ASSUME NEW t \in Tasks, NEW u \in Tasks, Before[t] = {}, Before[u] = {},
                         ChainOf[t] = ChainOf[u]
                  PROVE  t = u
      OBVIOUS
    <3>1. Layer[t] = Layer[u] BY Neighbours
    <3>. QED BY <3>1, Neighbours, TemplateAssumption
  <2>2. {b, f} \subseteq x.todo \cup x.done /\ {d, e} \subseteq y.todo \cup y.done OBVIOUS
  <2>3. e = b /\ f = d BY <1>2, <2>1, <2>2 DEF Queues
  <2>4. Id[b] < Id[d] /\ Id[d] < Id[b] BY <1>2, <2>3 DEF Queues
  <2>5. Id[b] \in Nat /\ Id[d] \in Nat BY <1>2, ChainAssumption DEF Queues
  <2>. QED BY <2>4, <2>5
<1>. QED BY <1>1, <1>2, QueuesKept, JInvariance, PTL DEF Spec

-----------------------------------------------------------------------------
(***************************************************************************)
(* No activation is lost.  KInv says why: an Agent step that waits (TODO,  *)
(* no Run) was never born, so nothing behind it is DONE and the anchor of  *)
(* a Resume is in front of it; whoever completes the last row in front of  *)
(* it finds it, unless it is beyond a barrier; and a dispatch withheld by  *)
(* a hold is still to come from a completion or from the Resume.           *)
(***************************************************************************)
Waits(row) == row.status = "TODO" /\ row.run = "none"
Fresh(t) == task[t].status = "TODO" /\ task[t].births = 0

RowsWait ==
    \A t \in Tasks : /\ t \notin Agents => task[t].run = "none"
                     /\ seen[t] # "none" => task[t].run = "CLAIMED"
                     /\ task[t].run = "CLAIMED" => task[t].status # "TODO"
                     /\ t \in Agents /\ Waits(task[t]) => task[t].births = 0
                     /\ task[t].status # "TODO" => PriorBorn(t)

\* A Chain held before its first layer never ran, and its first step decides.
BarriersOK ==
    \A t \in Tasks : control[ChainOf[t]].held =>
        /\ control[ChainOf[t]].barrier = 0 => task[t].births = 0
        /\ Before[t] = {} /\ Fresh(t) => control[ChainOf[t]].barrier = 0

CaughtUp == \A t \in Agents : Before[t] # {} /\ ~Blocked(t) /\ Waits(task[t]) => Held(t)

\* The dispatch of b is still to come.
Awaits(b) ==
    /\ binding[b] # Nobody
    /\ \/ task[binding[b]].status # "DONE"
       \/ \E x \in commits : x.from = binding[b] /\ b \in x.todo

OwingOK ==
    \A b \in owed :
        /\ Before[b] = {}
        /\ Fresh(b) => control[ChainOf[b]].held \/ Awaits(b)
        /\ \A x \in commits : x.from = binding[b] => b \in x.todo \cup x.done

OneEach == \A x, y \in commits : ChainOf[x.from] = ChainOf[y.from] => x = y

KRest == BarriersOK /\ CaughtUp /\ OwingOK /\ OneEach

KInv == JInv /\ RowsWait /\ KRest

\* What a step may make of a row of t.
Good(t, row) ==
    /\ t \notin Agents => row.run = "none"
    /\ row.run = "CLAIMED" => row.status # "TODO"
    /\ t \in Agents /\ Waits(row) => row = task[t]
    /\ row.status # "TODO" => task[t].status # "TODO" \/ PriorBorn(t)

KStep ==
    /\ \A t \in Tasks : Good(t, task'[t])
    /\ \A t \in Tasks : seen'[t] # "none" => task'[t].run = "CLAIMED"
    /\ \A t \in Tasks : Held(t) /\ Held(t)' => task'[t].births = task[t].births

LEMMA SameGood == ASSUME RowsWait, NEW t \in Tasks PROVE Good(t, task[t])
BY DEF RowsWait, Good

LEMMA KStepKeeps ==
    ASSUME KInv, JInv', KStep, \A t \in Tasks : RowStep(t)
    PROVE  RowsWait'
<1>1. \A t \in Tasks : task[t].births \in Nat /\ task'[t].births \in Nat
  BY DEF KInv, JInv, IInv, RowsOK, Step
<1>2. \A t \in Tasks : PriorBorn(t) => PriorBorn(t)'
  <2>1. \A t \in Tasks : task[t].births > 0 => task'[t].births > 0 BY <1>1 DEF RowStep
  <2>. QED BY <2>1, Neighbours DEF PriorBorn
<1>3. ASSUME NEW t \in Tasks
      PROVE  /\ t \in Agents /\ Waits(task'[t]) => task'[t].births = 0
             /\ task'[t].status # "TODO" => PriorBorn(t)'
  BY <1>2 DEF KStep, Good, KInv, RowsWait
<1>. QED BY <1>3 DEF KStep, Good, RowsWait

\* A first step that waits has waited all along.
LEMMA FreshStays ==
    ASSUME KInv, JInv', KStep, NEW t \in Tasks, Before[t] = {}, Fresh(t)'
    PROVE  Fresh(t)
<1>1. t \in Agents BY TemplateAssumption
<1>2. task'[t].run = "none" BY DEF JInv, IInv, RowsOK, Sound, Step, Fresh
<1>3. task'[t] = task[t] BY <1>1, <1>2 DEF KStep, Good, Fresh, Waits
<1>. QED BY <1>3 DEF Fresh

LEMMA BarriersKept ==
    ASSUME KInv, JInv', KStep, UNCHANGED control
    PROVE  BarriersOK'
<1>. SUFFICES ASSUME NEW t \in Tasks, control[ChainOf[t]].held
              PROVE  /\ control[ChainOf[t]].barrier = 0 => task'[t].births = 0
                     /\ Before[t] = {} /\ Fresh(t)' => control[ChainOf[t]].barrier = 0
  BY DEF BarriersOK
<1>1. control[ChainOf[t]].barrier = 0 => task'[t].births = 0
  <2>1. control[ChainOf[t]].barrier = 0 => Held(t) /\ Held(t)' BY ChainAssumption DEF Held
  <2>. QED BY <2>1 DEF KStep, KInv, KRest, BarriersOK
<1>. QED BY <1>1, FreshStays DEF KInv, KRest, BarriersOK

\* What is owed stays owed when a completion tells every Chain bound to it.
LEMMA OwingKept ==
    ASSUME KInv, JInv', KStep, UNCHANGED <<binding, owed>>,
           \A b \in owed : Fresh(b)' /\ control[ChainOf[b]].held =>
              control'[ChainOf[b]].held \/ Awaits(b)',
           commits \subseteq commits',
           \A x \in commits' \ commits : \A b \in Tasks : binding[b] = x.from => b \in x.todo,
           \A t \in Tasks : task'[t].status = "DONE" =>
              \/ task[t].status = "DONE"
              \/ \A b \in Tasks : binding[b] = t => \E x \in commits' : x.from = t /\ b \in x.todo
    PROVE  OwingOK'
<1>. SUFFICES ASSUME NEW b \in owed
              PROVE  /\ Before[b] = {}
                     /\ Fresh(b)' => control'[ChainOf[b]].held \/ Awaits(b)'
                     /\ \A x \in commits' : x.from = binding[b] => b \in x.todo \cup x.done
  BY DEF OwingOK
<1>1. b \in Tasks /\ Before[b] = {} /\ ChainOf[b] \in Chains
  BY ChainAssumption DEF KInv, KRest, OwingOK, JInv, IInv, RestOK
<1>2. Fresh(b)' => Fresh(b) BY <1>1, FreshStays
<1>3. Awaits(b) => Awaits(b)'
  <2>1. binding[b] # Nobody => binding[b] \in Tasks BY <1>1 DEF KInv, JInv, BoundFirst
  <2>. QED BY <1>1, <2>1 DEF Awaits
<1>. QED BY <1>1, <1>2, <1>3 DEF KInv, KRest, OwingOK

\* Rows that are rewritten, none of them to DONE, leave nobody waiting.
LEMMA CaughtKept ==
    ASSUME KInv, UNCHANGED control, \A x \in Tasks : Good(x, task'[x]),
           \A x \in Tasks : task'[x].status = "DONE" => task[x].status = "DONE"
    PROVE  CaughtUp'
<1>. SUFFICES ASSUME NEW t \in Agents, Before[t] # {}, ~Blocked(t)', Waits(task'[t])
              PROVE  Held(t)'
  BY DEF CaughtUp
<1>1. t \in Tasks /\ task'[t] = task[t] BY ChainAssumption DEF Good
<1>2. ~Blocked(t) BY <1>1, Neighbours DEF Blocked
<1>3. Held(t) BY <1>1, <1>2 DEF KInv, KRest, CaughtUp
<1>. QED BY <1>3 DEF Held

\* ... and nothing is committed.
LEMMA QuietKeeps ==
    ASSUME KInv, JInv', UNCHANGED <<control, binding, commits, owed>>,
           \A x \in Tasks : Good(x, task'[x]),
           \A x \in Tasks : task'[x].status = "DONE" => task[x].status = "DONE",
           \A x \in Tasks : Held(x) => task'[x].births = task[x].births,
           \A x \in Tasks : seen'[x] # "none" => task'[x].run = "CLAIMED"
    PROVE  KStep /\ KRest'
<1>1. KStep BY DEF KStep
<1>2. CaughtUp' BY CaughtKept
<1>3. OwingOK' BY <1>1, OwingKept
<1>4. OneEach' BY DEF KInv, KRest, OneEach
<1>. QED BY <1>1, <1>2, <1>3, <1>4, BarriersKept DEF KRest

\* One of them is.
LEMMA OneRowKeeps ==
    ASSUME KInv, JInv', NEW t \in Tasks, NEW row, task' = [task EXCEPT ![t] = row],
           UNCHANGED <<control, binding, commits, owed>>, Good(t, row),
           row.status = "DONE" => task[t].status = "DONE",
           Held(t) => row.births = task[t].births,
           \A x \in Tasks : seen'[x] # "none" =>
               seen[x] # "none" /\ (x = t => row.run = task[t].run)
    PROVE  KStep /\ KRest'
<1>1. task'[t] = row /\ \A x \in Tasks : x # t => task'[x] = task[x]
  BY DEF KInv, JInv, IInv, RowsOK
<1>2. \A x \in Tasks : Good(x, task'[x]) BY <1>1, SameGood DEF KInv
<1>3. \A x \in Tasks : seen'[x] # "none" => task'[x].run = "CLAIMED"
  BY <1>1 DEF KInv, RowsWait
<1>4. \A x \in Tasks : /\ task'[x].status = "DONE" => task[x].status = "DONE"
                       /\ Held(x) => task'[x].births = task[x].births
  BY <1>1
<1>. QED BY <1>2, <1>3, <1>4, QuietKeeps

-----------------------------------------------------------------------------
(***************************************************************************)
(* What births and activations make of a row that waits.                   *)
(***************************************************************************)
\* A birth leaves a Run or parks the Task; [new EXCEPT status] is its start.
LEMMA BornWaits ==
    ASSUME NEW row, Sound(row), NEW refused
    PROVE  LET new == Born(row, refused)
           IN /\ row.run # "none" => new = row
              /\ row.run = "none" => new.run = "QUEUED" \/ (new.run = "none" /\ new.status = "REVIEW")
              /\ row.run = "none" /\ ~refused => new.run = "QUEUED" /\ new.births > 0
              /\ [new EXCEPT !.status = "TODO"].run = new.run
              /\ new \in Step
<1>. DEFINE n == row.births + 1
            parked == [row EXCEPT !.status = "REVIEW"]
            queued == [row EXCEPT !.run = "QUEUED", !.births = n]
            new == Born(row, refused)
<1>1. row \in Step /\ row.births \in Nat BY DEF Sound, Step
<1>2. n > 0 /\ parked.run = row.run /\ parked.status = "REVIEW" BY <1>1 DEF Step
<1>. HIDE DEF n
<1>3. queued.run = "QUEUED" /\ queued.births = n BY <1>1 DEF Step
<1>4. new = IF row.run # "none" THEN row ELSE IF refused THEN parked ELSE queued
  BY DEF Born, n
<1>5. new \in Step BY BornOK DEF Sound
<1>. HIDE DEF parked, queued, new
<1>6. [new EXCEPT !.status = "TODO"].run = new.run BY <1>5 DEF Step
<1>7. /\ row.run # "none" => new = row
      /\ row.run = "none" => new.run = "QUEUED" \/ (new.run = "none" /\ new.status = "REVIEW")
      /\ row.run = "none" /\ ~refused => new.run = "QUEUED" /\ new.births > 0
  BY <1>2, <1>3, <1>4
<1>. QED BY <1>5, <1>6, <1>7 DEF new

\* An activation never leaves a waiting Agent step as it is.
LEMMA AdvancedWaits ==
    ASSUME NEW t \in Tasks, NEW row, Sound(row), NEW sourced, NEW refused
    PROVE  LET new == Advanced(t, row, sourced, refused)
           IN /\ row.run # "none" => new = row
              /\ row.run = "none" => new.run \in {"none", "QUEUED"}
              /\ t \notin Agents => new.run = row.run
              /\ t \in Agents => ~Waits(new)
<1>. DEFINE new == Advanced(t, row, sourced, refused)
            woken == Woken(row)
<1>1. row \in Step BY DEF Sound
<1>2. CASE LeftAlone(t, row)
  <2>1. new = row BY <1>2 DEF Advanced
  <2>2. ~Waits(row) BY <1>2 DEF LeftAlone, Waits
  <2>. QED BY <2>1, <2>2
<1>3. CASE ~LeftAlone(t, row)
  <2>1. row.run = "none" BY <1>3 DEF LeftAlone
  <2>2. Sound(woken) /\ woken.run = "none" BY <1>3, <2>1, WokenOK DEF LeftAlone
  <2>3. CASE t \in Agents
    <3>1. new = Born(woken, refused) BY <1>3, <2>3 DEF Advanced
    <3>. HIDE DEF woken
    <3>2. new.run = "QUEUED" \/ (new.run = "none" /\ new.status = "REVIEW")
      BY <2>2, <3>1, BornWaits
    <3>. HIDE DEF new
    <3>3. ~Waits(new) /\ new.run \in {"none", "QUEUED"} BY <3>2 DEF Waits
    <3>. QED BY <2>1, <2>3, <3>3 DEF new
  <2>4. CASE t \notin Agents
    <3>1. new = Asked(woken, sourced) BY <1>3, <2>4 DEF Advanced
    <3>. HIDE DEF woken
    <3>2. new.run = "none" BY <2>2, <3>1 DEF Asked, Sound, Step
    <3>. HIDE DEF new
    <3>. QED BY <2>1, <2>4, <3>2 DEF new
  <2>. QED BY <2>3, <2>4
<1>. QED BY <1>2, <1>3

\* An activation after t reaches every step that the completion of t unblocks.
LEMMA ActivationWaits ==
    ASSUME KInv, NEW t \in Tasks, NEW row, Sound(row),
           row.births = task[t].births, row.status = "DONE", row.run \in {task[t].run, "none"},
           Ran(t), NEW sourced, NEW refused, NEW barred,
           task' = Activated([task EXCEPT ![t] = row], t, sourced, refused, barred)
    PROVE  LET over == [task EXCEPT ![t] = row]
           IN /\ \A x \in Tasks : Good(x, task'[x])
              /\ \A x \in Tasks : over[x].run # "none" => task'[x].run = over[x].run
              /\ \A x \in Tasks : task'[x].status = "DONE" <=> over[x].status = "DONE"
              /\ \A x \in Tasks : x \in barred => task'[x] = over[x]
              /\ \A x \in Agents : Waits(task'[x]) => x \in barred \/ ~Follows(over, t, x)
<1>. DEFINE over == [task EXCEPT ![t] = row]
<1>1. /\ over \in [Tasks -> Step] /\ over[t] = row /\ \A x \in Tasks : x # t => over[x] = task[x]
      /\ RowsOK(over)
  BY OverwriteOK DEF KInv, JInv, IInv, RowsOK, Sound
<1>2. task' = [x \in Tasks |-> IF Follows(over, t, x) /\ x \notin barred
                     THEN Advanced(x, over[x], sourced, x \in refused) ELSE over[x]]
  BY DEF Activated
<1>. HIDE DEF over
<1>3. ASSUME NEW x \in Tasks, Follows(over, t, x) PROVE PriorBorn(x) /\ x # t
  <2>1. \A y \in Tasks : over[y].status = "DONE" /\ y \in Agents => task[y].births > 0
    BY <1>1 DEF KInv, JInv, AgentsRan, Ran
  <2>2. x \in After[t] /\ LayerDone(over, t)
        /\ \A y \in After[t] : Layer[y] < Layer[x] => over[y].status = "DONE"
    BY <1>3 DEF Follows
  <2>3. \A y \in Before[x] : y \in Before[t] \/ over[y].status = "DONE"
    BY <2>2, Neighbours DEF LayerDone
  <2>. QED BY <2>1, <2>2, <2>3, Neighbours DEF PriorBorn, Ran
<1>4. ASSUME NEW x \in Tasks
      PROVE  /\ Good(x, task'[x])
             /\ over[x].run # "none" => task'[x].run = over[x].run
             /\ task'[x].status = "DONE" <=> over[x].status = "DONE"
             /\ x \in barred => task'[x] = over[x]
             /\ x \in Agents /\ Waits(task'[x]) => x \in barred \/ ~Follows(over, t, x)
  <2>1. Good(x, over[x])
    <3>1. CASE x = t BY <1>1, <3>1 DEF Good, Waits, Ran, KInv, RowsWait
    <3>2. CASE x # t BY <1>1, <3>2, SameGood DEF KInv
    <3>. QED BY <3>1, <3>2
  <2>2. CASE ~Follows(over, t, x) \/ x \in barred BY <1>2, <2>1, <2>2
  <2>3. CASE Follows(over, t, x) /\ x \notin barred
    <3>1. task'[x] = Advanced(x, over[x], sourced, x \in refused) BY <1>2, <2>3
    <3>2. Sound(over[x]) BY <1>1 DEF RowsOK
    <3>3. /\ over[x].run # "none" => task'[x] = over[x]
          /\ over[x].run = "none" => task'[x].run \in {"none", "QUEUED"}
          /\ x \notin Agents => task'[x].run = over[x].run
          /\ x \in Agents => ~Waits(task'[x])
      BY <3>1, <3>2, AdvancedWaits
    <3>4. task'[x].status = "DONE" <=> over[x].status = "DONE" BY <3>1, <3>2, AdvancedIs
    <3>5. PriorBorn(x) BY <1>3, <2>3
    <3>6. Good(x, task'[x]) BY <2>1, <3>3, <3>5 DEF Good
    <3>. QED BY <2>3, <3>3, <3>4, <3>6
  <2>. QED BY <2>2, <2>3
<1>5. \A x \in Agents : x \in Tasks BY ChainAssumption
<1>. QED BY <1>4, <1>5 DEF over

\* A Chain whose mutex was free has one completion that holds it.
LEMMA OneEachKept ==
    ASSUME KInv, NEW tk, NEW t \in Tasks, ~Locked(ChainOf[t]),
           commits' = commits \cup Dispatches(tk, t)
    PROVE  OneEach'
<1>1. \A x \in commits : ChainOf[x.from] # ChainOf[t] BY DEF Locked
<1>2. \A x, y \in Dispatches(tk, t) : x = y /\ x.from = t BY DEF Dispatches
<1>. SUFFICES ASSUME NEW x \in commits', NEW y \in commits', ChainOf[x.from] = ChainOf[y.from]
              PROVE  x = y
  BY DEF OneEach
<1>3. CASE x \in commits /\ y \in commits BY <1>3 DEF KInv, KRest, OneEach
<1>4. CASE x \notin commits \/ y \notin commits BY <1>1, <1>2, <1>4
<1>. QED BY <1>3, <1>4

\* A completion leaves nobody waiting in its Chain and tells the bound ones.
LEMMA CompletedKeeps ==
    ASSUME KInv, JInv', NEW t \in Tasks, NEW row, Sound(row),
           row.births = task[t].births, row.status = "DONE", row.run \in {task[t].run, "none"},
           Ran(t), NEW sourced, NEW refused,
           task' = Activated([task EXCEPT ![t] = row], t, sourced, refused, Beyond),
           commits' = commits \cup Dispatches([task EXCEPT ![t] = row], t),
           ~Locked(ChainOf[t]), UNCHANGED <<control, binding, owed>>,
           \A x \in Tasks : seen'[x] # "none" =>
               seen[x] # "none" /\ (x = t => row.run = task[t].run)
    PROVE  KStep /\ KRest'
<1>. DEFINE over == [task EXCEPT ![t] = row]
            bound == {b \in Tasks : binding[b] = t}
            rec == [from |-> t, over |-> ChainDone(over, ChainOf[t]), todo |-> bound, done |-> {}]
<1>1. over[t] = row /\ \A x \in Tasks : x # t => over[x] = task[x]
  BY DEF KInv, JInv, IInv, RowsOK
<1>2. Dispatches(over, t) = IF over[t].status = "DONE" /\ bound # {} THEN {rec} ELSE {}
  BY DEF Dispatches
<1>3. rec.from = t /\ rec.todo = bound OBVIOUS
<1>. HIDE DEF over, rec
<1>4. /\ \A x \in Tasks : Good(x, task'[x])
      /\ \A x \in Tasks : over[x].run # "none" => task'[x].run = over[x].run
      /\ \A x \in Tasks : task'[x].status = "DONE" <=> over[x].status = "DONE"
      /\ \A x \in Tasks : x \in Beyond => task'[x] = over[x]
      /\ \A x \in Agents : Waits(task'[x]) => x \in Beyond \/ ~Follows(over, t, x)
  BY ActivationWaits DEF over
<1>5. KStep
  <2>1. ASSUME NEW x \in Tasks, seen'[x] # "none" PROVE task'[x].run = "CLAIMED"
    <3>1. task[x].run = "CLAIMED" BY <2>1 DEF KInv, RowsWait
    <3>2. over[x].run = task[x].run BY <1>1, <2>1
    <3>. QED BY <1>4, <3>1, <3>2
  <2>2. \A x \in Tasks : Held(x) => task'[x].births = task[x].births
    BY <1>1, <1>4 DEF Beyond
  <2>. QED BY <1>4, <2>1, <2>2 DEF KStep
<1>6. CaughtUp'
  <2>. SUFFICES ASSUME NEW x \in Agents, Before[x] # {}, ~Blocked(x)', Waits(task'[x]), ~Held(x)
                PROVE  FALSE
    BY DEF CaughtUp, Held
  <2>1. x \in Tasks /\ task'[x] = task[x] /\ x # t
    BY <1>1, <1>4, ChainAssumption DEF Good, Waits
  <2>2. ~Follows(over, t, x) BY <1>4 DEF Beyond
  <2>3. Blocked(x) BY <2>1 DEF KInv, KRest, CaughtUp
  <2>4. \A y \in Before[x] : y \in Tasks /\ over[y].status = "DONE"
    BY <1>4, <2>1, Neighbours DEF Blocked
  <2>5. t \in Before[x] BY <1>1, <2>3, <2>4 DEF Blocked
  <2>6. /\ x \in After[t]
        /\ \A y \in LayerOf[t] : y \in Before[x]
        /\ \A y \in After[t] : Layer[y] < Layer[x] => y \in Before[x]
    BY <2>1, <2>5, Neighbours
  <2>. QED BY <2>2, <2>4, <2>6 DEF Follows, LayerDone
<1>7. commits' \subseteq commits \cup {rec} /\ (bound # {} => rec \in commits')
  BY <1>1, <1>2 DEF over
<1>8. OwingOK'
  <2>1. \A x \in commits' \ commits : \A b \in Tasks : binding[b] = x.from => b \in x.todo
    BY <1>3, <1>7
  <2>2. ASSUME NEW y \in Tasks, task'[y].status = "DONE", task[y].status # "DONE",
               NEW b \in Tasks, binding[b] = y
        PROVE  \E x \in commits' : x.from = y /\ b \in x.todo
    <3>1. y = t BY <1>1, <1>4, <2>2
    <3>2. b \in bound BY <2>2, <3>1
    <3>. HIDE DEF bound
    <3>. QED BY <1>3, <1>7, <3>1, <3>2
  <2>3. commits \subseteq commits' OBVIOUS
  <2>. QED BY <1>5, <2>1, <2>2, <2>3, OwingKept
<1>9. OneEach' BY OneEachKept DEF over
<1>. QED BY <1>5, <1>6, <1>8, <1>9, BarriersKept DEF KRest

-----------------------------------------------------------------------------
(***************************************************************************)
(* Runs and the operator.                                                  *)
(***************************************************************************)
\* A step with a Run, or with a completion under way, is an Agent step that ran.
LEMMA RunningIs ==
    ASSUME KInv, NEW t \in Tasks, task[t].run # "none"
    PROVE  t \in Agents /\ task[t].births > 0 /\ PriorBorn(t) /\ task[t] \in Step
BY DEF KInv, JInv, IInv, RowsOK, Sound, Reached, RowsWait

LEMMA RunKeeps ==
    ASSUME KInv, JInv', NEW t \in Tasks,
           \/ Claim(t) \/ ReadCompletion(t) \/ (\E retry \in BOOLEAN : FailRun(t, retry))
           \/ (\E status \in {"REVIEW", "BACKLOG"} : EndRun(t, status))
    PROVE  KStep /\ KRest'
<1>0. task[t] \in Step /\ \A x \in Tasks : seen[x] # "none" => task[x].run = "CLAIMED"
  BY DEF KInv, JInv, IInv, RowsOK, RowsWait
<1>1. CASE Claim(t)
  <2>. DEFINE row == [task[t] EXCEPT !.run = "CLAIMED", !.status = "DOING"]
  <2>1. row.births = task[t].births /\ row.status = "DOING" /\ row.run = "CLAIMED" BY <1>0 DEF Step
  <2>2. task' = [task EXCEPT ![t] = row] BY <1>1 DEF Claim, KInv, JInv, IInv, RowsOK
  <2>. HIDE DEF row
  <2>3. UNCHANGED <<control, binding, seen, commits, owed>> /\ task[t].run = "QUEUED"
    BY <1>1 DEF Claim
  <2>4. Good(t, row) BY <2>1, <2>3, RunningIs DEF Good, Waits
  <2>. QED BY <1>0, <2>1, <2>2, <2>3, <2>4, OneRowKeeps
<1>2. CASE ReadCompletion(t)
  <2>1. /\ UNCHANGED <<task, control, binding, commits, owed>> /\ task[t].run = "CLAIMED"
        /\ \A x \in Tasks : x # t => seen'[x] = seen[x]
    BY <1>2 DEF ReadCompletion, KInv, JInv, IInv, RestOK
  <2>2. \A x \in Tasks : Good(x, task'[x]) BY <2>1, SameGood DEF KInv
  <2>. QED BY <1>0, <2>1, <2>2, QuietKeeps
<1>3. ASSUME NEW retry \in BOOLEAN, FailRun(t, retry) PROVE KStep /\ KRest'
  <2>. DEFINE n == IF retry THEN task[t].births + 1 ELSE task[t].births
              run == IF retry THEN "QUEUED" ELSE "none"
              status == IF task[t].status # seen[t] THEN task[t].status
                        ELSE IF retry THEN "DOING" ELSE "REVIEW"
              row == [task[t] EXCEPT !.run = run, !.births = n, !.status = status]
  <2>1. seen[t] # "none" /\ task[t].run = "CLAIMED" /\ task[t].status # "TODO"
    BY <1>0, <1>3 DEF FailRun, KInv, RowsWait
  <2>2. (status = "DONE" => task[t].status = "DONE") /\ status # "TODO" BY <2>1
  <2>3. run \in {"QUEUED", "none"} /\ (Held(t) => n = task[t].births) BY <1>3 DEF FailRun
  <2>4. task' = [task EXCEPT ![t] = row] BY <1>3 DEF FailRun, Failed
  <2>. HIDE DEF n, run, status
  <2>5. row.births = n /\ row.status = status /\ row.run = run BY <1>0 DEF Step
  <2>. HIDE DEF row
  <2>6. Good(t, row) BY <2>1, <2>2, <2>3, <2>5, RunningIs DEF Good, Waits
  <2>7. UNCHANGED <<control, binding, commits, owed>>
        /\ \A x \in Tasks : seen'[x] # "none" => seen[x] # "none" /\ x # t
    BY <1>3 DEF FailRun, KInv, JInv, IInv, RestOK
  <2>. QED BY <2>2, <2>3, <2>4, <2>5, <2>6, <2>7, OneRowKeeps
<1>4. ASSUME NEW status \in {"REVIEW", "BACKLOG"}, EndRun(t, status) PROVE KStep /\ KRest'
  <2>. DEFINE row == [task[t] EXCEPT !.run = "none", !.status = status]
  <2>1. row.births = task[t].births /\ row.status = status /\ row.run = "none" BY <1>0 DEF Step
  <2>2. task' = [task EXCEPT ![t] = row] BY <1>4 DEF EndRun, KInv, JInv, IInv, RowsOK
  <2>. HIDE DEF row
  <2>3. UNCHANGED <<control, binding, seen, commits, owed>> /\ task[t].run # "none" /\ seen[t] = "none"
    BY <1>4 DEF EndRun
  <2>4. Good(t, row) BY <2>1, <2>3, RunningIs DEF Good, Waits
  <2>5. row.status # "DONE" BY <2>1
  <2>. QED BY <2>1, <2>2, <2>3, <2>4, <2>5, OneRowKeeps
<1>. QED BY <1>1, <1>2, <1>3, <1>4

LEMMA SucceedKeeps ==
    ASSUME KInv, JInv', NEW t \in Tasks, NEW refused, SucceedRun(t, refused)
    PROVE  KStep /\ KRest'
<1>. DEFINE done == [Ended(t) EXCEPT !.status = "DONE"]
            asked == [Ended(t) EXCEPT !.status = "REVIEW", !.card = "open"]
            ended == Ended(t)
<1>1. seen[t] # "none" /\ task[t].run = "CLAIMED" /\ task[t].status # "TODO" /\ Ran(t)
  BY SeenRan DEF SucceedRun, KInv, RowsWait
<1>2. task[t] \in Step /\ ~Locked(ChainOf[t]) BY DEF KInv, JInv, IInv, RowsOK, SucceedRun
<1>3. /\ ended.births = task[t].births /\ ended.status = task[t].status /\ ended.run = "none"
      /\ done.births = task[t].births /\ done.status = "DONE" /\ done.run = "none"
      /\ asked.births = task[t].births /\ asked.status = "REVIEW" /\ asked.run = "none"
  BY <1>2 DEF Ended, Step
<1>4. Sound(done) BY ClosedOK DEF KInv, JInv, Statuses
<1>5. UNCHANGED <<control, binding, owed>>
      /\ \A x \in Tasks : seen'[x] # "none" => seen[x] # "none" /\ x # t
  BY DEF SucceedRun, KInv, JInv, IInv, RestOK
<1>. HIDE DEF done, asked, ended
<1>6. \/ task' = [task EXCEPT ![t] = ended] /\ commits' = commits
      \/ task' = [task EXCEPT ![t] = asked] /\ commits' = commits
      \/ /\ task' = Activated([task EXCEPT ![t] = done], t, TRUE, refused, Beyond)
         /\ commits' = commits \cup Dispatches([task EXCEPT ![t] = done], t)
  BY DEF SucceedRun, done, asked, ended
<1>7. Good(t, ended) /\ Good(t, asked) BY <1>1, <1>3, RunningIs DEF Good, Waits
<1>8. CASE task' = [task EXCEPT ![t] = ended] /\ commits' = commits
  BY <1>3, <1>5, <1>7, <1>8, OneRowKeeps
<1>9. CASE task' = [task EXCEPT ![t] = asked] /\ commits' = commits
  BY <1>3, <1>5, <1>7, <1>9, OneRowKeeps
<1>10. CASE /\ task' = Activated([task EXCEPT ![t] = done], t, TRUE, refused, Beyond)
            /\ commits' = commits \cup Dispatches([task EXCEPT ![t] = done], t)
  BY <1>1, <1>2, <1>3, <1>4, <1>5, <1>10, CompletedKeeps
<1>. QED BY <1>6, <1>8, <1>9, <1>10

LEMMA OpenedKeeps ==
    ASSUME KInv, JInv', NEW t \in Tasks, NEW refused \in BOOLEAN, Start(t, refused) \/ Retry(t, refused)
    PROVE  KStep /\ KRest'
<1>. DEFINE born == Born(task[t], refused)
            row == IF refused THEN Born(task[t], TRUE)
                   ELSE [Born(task[t], FALSE) EXCEPT !.status = "TODO"]
<1>1. /\ Sound(task[t]) /\ task[t].run = "none" /\ t \in Agents /\ ~Held(t) /\ ~Blocked(t)
      /\ UNCHANGED <<control, binding, seen, commits, owed>>
  BY DEF KInv, JInv, IInv, RowsOK, Start, Retry
<1>2. row.run = "QUEUED" \/ (row.run = "none" /\ row.status = "REVIEW")
  <2>1. CASE refused
    <3>. DEFINE new == Born(task[t], TRUE)
    <3>1. new.run = "QUEUED" \/ (new.run = "none" /\ new.status = "REVIEW") BY <1>1, BornWaits
    <3>. QED BY <2>1, <3>1
  <2>2. CASE ~refused
    <3>. DEFINE new == Born(task[t], FALSE)
    <3>1. [new EXCEPT !.status = "TODO"].run = new.run /\ new.run = "QUEUED" BY <1>1, BornWaits
    <3>. QED BY <2>2, <3>1
  <2>. QED BY <2>1, <2>2
<1>3. row.status # "DONE"
  <2>1. Born(task[t], TRUE) = [task[t] EXCEPT !.status = "REVIEW"] BY <1>1 DEF Born
  <2>2. [task[t] EXCEPT !.status = "REVIEW"].status = "REVIEW" BY <1>1 DEF Sound, Step
  <2>3. [Born(task[t], FALSE) EXCEPT !.status = "TODO"].status = "TODO" BY <1>1, BornIs
  <2>. QED BY <2>1, <2>2, <2>3
<1>4. task' = [task EXCEPT ![t] = row] BY DEF Start, Retry
<1>. HIDE DEF row
<1>5. PriorBorn(t)
  <2>1. \A y \in Before[t] : y \in Tasks /\ task[y].status = "DONE" BY <1>1, Neighbours DEF Blocked
  <2>. QED BY <2>1 DEF PriorBorn, KInv, JInv, AgentsRan
<1>6. Good(t, row) BY <1>1, <1>2, <1>5 DEF Good, Waits
<1>7. seen[t] = "none" BY <1>1 DEF KInv, RowsWait
<1>. QED BY <1>1, <1>3, <1>4, <1>6, <1>7, OneRowKeeps

LEMMA DecidedKeeps ==
    ASSUME KInv, JInv', NEW t \in Tasks, NEW refused, Approve(t, refused) \/ HumanDone(t, refused)
    PROVE  KStep /\ KRest'
<1>. DEFINE row == [task[t] EXCEPT !.status = "DONE", !.card = "none"]
<1>1. task[t] \in Step /\ ~Locked(ChainOf[t])
  BY DEF KInv, JInv, IInv, RowsOK, Approve, HumanDone
<1>2. Sound(row) BY ClosedOK DEF KInv, JInv, Statuses
<1>3. row.births = task[t].births /\ row.status = "DONE" /\ row.run = task[t].run BY <1>1 DEF Step
<1>4. [task EXCEPT ![t] = row] = [task EXCEPT ![t].status = "DONE", ![t].card = "none"]
  BY DEF KInv, JInv, IInv, RowsOK, Step
<1>. HIDE DEF row
<1>5. Ran(t)
  <2>1. CASE Approve(t, refused) BY <2>1 DEF Approve, KInv, JInv, Reached, AgentsRan, Ran
  <2>2. CASE HumanDone(t, refused)
    <3>1. \A y \in Before[t] : y \in Tasks /\ task[y].status = "DONE"
      BY <2>2, Neighbours DEF HumanDone, Blocked
    <3>. QED BY <2>2, <3>1 DEF HumanDone, KInv, JInv, AgentsRan, Ran, PriorBorn
  <2>. QED BY <2>1, <2>2
<1>6. PICK sourced \in BOOLEAN : task' = Activated([task EXCEPT ![t] = row], t, sourced, refused, Beyond)
  BY <1>4 DEF Approve, HumanDone
<1>7. commits' = commits \cup Dispatches([task EXCEPT ![t] = row], t)
  BY <1>4 DEF Approve, HumanDone
<1>8. UNCHANGED <<binding, seen, control, owed>> BY DEF Approve, HumanDone
<1>. QED BY <1>1, <1>2, <1>3, <1>5, <1>6, <1>7, <1>8, CompletedKeeps

LEMMA RejectKeeps ==
    ASSUME KInv, JInv', NEW t \in Tasks, NEW x \in Tasks, NEW refused \in BOOLEAN, Reject(t, x, refused)
    PROVE  KStep /\ KRest'
<1>. DEFINE gate == [task[t] EXCEPT !.card = "rejected", !.status = "TODO"]
            mid == [task EXCEPT ![t] = gate]
            redo == [mid[x] EXCEPT !.status = "TODO"]
            row == Born(redo, refused)
<1>1. /\ RowsOK(task) /\ task[x].run = "none" /\ ~Held(x)
      /\ UNCHANGED <<binding, seen, control, commits, owed>>
  BY DEF KInv, JInv, IInv, Reject
<1>2. Sound(gate) BY <1>1 DEF RowsOK, Sound, Step, Statuses
<1>3. gate.births = task[t].births /\ gate.status = "TODO" /\ gate.run = task[t].run
  BY <1>1 DEF RowsOK, Step
<1>4. task' = [mid EXCEPT ![x] = row] BY DEF Reject
<1>. HIDE DEF gate
<1>5. /\ RowsOK(mid) /\ mid[t] = gate /\ \A y \in Tasks : y # t => mid[y] = task[y]
  BY <1>1, <1>2, OverwriteOK DEF RowsOK
<1>. HIDE DEF mid
<1>6. mid[x] \in Step /\ Sound(redo) BY <1>5 DEF RowsOK, Sound, Step, Statuses
<1>7. redo.run = mid[x].run /\ mid[x].run = "none" /\ redo.status = "TODO"
  BY <1>1, <1>3, <1>5, <1>6 DEF Step
<1>. HIDE DEF redo
<1>8. row.run = "QUEUED" \/ (row.run = "none" /\ row.status = "REVIEW") BY <1>6, <1>7, BornWaits
<1>9. row.status # "DONE" BY <1>6, <1>7, BornIs
<1>. HIDE DEF row
<1>10. task'[x] = row /\ \A y \in Tasks : y # x => task'[y] = mid[y] BY <1>4, <1>5 DEF RowsOK
<1>11. x \in Agents /\ PriorBorn(x) /\ (t \in Agents => x = t)
  <2>1. PriorBorn(t) /\ task[t].card = "open" BY DEF Reject, KInv, JInv, Reached
  <2>2. CASE t \in Agents BY <2>1, <2>2 DEF Reject, RedoTargets
  <2>3. CASE t \notin Agents
    <3>1. x \in Before[t] \cap Agents BY <2>3 DEF Reject, RedoTargets
    <3>2. task[x].births > 0 BY <2>1, <3>1 DEF PriorBorn
    <3>. QED BY <2>3, <3>1, <3>2 DEF KInv, JInv, Reached
  <2>. QED BY <2>2, <2>3
<1>12. t # x => t \notin Agents /\ task[t].run = "none" BY <1>11 DEF KInv, RowsWait
<1>13. ASSUME NEW y \in Tasks
       PROVE  /\ Good(y, task'[y])
              /\ task'[y].status = "DONE" => task[y].status = "DONE"
              /\ Held(y) => task'[y].births = task[y].births
              /\ seen'[y] # "none" => task'[y].run = "CLAIMED"
  <2>1. CASE y = x
    BY <1>1, <1>8, <1>9, <1>10, <1>11, <2>1 DEF Good, Waits, KInv, RowsWait
  <2>2. CASE y # x /\ y = t
    BY <1>1, <1>3, <1>5, <1>10, <1>12, <2>2 DEF Good, Waits, KInv, RowsWait
  <2>3. CASE y # x /\ y # t
    BY <1>1, <1>5, <1>10, <2>3, SameGood DEF KInv, RowsWait
  <2>. QED BY <2>1, <2>2, <2>3
<1>. QED BY <1>1, <1>13, QuietKeeps

LEMMA RebindKeeps ==
    ASSUME KInv, JInv', NEW t \in Tasks, NEW p \in Tasks \cup {Nobody}, Rebind(t, p)
    PROVE  KStep /\ KRest'
<1>1. /\ UNCHANGED <<task, seen, control, commits>> /\ owed' = owed \ {t}
      /\ \A b \in Tasks : b # t => binding'[b] = binding[b]
  BY DEF Rebind, KInv, JInv, IInv, RestOK
<1>2. \A x \in Tasks : Good(x, task'[x]) BY <1>1, SameGood DEF KInv
<1>3. KStep BY <1>1, <1>2 DEF KStep, KInv, RowsWait
<1>4. CaughtUp' BY <1>1, <1>2, CaughtKept
<1>5. OwingOK'
  <2>. SUFFICES ASSUME NEW b \in owed, b # t
                PROVE  /\ Before[b] = {}
                       /\ Fresh(b)' => control'[ChainOf[b]].held \/ Awaits(b)'
                       /\ \A x \in commits' : x.from = binding'[b] => b \in x.todo \cup x.done
    BY <1>1 DEF OwingOK
  <2>1. binding'[b] = binding[b] BY <1>1 DEF KInv, JInv, IInv, RestOK
  <2>2. Awaits(b) => Awaits(b)' BY <1>1, <2>1 DEF Awaits
  <2>. QED BY <1>1, <2>1, <2>2 DEF KInv, KRest, OwingOK, Fresh
<1>6. OneEach' BY <1>1 DEF KInv, KRest, OneEach
<1>. QED BY <1>1, <1>3, <1>4, <1>5, <1>6, BarriersKept DEF KRest

\* A completion that tells a bound Chain owes it nothing afterwards, or the
\* Chain is held.
LEMMA DispatchKeeps ==
    ASSUME KInv, JInv', NEW x \in commits, NEW b \in x.todo, NEW refused \in BOOLEAN,
           DispatchBound(x, b, refused)
    PROVE  KStep /\ KRest'
<1>. DEFINE row == Dispatched(x, b, task[b], refused)
            rest == [x EXCEPT !.todo = @ \ {b}, !.done = @ \cup {b}]
<1>1. /\ x \in Commit /\ b \in Tasks /\ UNCHANGED <<binding, seen, control>>
      /\ Sound(task[b]) /\ task[b] \in Step
  BY DEF KInv, JInv, IInv, RestOK, RowsOK, Sound, Commit, DispatchBound
<1>2. binding[b] = x.from => b \in Agents /\ Before[b] = {}
  BY <1>1, ChainAssumption, TemplateAssumption DEF KInv, JInv, BoundFirst, IInv, RestOK, Commit
<1>3. /\ Good(b, row)
      /\ row.status = "DONE" => task[b].status = "DONE"
      /\ Held(b) => row.births = task[b].births
      /\ task[b].run = "CLAIMED" => row.run = "CLAIMED"
      /\ binding[b] = x.from /\ ~Withheld(x, b) => row.status # "TODO" \/ row.births # 0
  <2>. DEFINE parked == [task[b] EXCEPT !.status = "REVIEW"]
              born == Born(task[b], refused)
  <2>1. /\ task[b].run = "none" => born.run = "QUEUED" \/ (born.run = "none" /\ born.status = "REVIEW")
        /\ task[b].run = "none" /\ ~refused => born.births > 0
        /\ born \in Step
    BY <1>1, BornWaits
  <2>2. /\ born.births \in Nat /\ (born.status = "DONE" => task[b].status = "DONE")
    BY <1>1, BornIs
  <2>3. /\ parked.births = task[b].births /\ parked.status = "REVIEW" /\ parked.run = task[b].run
    BY <1>1 DEF Step
  <2>4. task[b].run = "none" /\ refused => born.status = "REVIEW"
    BY <2>3 DEF Born
  <2>. HIDE DEF parked, born
  <2>5. CASE binding[b] # x.from
    <3>1. row = task[b] BY <2>5 DEF Dispatched
    <3>. QED BY <1>1, <2>5, <3>1, SameGood DEF KInv
  <2>6. CASE binding[b] = x.from
    <3>1. b \in Agents /\ PriorBorn(b) BY <1>2, <2>6 DEF PriorBorn
    <3>2. CASE ~x.over
      <4>1. row = parked BY <2>6, <3>2 DEF Dispatched, parked
      <4>. QED BY <2>3, <3>1, <4>1 DEF Good, Waits
    <3>3. CASE x.over /\ (control[ChainOf[b]].held \/ task[b].run # "none" \/ task[b].status = "DONE")
      <4>1. row = task[b] BY <2>6, <3>3 DEF Dispatched
      <4>2. ~control[ChainOf[b]].held => task[b].status # "TODO" \/ task[b].births # 0
        BY <1>1, <3>3 DEF Sound, Step
      <4>. QED BY <1>1, <2>6, <3>3, <4>1, <4>2, SameGood DEF KInv, Withheld
    <3>4. CASE /\ x.over /\ ~control[ChainOf[b]].held /\ task[b].run = "none" /\ task[b].status # "DONE"
               /\ task[b].status # "TODO"
      <4>1. row = parked BY <2>6, <3>4 DEF Dispatched, parked
      <4>. QED BY <2>3, <3>1, <4>1 DEF Good, Waits
    <3>5. CASE /\ x.over /\ ~control[ChainOf[b]].held /\ task[b].run = "none" /\ task[b].status = "TODO"
      <4>1. row = born BY <2>6, <3>5 DEF Dispatched, born
      <4>2. ~Held(b) BY <3>5 DEF Held
      <4>3. row.status # "TODO" \/ row.births # 0 BY <2>1, <2>2, <2>4, <3>5, <4>1
      <4>. QED BY <2>1, <2>2, <3>1, <3>5, <4>1, <4>2, <4>3 DEF Good, Waits
    <3>. QED BY <3>2, <3>3, <3>4, <3>5
  <2>. QED BY <2>5, <2>6
<1>4. task' = [task EXCEPT ![b] = row] BY DEF DispatchBound
<1>. HIDE DEF row
<1>5. task'[b] = row /\ \A y \in Tasks : y # b => task'[y] = task[y]
  BY <1>1, <1>4 DEF KInv, JInv, IInv, RowsOK
<1>6. /\ \A y \in Tasks : Good(y, task'[y])
      /\ \A y \in Tasks : task'[y].status = "DONE" => task[y].status = "DONE"
  BY <1>3, <1>5, SameGood DEF KInv
<1>7. \A y \in Tasks : seen'[y] # "none" => task'[y].run = "CLAIMED"
  BY <1>1, <1>3, <1>5 DEF KInv, RowsWait
<1>8. KStep BY <1>3, <1>5, <1>6, <1>7 DEF KStep
<1>9. CaughtUp' BY <1>1, <1>6, CaughtKept
<1>10. rest.from = x.from /\ rest.todo = x.todo \ {b} /\ rest.done = x.done \cup {b}
  BY <1>1 DEF Commit
<1>11. /\ \A y \in commits' : (y \in commits /\ y # x) \/ y = rest
       /\ \A y \in commits : y # x => y \in commits'
       /\ x.todo # {b} => rest \in commits'
  BY DEF DispatchBound
<1>12. owed' = IF Withheld(x, b) THEN owed \cup {b} ELSE owed BY DEF DispatchBound
<1>. HIDE DEF rest
<1>13. OneEach' BY <1>10, <1>11 DEF KInv, KRest, OneEach
<1>14. ASSUME NEW d \in owed, d # b
       PROVE  /\ Fresh(d)' => control'[ChainOf[d]].held \/ Awaits(d)'
              /\ \A y \in commits' : y.from = binding'[d] => d \in y.todo \cup y.done
  <2>1. d \in Tasks BY DEF KInv, JInv, IInv, RestOK
  <2>2. binding[d] # Nobody => binding[d] \in Tasks BY <2>1 DEF KInv, JInv, BoundFirst
  <2>3. Awaits(d) => Awaits(d)'
    <3>1. CASE binding[d] # Nobody /\ task[binding[d]].status # "DONE"
      BY <1>1, <1>6, <2>2, <3>1 DEF Awaits
    <3>2. ASSUME binding[d] # Nobody, NEW y \in commits, y.from = binding[d], d \in y.todo
          PROVE  Awaits(d)'
      <4>1. y = x => rest \in commits' /\ rest.from = binding[d] /\ d \in rest.todo
        BY <1>10, <1>11, <1>14, <3>2
      <4>2. \E z \in commits' : z.from = binding[d] /\ d \in z.todo BY <1>11, <3>2, <4>1
      <4>. QED BY <1>1, <3>2, <4>2 DEF Awaits
    <3>. QED BY <3>1, <3>2 DEF Awaits
  <2>4. Fresh(d)' => Fresh(d) BY <1>5, <1>14, <2>1 DEF Fresh
  <2>5. ASSUME NEW y \in commits', y.from = binding[d] PROVE d \in y.todo \cup y.done
    <3>1. CASE y \in commits BY <2>5, <3>1 DEF KInv, KRest, OwingOK
    <3>2. CASE y = rest
      <4>1. d \in x.todo \cup x.done BY <1>10, <2>5, <3>2 DEF KInv, KRest, OwingOK
      <4>. QED BY <1>10, <1>14, <3>2, <4>1
    <3>. QED BY <1>11, <3>1, <3>2
  <2>. QED BY <1>1, <2>3, <2>4, <2>5 DEF KInv, KRest, OwingOK
<1>15. ASSUME b \in owed \/ Withheld(x, b)
       PROVE  /\ Before[b] = {}
              /\ Fresh(b)' => control'[ChainOf[b]].held \/ Awaits(b)'
              /\ \A y \in commits' : y.from = binding'[b] => b \in y.todo \cup y.done
  <2>1. Before[b] = {} BY <1>2, <1>15 DEF Withheld, KInv, KRest, OwingOK
  <2>2. Fresh(b)' => control[ChainOf[b]].held \/ Awaits(b)'
    <3>. SUFFICES ASSUME Fresh(b)', ~control[ChainOf[b]].held PROVE Awaits(b)' OBVIOUS
    <3>1. b \in owed /\ Fresh(b) /\ binding[b] # x.from
      BY <1>1, <1>3, <1>5, <1>8, <1>15, <2>1, FreshStays DEF Withheld, Fresh
    <3>2. Awaits(b) BY <3>1 DEF KInv, KRest, OwingOK
    <3>3. binding[b] # Nobody => binding[b] \in Tasks BY <1>1 DEF KInv, JInv, BoundFirst
    <3>4. CASE task[binding[b]].status # "DONE" BY <1>1, <1>6, <3>2, <3>3, <3>4 DEF Awaits
    <3>5. CASE \E y \in commits : y.from = binding[b] /\ b \in y.todo
      BY <1>1, <1>11, <3>1, <3>2, <3>5 DEF Awaits
    <3>. QED BY <3>2, <3>4, <3>5 DEF Awaits
  <2>3. ASSUME NEW y \in commits', y.from = binding[b] PROVE b \in y.todo \cup y.done
    <3>1. CASE y \in commits /\ y # x
      <4>1. b \in owed BY <1>15, <2>3, <3>1 DEF Withheld, KInv, KRest, OneEach
      <4>. QED BY <2>3, <3>1, <4>1 DEF KInv, KRest, OwingOK
    <3>2. CASE y = rest BY <1>10, <3>2
    <3>. QED BY <1>11, <3>1, <3>2
  <2>. QED BY <1>1, <2>1, <2>2, <2>3
<1>16. OwingOK'
  <2>. SUFFICES ASSUME NEW d \in owed'
                PROVE  /\ Before[d] = {}
                       /\ Fresh(d)' => control'[ChainOf[d]].held \/ Awaits(d)'
                       /\ \A y \in commits' : y.from = binding'[d] => d \in y.todo \cup y.done
    BY DEF OwingOK
  <2>1. CASE d = b BY <1>12, <1>15, <2>1
  <2>2. CASE d # b
    <3>1. d \in owed BY <1>12, <2>2
    <3>. QED BY <1>14, <2>2, <3>1 DEF KInv, KRest, OwingOK
  <2>. QED BY <2>1, <2>2
<1>. QED BY <1>1, <1>8, <1>9, <1>13, <1>16, BarriersKept DEF KRest


-----------------------------------------------------------------------------
(***************************************************************************)
(* Hold and Resume.                                                        *)
(***************************************************************************)
\* Rows nobody writes.
LEMMA SameTaskKeeps ==
    ASSUME KInv, UNCHANGED <<task, seen>>
    PROVE  KStep
<1>1. \A x \in Tasks : Good(x, task'[x]) BY SameGood DEF KInv
<1>. QED BY <1>1 DEF KStep, KInv, RowsWait

LEMMA HoldKeeps ==
    ASSUME KInv, JInv', NEW c \in Chains, NEW r \in Requests, HoldChain(c, r)
    PROVE  KStep /\ KRest'
<1>1. /\ UNCHANGED <<task, binding, seen, commits, owed>> /\ ~control[c].held
      /\ control \in [Chains -> [held : BOOLEAN, barrier : Nat, generation : Nat]]
  BY DEF HoldChain, KInv, JInv, IInv, ControlOK
<1>2. PICK l \in Barriers(c) : control' = [control EXCEPT ![c] =
          [held |-> TRUE, barrier |-> l, generation |-> control[c].generation + 1]]
  BY DEF HoldChain
<1>3. /\ control'[c].held /\ control'[c].barrier = l
      /\ \A d \in Chains : d # c => control'[d] = control[d]
  BY <1>1, <1>2
<1>4. KStep BY <1>1, SameTaskKeeps
<1>5. \A t \in Tasks : ChainOf[t] \in Chains /\ Layer[t] \in Nat \ {0} /\ task[t].births \in Nat
  BY ChainAssumption DEF KInv, JInv, IInv, RowsOK, Step
<1>6. BarriersOK'
  <2>. SUFFICES ASSUME NEW t \in Tasks, control'[ChainOf[t]].held
                PROVE  /\ control'[ChainOf[t]].barrier = 0 => task[t].births = 0
                       /\ Before[t] = {} /\ Fresh(t) => control'[ChainOf[t]].barrier = 0
    BY <1>1 DEF BarriersOK, Fresh
  <2>1. CASE ChainOf[t] # c BY <1>3, <1>5, <2>1 DEF KInv, KRest, BarriersOK
  <2>2. CASE ChainOf[t] = c
    <3>1. Barrier(c, l) /\ t \in Row[c] BY <2>2 DEF Barriers, Row
    <3>2. ASSUME l = 0 PROVE task[t].births = 0
      <4>1. ~Admitted(t) BY <1>5, <3>1, <3>2 DEF Barrier
      <4>. QED BY <1>5, <4>1 DEF Admitted
    <3>3. ASSUME Before[t] = {}, Fresh(t), l # 0 PROVE FALSE
      <4>1. PICK x \in Tasks : ChainOf[x] = c /\ Layer[x] = l /\ Admitted(x)
        BY <3>1, <3>3 DEF Barrier, Row
      <4>2. x # t BY <3>3, <4>1 DEF Fresh, Admitted
      <4>3. t \in Agents /\ LayerOf[t] = {t} BY <3>3, TemplateAssumption
      <4>4. Layer[x] > Layer[t] BY <1>5, <2>2, <3>3, <4>1, <4>2, <4>3, Neighbours
      <4>5. t \in Before[x] \cap Agents BY <2>2, <4>1, <4>3, <4>4, Neighbours
      <4>6. PriorBorn(x) BY <1>5, <4>1 DEF Admitted, KInv, RowsWait, JInv, Reached
      <4>. QED BY <3>3, <4>5, <4>6 DEF PriorBorn, Fresh
    <3>. QED BY <1>3, <2>2, <3>2, <3>3
  <2>. QED BY <2>1, <2>2
<1>7. CaughtUp'
  <2>. SUFFICES ASSUME NEW t \in Agents, Before[t] # {}, ~Blocked(t), Waits(task[t]) PROVE Held(t)'
    BY <1>1 DEF CaughtUp, Blocked
  <2>1. Held(t) /\ t \in Tasks BY ChainAssumption DEF KInv, KRest, CaughtUp
  <2>2. control[ChainOf[t]].held /\ ChainOf[t] \in Chains BY <1>5, <2>1 DEF Held
  <2>3. ChainOf[t] # c BY <1>1, <2>2
  <2>. QED BY <1>3, <2>1, <2>2, <2>3 DEF Held
<1>8. OwingOK'
  <2>1. \A b \in owed : control[ChainOf[b]].held => control'[ChainOf[b]].held
    BY <1>1, <1>3, <1>5 DEF KInv, JInv, IInv, RestOK
  <2>. QED BY <1>1, <1>4, <2>1, OwingKept
<1>9. OneEach' BY <1>1 DEF KInv, KRest, OneEach
<1>. QED BY <1>4, <1>6, <1>7, <1>8, <1>9 DEF KRest


LEMMA Least == ASSUME NEW S \in SUBSET Nat, S # {} PROVE \E m \in S : \A k \in S : m <= k
<1>. DEFINE less == OpToRel(<, Nat)
<1>1. IsWellFoundedOn(less, Nat) BY NatLessThanWellFounded
<1>2. \A x, y \in Nat : x < y => <<x, y>> \in less BY DEF OpToRel
<1>. HIDE DEF less
<1>3. PICK m \in S : \A k \in S : ~ (<<k, m>> \in less) BY <1>1, WFMin, Zenon
<1>4. \A k \in S : ~(k < m) BY <1>2, <1>3
<1>. QED BY <1>3, <1>4

\* The anchor of a Resume is right in front of an Agent step that waits.
LEMMA AnchorBefore ==
    ASSUME KInv, NEW x \in Agents, Before[x] # {}, ~Blocked(x), Waits(task[x]), Held(x)
    PROVE  /\ Anchor(ChainOf[x]) # {}
           /\ \A a \in Anchor(ChainOf[x]) : Follows(task, a, x)
<1>. DEFINE c == ChainOf[x]
<1>1. x \in Tasks /\ c \in Chains /\ \A t \in Tasks : Id[t] \in Nat /\ Layer[t] \in Nat
  BY ChainAssumption
<1>2. \A y \in Tasks : y \in Row[c] <=> ChainOf[y] = ChainOf[x] BY <1>1 DEF Row
<1>3. \A y \in Row[c] : y \in Tasks BY <1>1 DEF Row
<1>4. \A y \in Row[c] : Layer[y] < Layer[x] => task[y].status = "DONE"
  BY <1>1, <1>2, <1>3, Neighbours DEF Blocked
<1>5. task[x].births = 0 /\ task[x].status # "DONE" BY <1>1 DEF KInv, RowsWait, Waits
<1>. HIDE DEF c
<1>6. ASSUME NEW z \in Row[c], LayerDone(task, z) PROVE Layer[z] < Layer[x]
  <2>1. z \in Tasks /\ ChainOf[z] = ChainOf[x] BY <1>2, <1>3
  <2>2. task[z].status = "DONE" BY <1>6, <2>1, Neighbours DEF LayerDone
  <2>3. x \notin Before[z] BY <1>1, <1>5, <2>1, <2>2 DEF KInv, JInv, Reached, PriorBorn
  <2>4. x \notin LayerOf[z] BY <1>5, <1>6 DEF LayerDone
  <2>. QED BY <1>1, <2>1, <2>3, <2>4, Neighbours
<1>7. \A y \in Row[c] : Layer[y] = control[c].barrier => task[y].status = "DONE"
  BY <1>1, <1>3, <1>4 DEF Held, c
<1>8. PICK y \in Before[x] : \A z \in Before[x] : Layer[z] <= Layer[y]
  <2>. DEFINE gaps == {Layer[x] - Layer[y] : y \in Before[x]}
  <2>1. \A y \in Before[x] : Layer[x] - Layer[y] \in Nat BY <1>1, Neighbours
  <2>2. gaps \in SUBSET Nat /\ gaps # {} BY <2>1
  <2>3. PICK m \in gaps : \A k \in gaps : m <= k BY <2>2, Least
  <2>4. PICK y \in Before[x] : m = Layer[x] - Layer[y] BY <2>3
  <2>5. ASSUME NEW z \in Before[x] PROVE Layer[z] <= Layer[y]
    <3>1. Layer[x] - Layer[z] \in gaps OBVIOUS
    <3>2. Layer[x] - Layer[y] <= Layer[x] - Layer[z] BY <2>3, <2>4, <3>1
    <3>. QED BY <1>1, <3>2, Neighbours
  <2>. QED BY <2>5
<1>9. PICK t \in LayerOf[y] : \A z \in LayerOf[y] : Id[t] <= Id[z]
  <2>. DEFINE ids == {Id[z] : z \in LayerOf[y]}
  <2>1. y \in LayerOf[y] /\ \A z \in LayerOf[y] : z \in Tasks BY <1>1, Neighbours
  <2>2. ids \in SUBSET Nat /\ ids # {} BY <1>1, <2>1
  <2>. HIDE DEF ids
  <2>3. PICK m \in ids : \A k \in ids : m <= k BY <2>2, Least
  <2>. QED BY <2>3 DEF ids
<1>10. /\ t \in Row[c] /\ LayerOf[t] = LayerOf[y] /\ Layer[t] = Layer[y]
       /\ \A z \in LayerOf[t] : z \in Row[c] /\ Layer[z] < Layer[x]
  <2>1. y \in Tasks /\ ChainOf[y] = ChainOf[x] /\ Layer[y] < Layer[x] BY <1>1, Neighbours
  <2>2. t \in Tasks /\ ChainOf[t] = ChainOf[x] /\ Layer[t] = Layer[y] BY <1>9, <2>1, Neighbours
  <2>3. LayerOf[t] = LayerOf[y]
    <3>1. \A u \in Tasks : LayerOf[u] = {z \in Tasks : ChainOf[z] = ChainOf[u] /\ Layer[z] = Layer[u]}
      BY Neighbours
    <3>. QED BY <2>1, <2>2, <3>1, Zenon
  <2>4. \A z \in LayerOf[t] : z \in Tasks /\ ChainOf[z] = ChainOf[x] /\ Layer[z] = Layer[y]
    BY <2>2, Neighbours
  <2>. QED BY <1>2, <2>1, <2>2, <2>3, <2>4
<1>11. LayerDone(task, t) BY <1>4, <1>10 DEF LayerDone
<1>12. \A z \in Row[c] : LayerDone(task, z) => Layer[z] <= Layer[t]
  BY <1>1, <1>2, <1>3, <1>6, <1>8, <1>10, Neighbours
<1>13. t \in Anchor(c) BY <1>7, <1>9, <1>10, <1>11, <1>12 DEF Anchor
<1>14. ASSUME NEW a \in Anchor(c) PROVE Follows(task, a, x)
  <2>1. a \in Row[c] /\ LayerDone(task, a) BY DEF Anchor
  <2>2. a \in Tasks /\ ChainOf[a] = ChainOf[x] /\ Layer[a] < Layer[x] BY <1>2, <1>3, <1>6, <2>1
  <2>3. x \in After[a] /\ \A z \in After[a] : z \in Row[c] BY <1>1, <1>2, <2>2, Neighbours
  <2>. QED BY <1>4, <2>1, <2>3 DEF Follows
<1>. QED BY <1>13, <1>14 DEF c


\* A Resume releases the Chain c; whoever waited behind its barrier, and the
\* dispatch its hold withheld, are accounted for by what it writes.
LEMMA ReleasedKeeps ==
    ASSUME KInv, JInv', NEW c \in Chains, control' = [control EXCEPT ![c].held = FALSE],
           UNCHANGED <<binding, seen, owed>>,
           \A x \in Tasks : Good(x, task'[x]),
           \A x \in Tasks : task[x].run # "none" => task'[x].run = task[x].run,
           \A x \in Tasks : task'[x].status = "DONE" <=> task[x].status = "DONE",
           \A x \in Tasks : ChainOf[x] # c => task'[x] = task[x],
           \A x \in Agents :
              ChainOf[x] = c /\ Before[x] # {} /\ ~Blocked(x) /\ Waits(task[x]) /\ Held(x) =>
                 ~Waits(task'[x]),
           \A b \in owed : ChainOf[b] = c /\ control[c].held /\ Fresh(b)' => Awaits(b)',
           commits \subseteq commits',
           \A x \in commits' \ commits : \A b \in Tasks : binding[b] = x.from => b \in x.todo,
           OneEach'
    PROVE  KStep /\ KRest'
<1>1. control \in [Chains -> [held : BOOLEAN, barrier : Nat, generation : Nat]]
  BY DEF KInv, JInv, IInv, ControlOK
<1>2. ~control'[c].held /\ \A d \in Chains : d # c => control'[d] = control[d] BY <1>1
<1>3. \A t \in Tasks : ChainOf[t] \in Chains BY ChainAssumption
<1>4. \A t \in Tasks : control'[ChainOf[t]].held =>
          ChainOf[t] # c /\ task'[t] = task[t] /\ control'[ChainOf[t]] = control[ChainOf[t]]
  BY <1>2, <1>3
<1>5. KStep
  <2>1. \A x \in Tasks : seen'[x] # "none" => task'[x].run = "CLAIMED" BY DEF KInv, RowsWait
  <2>2. \A x \in Tasks : Held(x)' => task'[x].births = task[x].births BY <1>4 DEF Held
  <2>. QED BY <2>1, <2>2 DEF KStep
<1>6. BarriersOK' BY <1>4 DEF BarriersOK, Fresh, KInv, KRest
<1>7. CaughtUp'
  <2>. SUFFICES ASSUME NEW x \in Agents, Before[x] # {}, ~Blocked(x)', Waits(task'[x]) PROVE Held(x)'
    BY DEF CaughtUp
  <2>1. x \in Tasks /\ task'[x] = task[x] BY ChainAssumption DEF Good
  <2>2. ~Blocked(x) BY <2>1, Neighbours DEF Blocked
  <2>3. Held(x) BY <2>1, <2>2 DEF KInv, KRest, CaughtUp
  <2>4. ChainOf[x] # c BY <2>1, <2>2, <2>3
  <2>. QED BY <1>2, <1>3, <2>1, <2>3, <2>4 DEF Held
<1>8. OwingOK'
  <2>1. \A b \in owed : Fresh(b)' /\ control[ChainOf[b]].held =>
            control'[ChainOf[b]].held \/ Awaits(b)'
    BY <1>2, <1>3 DEF KInv, JInv, IInv, RestOK
  <2>. QED BY <1>5, <2>1, OwingKept
<1>. QED BY <1>5, <1>6, <1>7, <1>8 DEF KRest

\* Held after a layer: nothing is owed to the first step, and the anchor finds
\* the layer that waits.
LEMMA ResumeChainKeeps ==
    ASSUME KInv, JInv', NEW c \in Chains, NEW r \in Requests, NEW refused, ResumeChain(c, r, refused)
    PROVE  KStep /\ KRest'
<1>1. /\ ~Locked(c) /\ control[c].held /\ control[c].barrier # 0
      /\ control' = [control EXCEPT ![c].held = FALSE] /\ UNCHANGED <<binding, seen, owed>>
  BY DEF ResumeChain, Released
<1>2. \A b \in owed : ChainOf[b] = c /\ KStep /\ Fresh(b)' => FALSE
  BY <1>1, FreshStays DEF KInv, KRest, OwingOK, BarriersOK, JInv, IInv, RestOK
<1>3. \A x \in Agents :
         ChainOf[x] = c /\ Before[x] # {} /\ ~Blocked(x) /\ Waits(task[x]) /\ Held(x) =>
            Anchor(c) # {} /\ \A a \in Anchor(c) : Follows(task, a, x)
  BY AnchorBefore
<1>4. CASE Anchor(c) = {}
  <2>1. UNCHANGED <<task, commits>> BY <1>4 DEF ResumeChain
  <2>2. KStep BY <1>1, <2>1, SameTaskKeeps
  <2>3. \A x \in Tasks : Good(x, task'[x]) BY <2>2 DEF KStep
  <2>4. OneEach' BY <2>1 DEF KInv, KRest, OneEach
  <2>. QED BY <1>1, <1>2, <1>3, <1>4, <2>1, <2>2, <2>3, <2>4, ReleasedKeeps
<1>5. CASE Anchor(c) # {}
  <2>1. PICK a \in Anchor(c) : CatchUp(a, refused) BY <1>5 DEF ResumeChain
  <2>2. a \in Tasks /\ ChainOf[a] = c BY DEF Anchor, Row
  <2>3. task[a].status = "DONE" BY <2>2, Neighbours DEF Anchor, LayerDone
  <2>4. Ran(a) BY <2>2, <2>3 DEF KInv, JInv, Reached, AgentsRan, Ran
  <2>5. [task EXCEPT ![a] = task[a]] = task /\ Sound(task[a]) BY <2>2 DEF KInv, JInv, IInv, RowsOK
  <2>6. /\ task' = Activated([task EXCEPT ![a] = task[a]], a, Sourced(a), refused, {})
        /\ commits' = commits \cup Dispatches(task, a)
    BY <2>1, <2>5 DEF CatchUp
  <2>7. /\ \A x \in Tasks : Good(x, task'[x])
        /\ \A x \in Tasks : task[x].run # "none" => task'[x].run = task[x].run
        /\ \A x \in Tasks : task'[x].status = "DONE" <=> task[x].status = "DONE"
        /\ \A x \in Agents : Waits(task'[x]) => ~Follows(task, a, x)
    <3>. DEFINE row == task[a]
                over == [task EXCEPT ![a] = row]
                none == {}
    <3>1. Sourced(a) \in BOOLEAN BY DEF Sourced
    <3>2. PICK sourced \in BOOLEAN : task' = Activated(over, a, sourced, refused, none)
      BY <2>6, <3>1
    <3>3. /\ row.births = task[a].births /\ row.status = "DONE" /\ row.run \in {task[a].run, "none"}
          /\ Sound(row) /\ Ran(a)
      BY <2>3, <2>4, <2>5
    <3>. HIDE DEF row, none
    <3>4. /\ \A x \in Tasks : Good(x, task'[x])
          /\ \A x \in Tasks : over[x].run # "none" => task'[x].run = over[x].run
          /\ \A x \in Tasks : task'[x].status = "DONE" <=> over[x].status = "DONE"
          /\ \A x \in Tasks : x \in none => task'[x] = over[x]
          /\ \A x \in Agents : Waits(task'[x]) => x \in none \/ ~Follows(over, a, x)
      BY <2>2, <3>2, <3>3, ActivationWaits, Zenon
    <3>. QED BY <2>5, <3>4 DEF row, none
  <2>8. \A x \in Tasks : ChainOf[x] # c => task'[x] = task[x]
    BY <2>2, <2>5, <2>6, Neighbours DEF Activated, Follows
  <2>9. KStep
    <3>1. \A x \in Tasks : seen'[x] # "none" => task'[x].run = "CLAIMED"
      BY <1>1, <2>7 DEF KInv, RowsWait
    <3>2. ~control'[c].held BY <1>1 DEF KInv, JInv, IInv, ControlOK
    <3>3. \A x \in Tasks : Held(x)' => task'[x].births = task[x].births BY <2>8, <3>2 DEF Held
    <3>. QED BY <2>7, <3>1, <3>3 DEF KStep
  <2>10. OneEach' BY <1>1, <2>2, <2>6, OneEachKept
  <2>11. \A y \in commits' \ commits : \A b \in Tasks : binding[b] = y.from => b \in y.todo
    BY <2>6 DEF Dispatches
  <2>12. commits \subseteq commits' BY <2>6
  <2>. QED BY <1>1, <1>2, <1>3, <2>7, <2>8, <2>9, <2>10, <2>11, <2>12, ReleasedKeeps
<1>. QED BY <1>4, <1>5


\* Held before its first layer the Chain never ran; its one first step is
\* started, or its predecessor is still to come.
LEMMA ResumeFirstKeeps ==
    ASSUME KInv, JInv', NEW c \in Chains, NEW r \in Requests, ResumeBeforeFirst(c, r)
    PROVE  KStep /\ KRest'
<1>. DEFINE started(t) == [Born(task[t], FALSE) EXCEPT !.status = "TODO"]
<1>1. /\ ~Locked(c) /\ control[c].held /\ control[c].barrier = 0
      /\ control' = [control EXCEPT ![c].held = FALSE] /\ UNCHANGED <<binding, seen, owed, commits>>
  BY DEF ResumeBeforeFirst, Released
<1>2. \A t \in Tasks : task'[t] = IF StartsFirst(c) /\ t \in First[c] THEN started(t) ELSE task[t]
  BY DEF ResumeBeforeFirst
<1>3. \A t \in Tasks : /\ t \in First[c] <=> ChainOf[t] = c /\ Before[t] = {}
                       /\ ChainOf[t] = c => task[t].births = 0
                       /\ ChainOf[t] = c => task[t].run = "none"
                       /\ Before[t] = {} => t \in Agents
  BY <1>1, TemplateAssumption
     DEF First, Row, KInv, KRest, BarriersOK, JInv, IInv, RowsOK, Sound, Step
<1>4. ASSUME NEW t \in First[c], StartsFirst(c), t \in Tasks
      PROVE  /\ started(t).run = "QUEUED" /\ started(t).status = "TODO" /\ started(t).births > 0
             /\ task[t].status # "DONE"
  <2>. DEFINE new == Born(task[t], FALSE)
  <2>1. Sound(task[t]) /\ task[t].run = "none" BY <1>3, <1>4 DEF KInv, JInv, IInv, RowsOK
  <2>2. new.run = "QUEUED" /\ new.births > 0 BY <2>1, BornWaits
  <2>3. [new EXCEPT !.status = "TODO"].run = new.run BY <2>1, BornWaits
  <2>4. [new EXCEPT !.status = "TODO"].births = new.births /\ [new EXCEPT !.status = "TODO"].status = "TODO"
    BY <2>1, BornIs
  <2>5. task[t].status # "DONE" BY <1>4 DEF ResumeBeforeFirst, Startable
  <2>. HIDE DEF new
  <2>. QED BY <2>2, <2>3, <2>4, <2>5 DEF new
<1>. HIDE DEF started
<1>5. ASSUME NEW x \in Tasks
      PROVE  /\ Good(x, task'[x])
             /\ task[x].run # "none" => task'[x].run = task[x].run
             /\ task'[x].status = "DONE" <=> task[x].status = "DONE"
             /\ ChainOf[x] # c => task'[x] = task[x]
  <2>1. CASE StartsFirst(c) /\ x \in First[c]
    <3>1. task'[x] = started(x) BY <1>2, <2>1
    <3>. QED BY <1>3, <1>4, <2>1, <3>1 DEF Good, Waits
  <2>2. CASE ~(StartsFirst(c) /\ x \in First[c]) BY <1>2, <2>2, SameGood DEF KInv
  <2>. QED BY <2>1, <2>2
<1>6. ASSUME NEW x \in Agents, ChainOf[x] = c, Before[x] # {}, ~Blocked(x) PROVE FALSE
  <2>1. x \in Tasks /\ \A t \in Tasks : Layer[t] \in Nat BY ChainAssumption
  <2>. DEFINE layers == {Layer[z] : z \in Before[x]}
  <2>2. layers \in SUBSET Nat /\ layers # {} BY <1>6, <2>1, Neighbours
  <2>. HIDE DEF layers
  <2>3. PICK m \in layers : \A k \in layers : m <= k BY <2>2, Least
  <2>4. PICK y \in Before[x] : \A z \in Before[x] : Layer[y] <= Layer[z] BY <2>3 DEF layers
  <2>5. y \in Tasks /\ ChainOf[y] = c /\ task[y].status = "DONE"
    BY <1>6, <2>1, Neighbours DEF Blocked
  <2>6. \A z \in Before[y] : z \in Before[x] /\ Layer[z] < Layer[y] BY <2>1, <2>5, Neighbours
  <2>7. \A z \in Before[x] : z \in Tasks BY <2>1, Neighbours
  <2>8. Before[y] = {} BY <2>1, <2>4, <2>5, <2>6, <2>7
  <2>. QED BY <1>3, <2>5, <2>8 DEF KInv, JInv, AgentsRan
<1>7. ASSUME NEW b \in owed, ChainOf[b] = c, Fresh(b)' PROVE Awaits(b)'
  <2>1. b \in Tasks /\ Before[b] = {} /\ b \in First[c]
    BY <1>3, <1>7 DEF KInv, KRest, OwingOK, JInv, IInv, RestOK
  <2>2. ~StartsFirst(c)
    <3>. SUFFICES ASSUME StartsFirst(c) PROVE FALSE OBVIOUS
    <3>1. task'[b] = started(b) BY <1>2, <2>1
    <3>. QED BY <1>4, <1>7, <2>1, <3>1 DEF Fresh
  <2>3. PICK t \in First[c] : ~(Resolved(t) /\ task[t].births = 0) BY <2>2 DEF StartsFirst
  <2>4. t \in Tasks /\ ChainOf[t] = c /\ Before[t] = {} BY <1>3, <2>3 DEF First, Row
  <2>5. t = b
    <3>1. Layer[t] = Layer[b] BY <1>7, <2>1, <2>4, Neighbours
    <3>. QED BY <1>7, <2>1, <2>4, <3>1, Neighbours, TemplateAssumption
  <2>6. ~Resolved(b) BY <1>3, <2>3, <2>4, <2>5
  <2>7. binding[b] \in Tasks /\ binding[b] # Nobody
    BY <2>1, <2>6 DEF Resolved, KInv, JInv, BoundFirst
  <2>8. CASE task[binding[b]].status # "DONE" BY <1>1, <1>5, <2>7, <2>8 DEF Awaits
  <2>9. ASSUME NEW x \in commits, x.from = binding[b] PROVE Awaits(b)'
    <3>1. b \in x.todo \cup x.done BY <2>9 DEF KInv, KRest, OwingOK
    <3>2. b \notin x.done BY <1>1, <1>7 DEF Locked
    <3>. QED BY <1>1, <2>7, <2>9, <3>1, <3>2 DEF Awaits
  <2>. QED BY <2>6, <2>8, <2>9 DEF Resolved
<1>8. OneEach' BY <1>1 DEF KInv, KRest, OneEach
<1>. QED BY <1>1, <1>5, <1>6, <1>7, <1>8, ReleasedKeeps

LEMMA ResumeRefusedKeeps ==
    ASSUME KInv, JInv', NEW c \in Chains, NEW r \in Requests, ResumeRefused(c, r)
    PROVE  KStep /\ KRest'
<1>1. StartsFirst(c) /\ UNCHANGED <<binding, seen, control, events, commits, owed>>
  BY DEF ResumeRefused
<1>2. ASSUME NEW x \in Tasks
      PROVE  /\ Good(x, task'[x])
             /\ task'[x].status = "DONE" => task[x].status = "DONE"
             /\ Held(x) => task'[x].births = task[x].births
             /\ seen'[x] # "none" => task'[x].run = "CLAIMED"
  <2>1. CASE x \notin First[c]
    <3>1. task'[x] = task[x] BY <2>1 DEF ResumeRefused
    <3>. QED BY <1>1, <3>1, SameGood DEF KInv, RowsWait
  <2>2. CASE x \in First[c]
    <3>. DEFINE parked == [task[x] EXCEPT !.status = "REVIEW"]
    <3>1. task[x] \in Step /\ task[x].run = "none"
      BY <1>1, <2>2 DEF StartsFirst, KInv, JInv, IInv, RowsOK, Sound
    <3>2. task'[x] = parked BY <2>2, <3>1 DEF ResumeRefused, Born
    <3>3. parked.status = "REVIEW" /\ parked.run = "none" /\ parked.births = task[x].births
      BY <3>1 DEF Step
    <3>. HIDE DEF parked
    <3>4. PriorBorn(x) BY <2>2, ChainAssumption DEF First, PriorBorn, Row
    <3>. QED BY <1>1, <3>1, <3>2, <3>3, <3>4 DEF Good, Waits, KInv, RowsWait
  <2>. QED BY <2>1, <2>2
<1>. QED BY <1>1, <1>2, QuietKeeps

LEMMA StutterKeeps == ASSUME KInv, UNCHANGED vars PROVE KStep /\ KRest'
<1>1. KStep BY SameTaskKeeps DEF vars
<1>2. BarriersOK' /\ CaughtUp' /\ OneEach'
  BY DEF vars, KInv, KRest, BarriersOK, Fresh, CaughtUp, Blocked, Held, OneEach
<1>3. OwingOK' BY DEF vars, KInv, KRest, OwingOK, Fresh, Awaits
<1>. QED BY <1>1, <1>2, <1>3 DEF KRest

LEMMA KInit == Init => KInv
<1>. SUFFICES ASSUME Init PROVE KInv OBVIOUS
<1>1. \A t \in Tasks : /\ task[t].status = "TODO" /\ task[t].run = "none" /\ task[t].births = 0
                       /\ seen[t] = "none" /\ ~control[ChainOf[t]].held
  BY ChainAssumption DEF Init, Idle
<1>2. RowsWait BY <1>1 DEF RowsWait
<1>3. BarriersOK BY <1>1 DEF BarriersOK
<1>4. CaughtUp
  <2>. SUFFICES ASSUME NEW t \in Agents, Before[t] # {} PROVE Blocked(t) BY DEF CaughtUp
  <2>1. \A y \in Before[t] : y \in Tasks BY ChainAssumption, Neighbours
  <2>. QED BY <1>1, <2>1 DEF Blocked
<1>5. OwingOK /\ OneEach BY DEF Init, OwingOK, OneEach
<1>. QED BY <1>2, <1>3, <1>4, <1>5, JInit DEF KInv, KRest

LEMMA KNext == ASSUME KInv, [Next]_vars PROVE KInv'
<1>1. JInv' /\ \A t \in Tasks : RowStep(t) BY JNext, NextSteps DEF KInv, JStep
<1>2. CASE RunNext
  <2>1. PICK t \in Tasks :
           \/ Claim(t) \/ ReadCompletion(t) \/ (\E retry \in BOOLEAN : FailRun(t, retry))
           \/ (\E status \in {"REVIEW", "BACKLOG"} : EndRun(t, status))
           \/ \E refused \in SUBSET (Agents \cap After[t]) : SucceedRun(t, refused)
    BY <1>2 DEF RunNext
  <2>2. KStep /\ KRest' BY <1>1, <2>1, RunKeeps, SucceedKeeps
  <2>. QED BY <1>1, <2>2, KStepKeeps DEF KInv
<1>3. CASE OperatorNext
  <2>1. KStep /\ KRest'
    BY <1>1, <1>3, OpenedKeeps, DecidedKeeps, RejectKeeps, RebindKeeps, ChainAssumption DEF OperatorNext
  <2>. QED BY <1>1, <2>1, KStepKeeps DEF KInv
<1>4. CASE ControlNext
  <2>1. KStep /\ KRest'
    BY <1>1, <1>4, HoldKeeps, ResumeChainKeeps, ResumeFirstKeeps, ResumeRefusedKeeps DEF ControlNext
  <2>. QED BY <1>1, <2>1, KStepKeeps DEF KInv
<1>5. CASE DispatchNext
  <2>1. KStep /\ KRest' BY <1>1, <1>5, DispatchKeeps DEF DispatchNext
  <2>. QED BY <1>1, <2>1, KStepKeeps DEF KInv
<1>6. CASE UNCHANGED vars
  <2>1. KStep /\ KRest' BY <1>6, StutterKeeps
  <2>. QED BY <1>1, <2>1, KStepKeeps DEF KInv
<1>. QED BY <1>2, <1>3, <1>4, <1>5, <1>6 DEF Next

\* Whatever order completions, gates, holds, resumes and dispatches come in,
\* neither a layer nor a bound Chain waits for an activation that is gone: an
\* Agent step whose predecessors are DONE in a quiet Chain was started or parked,
\* and so was a first step whose dispatch a hold withheld.
THEOREM ActivationsAreKept == Spec => []NoActivationIsLost
<1>1. ASSUME KInv PROVE NoActivationIsLost
  <2>1. NoStepStranded
    BY <1>1 DEF NoStepStranded, KInv, KRest, CaughtUp, Waits, Held, Quiet
  <2>2. WithheldIsMadeUp
    <3>. SUFFICES ASSUME NEW b \in owed, Quiet(ChainOf[b]), Resolved(b),
                         ~(task[b].births > 0 \/ task[b].status # "TODO")
                  PROVE  FALSE
      BY DEF WithheldIsMadeUp
    <3>1. b \in Tasks /\ task[b].births \in Nat
      BY <1>1 DEF KInv, JInv, IInv, RestOK, RowsOK, Step
    <3>2. Fresh(b) BY <3>1 DEF Fresh
    <3>3. Awaits(b) BY <1>1, <3>2 DEF Quiet, KInv, KRest, OwingOK
    <3>. QED BY <3>3 DEF Awaits, Resolved
  <2>. QED BY <2>1, <2>2 DEF NoActivationIsLost
<1>. QED BY <1>1, KInit, KNext, PTL DEF Spec

=============================================================================
