---------------------------- MODULE ChainControl ----------------------------
(***************************************************************************)
(* How Chains of Tasks move: a completed layer activates the next one, an  *)
(* approval gate waits for a card, Hold puts a barrier behind what was     *)
(* already admitted, Resume catches up, and the last step of one Chain     *)
(* dispatches the first step of the Chains bound to it.                    *)
(*                                                                         *)
(* A transaction that holds a Chain's rows is one step here, except the    *)
(* completion with bound successors: it keeps the mutex of its own Chain   *)
(* while it takes the mutex of each successor Chain, so it is one step per *)
(* mutex and nobody else sees what it wrote before the last.               *)
(***************************************************************************)
EXTENDS Naturals, FiniteSets

CONSTANTS
    Tasks,          \* the rows of every Chain
    Chains,
    ChainOf,        \* [Tasks -> Chains]
    Layer,          \* [Tasks -> Nat \ {0}], the execution layer
    Agents,         \* steps an Agent executes; the others are Human
    Gated,          \* steps with approvalGate
    InitialBinding, \* [Tasks -> Tasks \cup {Nobody}], dispatchAfterTaskId
    Nobody,
    Targets,        \* bound: the Tasks a binding is moved to
    Id,             \* [Tasks -> Nat], the order of chain indexes and ids
    Requests,       \* request ids of Hold and Resume
    MaxRuns,        \* [Tasks -> Nat], bound: Runs of one Task
    MaxResumes      \* MAX_AUTOMATIC_SUCCESSOR_RESUMES

Row == [c \in Chains |-> {t \in Tasks : ChainOf[t] = c}]
LayerOf == [t \in Tasks |-> {x \in Row[ChainOf[t]] : Layer[x] = Layer[t]}]
Before == [t \in Tasks |-> {x \in Row[ChainOf[t]] : Layer[x] < Layer[t]}]
After == [t \in Tasks |-> {x \in Row[ChainOf[t]] : Layer[x] > Layer[t]}]
First == [c \in Chains |-> {t \in Row[c] : Before[t] = {}}]

\* Templates are refused unless the first layer is one Agent step and a gated
\* step is alone in its layer; a binding sits on a first step.
ASSUME ChainAssumption ==
    /\ ChainOf \in [Tasks -> Chains]
    /\ Layer \in [Tasks -> Nat \ {0}]
    /\ Agents \subseteq Tasks
    /\ Gated \subseteq Tasks
    /\ Nobody \notin Tasks
    /\ InitialBinding \in [Tasks -> Tasks \cup {Nobody}]
    /\ Id \in [Tasks -> Nat] /\ \A t, x \in Tasks : Id[t] = Id[x] => t = x
    /\ MaxRuns \in [Tasks -> Nat]
    /\ MaxResumes \in Nat
    /\ Targets \subseteq Tasks

ASSUME TemplateAssumption ==
    /\ \A t \in Tasks : Before[t] = {} => t \in Agents /\ LayerOf[t] = {t}
    /\ \A t \in Gated : LayerOf[t] = {t}
    /\ \A t \in Tasks : InitialBinding[t] # Nobody =>
          Before[t] = {} /\ ChainOf[InitialBinding[t]] # ChainOf[t]

Statuses == {"TODO", "DOING", "REVIEW", "DONE", "BACKLOG"}

VARIABLES
    task,     \* [Tasks -> Step], see TypeOK
    binding,  \* dispatchAfterTaskId
    seen,     \* the Task status a completion read with its Run, before the mutex
    control,  \* ChainControl rows: held and the layer of the barrier (0: before the first)
    events,   \* ChainControlEvent rows
    commits,  \* completions that still hold Chain mutexes
    owed      \* first steps whose dispatch was withheld by a hold

vars == <<task, binding, seen, control, events, commits, owed>>

Idle == [status |-> "TODO", run |-> "none", births |-> 0, source |-> FALSE,
         card |-> "none", resumes |-> 0]

Init ==
    /\ task = [t \in Tasks |-> Idle]
    /\ binding = InitialBinding
    /\ seen = [t \in Tasks |-> "none"]
    /\ control = [c \in Chains |-> [held |-> FALSE, barrier |-> 0, generation |-> 0]]
    /\ events = {}
    /\ commits = {}
    /\ owed = {}

-----------------------------------------------------------------------------
(***************************************************************************)
(* Reads.                                                                  *)
(***************************************************************************)

\* The Chain mutex is held by a completion that is still dispatching.
Locked(c) == \E x \in commits : c = ChainOf[x.from] \/ \E b \in x.done : c = ChainOf[b]

\* heldPredicate: the step is beyond the barrier of its held Chain.
Held(t) == control[ChainOf[t]].held /\ Layer[t] > control[ChainOf[t]].barrier

Beyond == {t \in Tasks : Held(t)}

LayerDone(tk, t) == \A x \in LayerOf[t] : tk[x].status = "DONE"
ChainDone(tk, c) == \A x \in Row[c] : tk[x].status = "DONE"
Blocked(t) == \E x \in Before[t] : task[x].status # "DONE"

\* dispatchBindingResolved, as another transaction reads the predecessor: what
\* a completion has not committed is not there yet.
Resolved(t) ==
    binding[t] # Nobody =>
        task[binding[t]].status = "DONE" /\ \A x \in commits : x.from # binding[t]

-----------------------------------------------------------------------------
(***************************************************************************)
(* What a transaction writes, as functions of the rows it read.            *)
(***************************************************************************)

\* attemptRunBirth and its settlement: a refused birth parks the Task.
Born(row, refused) ==
    IF row.run # "none" THEN row
    ELSE IF refused THEN [row EXCEPT !.status = "REVIEW"]
    ELSE [row EXCEPT !.run = "QUEUED", !.births = @ + 1]

\* A gate question needs the Session of the Run that led here.
Asked(row, sourced) ==
    IF sourced THEN [row EXCEPT !.status = "REVIEW", !.card = "open"] ELSE row

\* Rows that activation leaves alone: finished, running, parked by the operator,
\* waiting for an open gate, or stopped after too many automatic resumes.
LeftAlone(t, row) ==
    \/ row.status \in {"DONE", "BACKLOG"}
    \/ row.run # "none"
    \/ row.status = "REVIEW" /\ t \in Gated /\ row.card = "open"
    \/ row.status = "REVIEW" /\ row.resumes = MaxResumes

\* resumeParkedSuccessor.
Woken(row) ==
    IF row.status = "REVIEW" THEN [row EXCEPT !.status = "TODO", !.resumes = @ + 1] ELSE row

Advanced(t, row, sourced, refused) ==
    IF LeftAlone(t, row) THEN row
    ELSE IF t \in Agents THEN Born(Woken(row), refused)
    ELSE Asked(Woken(row), sourced)

\* Mutant: the first sibling to finish activates the next layer.
Follows_NoJoin(tk, t, x) ==
    /\ x \in After[t]
    /\ \A y \in After[t] : Layer[y] < Layer[x] => tk[y].status = "DONE"

\* x is in the layer that t's completion activates: every row of t's layer is
\* DONE, and so is every row between (a finished layer is history).
Follows(tk, t, x) ==
    /\ LayerDone(tk, t)
    /\ x \in After[t]
    /\ \A y \in After[t] : Layer[y] < Layer[x] => tk[y].status = "DONE"

\* Mutant: the layer is read before the completed step is written.
Activated_BeforeWrite(tk, t, sourced, refused, barred) ==
    [x \in Tasks |-> IF Follows(task, t, x) /\ x \notin barred
                     THEN Advanced(x, tk[x], sourced, x \in refused) ELSE tk[x]]

\* activateChainSuccessorInternal, the part inside the Chain.
Activated(tk, t, sourced, refused, barred) ==
    [x \in Tasks |-> IF Follows(tk, t, x) /\ x \notin barred
                     THEN Advanced(x, tk[x], sourced, x \in refused) ELSE tk[x]]

\* The Chains bound to t, which this transaction still has to dispatch.
Dispatches(tk, t) ==
    LET bound == {b \in Tasks : binding[b] = t}
    IN IF tk[t].status = "DONE" /\ bound # {}
       THEN {[from |-> t, over |-> ChainDone(tk, ChainOf[t]), todo |-> bound, done |-> {}]}
       ELSE {}

\* MaxRuns stops the counter of Runs, which no birth path here bounds.
Bounded == \A t \in Tasks : task'[t].births <= MaxRuns[t]

-----------------------------------------------------------------------------
(***************************************************************************)
(* Runs.                                                                   *)
(***************************************************************************)

Claim(t) ==
    /\ ~Locked(ChainOf[t]) /\ ~Held(t)
    /\ task[t].run = "QUEUED" /\ task[t].status \in {"TODO", "DOING"}
    /\ task' = [task EXCEPT ![t].run = "CLAIMED", ![t].status = "DOING"]
    /\ UNCHANGED <<binding, seen, control, events, commits, owed>>

\* A completion reads its Run and the Task status, then waits for the mutex.
ReadCompletion(t) ==
    /\ task[t].run = "CLAIMED" /\ seen[t] = "none"
    /\ ~Locked(ChainOf[t])
    /\ seen' = [seen EXCEPT ![t] = task[t].status]
    /\ UNCHANGED <<task, binding, control, events, commits, owed>>

Ended(t) == [task[t] EXCEPT !.run = "none", !.source = TRUE]

\* The Run succeeded.  The Task moves only if its status is still the one read.
SucceedRun(t, refused) ==
    /\ seen[t] # "none" /\ ~Locked(ChainOf[t])
    /\ seen' = [seen EXCEPT ![t] = "none"]
    /\ IF task[t].status # seen[t]
       THEN task' = [task EXCEPT ![t] = Ended(t)] /\ UNCHANGED commits
       ELSE IF t \in Gated
       THEN /\ task' = [task EXCEPT ![t] = [Ended(t) EXCEPT !.status = "REVIEW", !.card = "open"]]
            /\ UNCHANGED commits
       ELSE LET over == [task EXCEPT ![t] = [Ended(t) EXCEPT !.status = "DONE"]]
            IN /\ task' = Activated(over, t, TRUE, refused, Beyond)
               /\ commits' = commits \cup Dispatches(over, t)
    /\ Bounded
    /\ UNCHANGED <<binding, control, events, owed>>

Failed(t, retry) ==
    [task[t] EXCEPT !.run = IF retry THEN "QUEUED" ELSE "none",
                    !.births = IF retry THEN @ + 1 ELSE @,
                    !.status = IF @ # seen[t] THEN @ ELSE IF retry THEN "DOING" ELSE "REVIEW"]

\* The Run failed: another one was opened (unless the Chain is held) or the
\* Task is parked; both write the status only where it is still the one read.
FailRun(t, retry) ==
    /\ seen[t] # "none" /\ ~Locked(ChainOf[t])
    /\ retry => ~Held(t)
    /\ seen' = [seen EXCEPT ![t] = "none"]
    /\ task' = [task EXCEPT ![t] = Failed(t, retry)]
    /\ Bounded
    /\ UNCHANGED <<binding, control, events, commits, owed>>

\* A Run that ends without a completion: cancelled, cancelled and parked, lost.
EndRun(t, status) ==
    /\ task[t].run # "none" /\ seen[t] = "none" /\ ~Locked(ChainOf[t])
    /\ task' = [task EXCEPT ![t].run = "none", ![t].status = status]
    /\ UNCHANGED <<binding, seen, control, events, commits, owed>>

-----------------------------------------------------------------------------
(***************************************************************************)
(* The operator: Start, Retry, gates, Human steps, bindings.               *)
(***************************************************************************)

Start(t, refused) ==
    /\ ~Locked(ChainOf[t]) /\ ~Held(t) /\ ~Blocked(t) /\ Resolved(t)
    /\ t \in Agents /\ task[t].run = "none" /\ task[t].status \in {"TODO", "BACKLOG"}
    /\ task' = [task EXCEPT ![t] =
          IF refused THEN Born(@, TRUE) ELSE [Born(@, FALSE) EXCEPT !.status = "TODO"]]
    /\ Bounded
    /\ UNCHANGED <<binding, seen, control, events, commits, owed>>

\* Retry has no status condition: a DONE step can run again.
Retry(t, refused) ==
    /\ ~Locked(ChainOf[t]) /\ ~Held(t) /\ ~Blocked(t)
    /\ t \in Agents /\ task[t].run = "none" /\ task[t].births > 0
    /\ task' = [task EXCEPT ![t] =
          IF refused THEN Born(@, TRUE) ELSE [Born(@, FALSE) EXCEPT !.status = "TODO"]]
    /\ Bounded
    /\ UNCHANGED <<binding, seen, control, events, commits, owed>>

\* Approving a gate.  Neither the status nor an active Run of the step is read.
Approve(t, refused) ==
    /\ ~Locked(ChainOf[t]) /\ task[t].card = "open"
    /\ LET over == [task EXCEPT ![t].status = "DONE", ![t].card = "none"]
       IN /\ task' = Activated(over, t, TRUE, refused, Beyond)
          /\ commits' = commits \cup Dispatches(over, t)
    /\ Bounded
    /\ UNCHANGED <<binding, seen, control, events, owed>>

\* The step a rejection sends back: the gate itself if an Agent executes it,
\* else the last Agent step of the nearest earlier layer that has one.
RedoTargets(t) ==
    IF t \in Agents THEN {t}
    ELSE {x \in Before[t] \cap Agents : \A y \in Before[t] \cap Agents :
              Layer[y] < Layer[x] \/ (Layer[y] = Layer[x] /\ Id[y] <= Id[x])}

\* The birth is not retried on a Run that is already there: the decision fails.
Reject(t, x, refused) ==
    /\ ~Locked(ChainOf[t]) /\ task[t].card = "open"
    /\ x \in RedoTargets(t) /\ ~Held(x) /\ task[x].run = "none"
    /\ LET over == [task EXCEPT ![t] = [@ EXCEPT !.card = "rejected", !.status = "TODO"]]
       IN task' = [over EXCEPT ![x] = Born([@ EXCEPT !.status = "TODO"], refused)]
    /\ Bounded
    /\ UNCHANGED <<binding, seen, control, events, commits, owed>>

\* PATCH DONE of a Human step; it closes the step's open card.
HumanDone(t, refused) ==
    /\ ~Locked(ChainOf[t]) /\ ~Blocked(t)
    /\ t \notin Agents /\ task[t].status # "DONE" /\ task[t].card # "rejected"
    /\ LET over == [task EXCEPT ![t].status = "DONE", ![t].card = "none"]
       IN /\ task' = Activated(over, t, FALSE, refused, Beyond)
          /\ commits' = commits \cup Dispatches(over, t)
    /\ Bounded
    /\ UNCHANGED <<binding, seen, control, events, owed>>

\* PATCH of the binding of a Chain without Runs.  The predecessor is not locked.
Rebind(t, p) ==
    /\ ~Locked(ChainOf[t]) /\ Before[t] = {} /\ p # binding[t]
    /\ \A x \in Row[ChainOf[t]] : task[x].births = 0
    /\ p # Nobody => ChainOf[p] # ChainOf[t]
    /\ binding' = [binding EXCEPT ![t] = p]
    /\ owed' = owed \ {t}
    /\ UNCHANGED <<task, seen, control, events, commits>>

-----------------------------------------------------------------------------
(***************************************************************************)
(* Bound dispatch: the completion takes the mutex of one more Chain.       *)
(***************************************************************************)

\* What the completion x does to the first step b of a Chain bound to it.
Dispatched(x, b, row, refused) ==
    IF binding[b] # x.from THEN row
    ELSE IF ~x.over THEN [row EXCEPT !.status = "REVIEW"]
    ELSE IF control[ChainOf[b]].held \/ row.run # "none" \/ row.status = "DONE" THEN row
    ELSE IF row.status # "TODO" THEN [row EXCEPT !.status = "REVIEW"]
    ELSE Born(row, refused)

Withheld(x, b) == binding[b] = x.from /\ x.over /\ control[ChainOf[b]].held

\* In the order of ids.  The mutex of b's Chain is free, or already this one's.
DispatchBound(x, b, refused) ==
    /\ x \in commits /\ b \in x.todo /\ \A d \in x.todo : Id[b] <= Id[d]
    /\ \A y \in commits \ {x} : ChainOf[y.from] # ChainOf[b]
                                /\ \A d \in y.done : ChainOf[d] # ChainOf[b]
    /\ task' = [task EXCEPT ![b] = Dispatched(x, b, @, refused)]
    /\ owed' = IF Withheld(x, b) THEN owed \cup {b} ELSE owed
    /\ commits' = (commits \ {x}) \cup
          (IF x.todo = {b} THEN {}
           ELSE {[x EXCEPT !.todo = @ \ {b}, !.done = @ \cup {b}]})
    /\ Bounded
    /\ UNCHANGED <<binding, seen, control, events>>

-----------------------------------------------------------------------------
(***************************************************************************)
(* Hold and Resume.                                                        *)
(***************************************************************************)

\* Mutant: a queued Run of a Task that is still TODO does not admit its layer.
Admitted_ByStatus(t) == task[t].status # "TODO"

\* A step is admitted once it left TODO or ever had a Run.
Admitted(t) == task[t].status # "TODO" \/ task[t].births > 0

\* The barrier is the highest admitted layer; 0 is before the first one.
Barrier(c, l) ==
    /\ l = 0 \/ \E t \in Row[c] : Layer[t] = l /\ Admitted(t)
    /\ \A t \in Row[c] : Admitted(t) => Layer[t] <= l
Barriers(c) == {l \in {0} \cup {Layer[t] : t \in Row[c]} : Barrier(c, l)}

\* Mutant: a request is recognised only while the Chain is still held.
Recorded_WhileHeld(c, kind, r) ==
    control[c].held /\ \E e \in events : e.chain = c /\ e.kind = kind /\ e.request = r

Recorded(c, kind, r) == \E e \in events : e.chain = c /\ e.kind = kind /\ e.request = r
Event(c, kind, r, g) == [chain |-> c, kind |-> kind, request |-> r, generation |-> g]

\* Hold: a no-op on a held Chain and for a request already accepted.
HoldChain(c, r) ==
    /\ ~Locked(c) /\ ~control[c].held /\ ~Recorded(c, "HELD", r)
    /\ ~ChainDone(task, c)
    /\ \E l \in Barriers(c) : control' = [control EXCEPT ![c] =
          [held |-> TRUE, barrier |-> l, generation |-> @.generation + 1]]
    /\ events' = events \cup {Event(c, "HELD", r, control[c].generation + 1)}
    /\ UNCHANGED <<task, binding, seen, commits, owed>>

Released(c, r) ==
    /\ ~Locked(c) /\ control[c].held /\ ~Recorded(c, "RELEASED", r)
    /\ control' = [control EXCEPT ![c].held = FALSE]
    /\ events' = events \cup {Event(c, "RELEASED", r, control[c].generation)}

\* The row after which Resume catches up: the first one of the highest complete
\* layer, once the layer of the barrier is complete.
Anchor(c) ==
    {t \in Row[c] : /\ \A x \in Row[c] : Layer[x] = control[c].barrier => task[x].status = "DONE"
                    /\ LayerDone(task, t) /\ \A x \in LayerOf[t] : Id[t] <= Id[x]
                    /\ \A x \in Row[c] : LayerDone(task, x) => Layer[x] <= Layer[t]}
Sourced(t) == \E x \in LayerOf[t] : task[x].source
NeedsSource(t) ==
    \E x \in Row[ChainOf[t]] : /\ Follows(task, t, x)
                               /\ x \notin Agents /\ task[x].status \notin {"DONE", "BACKLOG"}

CatchUp(t, refused) ==
    /\ Sourced(t) \/ ~NeedsSource(t)
    /\ task' = Activated(task, t, Sourced(t), refused, {})
    /\ commits' = commits \cup Dispatches(task, t)

\* Resume of a Chain held after a layer.
ResumeChain(c, r, refused) ==
    /\ control[c].barrier # 0 /\ Released(c, r)
    /\ IF Anchor(c) = {} THEN UNCHANGED <<task, commits>>
       ELSE \E t \in Anchor(c) : CatchUp(t, refused)
    /\ Bounded
    /\ UNCHANGED <<binding, seen, owed>>

\* A Resume that would start the first layer: the predecessor is done and no
\* Run was ever born there.
StartsFirst(c) == \A t \in First[c] : Resolved(t) /\ task[t].births = 0
Startable(c) == \A t \in First[c] : task[t].status \in {"TODO", "BACKLOG"}

\* Resume of a Chain held before its first layer.  A step that cannot be
\* started refuses the Resume.
ResumeBeforeFirst(c, r) ==
    /\ control[c].barrier = 0 /\ Released(c, r)
    /\ StartsFirst(c) => Startable(c)
    /\ task' = [t \in Tasks |-> IF StartsFirst(c) /\ t \in First[c]
                 THEN [Born(task[t], FALSE) EXCEPT !.status = "TODO"] ELSE task[t]]
    /\ Bounded
    /\ UNCHANGED <<binding, seen, commits, owed>>

\* The birth is refused (spend cap): the release is rolled back to its
\* savepoint, the park of the step is kept.
ResumeRefused(c, r) ==
    /\ ~Locked(c) /\ control[c].held /\ control[c].barrier = 0
    /\ ~Recorded(c, "RELEASED", r) /\ StartsFirst(c) /\ Startable(c)
    /\ task' = [t \in Tasks |-> IF t \in First[c] THEN Born(task[t], TRUE) ELSE task[t]]
    /\ UNCHANGED <<binding, seen, control, events, commits, owed>>

-----------------------------------------------------------------------------
RunNext ==
    \E t \in Tasks :
        \/ Claim(t)
        \/ ReadCompletion(t)
        \/ \E refused \in SUBSET (Agents \cap After[t]) : SucceedRun(t, refused)
        \/ \E retry \in BOOLEAN : FailRun(t, retry)
        \/ \E status \in {"REVIEW", "BACKLOG"} : EndRun(t, status)

OperatorNext ==
    \E t \in Tasks :
        \/ \E refused \in BOOLEAN : \/ Start(t, refused)
                                    \/ Retry(t, refused)
                                    \/ \E x \in Tasks : Reject(t, x, refused)
        \/ \E refused \in SUBSET (Agents \cap After[t]) :
              Approve(t, refused) \/ HumanDone(t, refused)
        \/ \E p \in Targets \cup {Nobody} : Rebind(t, p)

ControlNext ==
    \E c \in Chains, r \in Requests :
        \/ HoldChain(c, r)
        \/ \E refused \in SUBSET (Agents \cap Row[c]) : ResumeChain(c, r, refused)
        \/ ResumeBeforeFirst(c, r)
        \/ ResumeRefused(c, r)

DispatchNext ==
    \E x \in commits : \E b \in x.todo : \E refused \in BOOLEAN : DispatchBound(x, b, refused)

Next == RunNext \/ OperatorNext \/ ControlNext \/ DispatchNext

Spec == Init /\ [][Next]_vars

-----------------------------------------------------------------------------
(***************************************************************************)
(* Properties.                                                             *)
(***************************************************************************)

Step == [status : Statuses, run : {"none", "QUEUED", "CLAIMED"}, births : Nat,
         source : BOOLEAN, card : {"none", "open", "rejected"}, resumes : 0..MaxResumes]
ControlEvent == [chain : Chains, kind : {"HELD", "RELEASED"}, request : Requests, generation : Nat]
Commit == [from : Tasks, over : BOOLEAN, todo : SUBSET Tasks, done : SUBSET Tasks]

\* Every variable keeps its type (Task, Run, ChainControl and event columns).
TypeOK ==
    /\ task \in [Tasks -> Step]
    /\ binding \in [Tasks -> Tasks \cup {Nobody}]
    /\ seen \in [Tasks -> Statuses \cup {"none"}]
    /\ control \in [Chains -> [held : BOOLEAN, barrier : Nat, generation : Nat]]
    /\ events \subseteq ControlEvent
    /\ commits \subseteq Commit
    /\ owed \subseteq Tasks

\* While a Chain is held no step beyond the barrier has a Run: Hold computes the
\* barrier from what was admitted, and every birth path stops behind it.
HoldIsABarrier ==
    \A t \in Tasks : Held(t) => task[t].run = "none"

\* No activation is lost.  When everything before an Agent step is DONE, its
\* Chain is not held and no completion is under way, the step is running, was
\* finished, or is parked where the operator sees it; it is never left in TODO.
Quiet(c) == ~control[c].held /\ ~Locked(c)
NoStepStranded ==
    \A t \in Agents :
        Before[t] # {} /\ ~Blocked(t) /\ Quiet(ChainOf[t]) =>
            ~(task[t].status = "TODO" /\ task[t].run = "none")

\* A dispatch withheld by a hold is made up by Resume: once the Chain is
\* released and the predecessor is still DONE, the first step was started.
WithheldIsMadeUp ==
    \A t \in owed : Quiet(ChainOf[t]) /\ Resolved(t) =>
        task[t].births > 0 \/ task[t].status # "TODO"

\* Neither a layer nor a bound Chain waits for an activation that is gone.
NoActivationIsLost == NoStepStranded /\ WithheldIsMadeUp

\* A Hold or Resume request acts at most once, however often it is delivered:
\* two events of one request are one event, and each hold is released once.
RequestActsOnce ==
    \A e, f \in events : e.chain = f.chain /\ e.kind = f.kind
        /\ (e.request = f.request \/ e.generation = f.generation) => e = f

\* The first Run of a step is born only when the layer before it is DONE and a
\* bound predecessor is DONE, whichever of the five birth paths got there.
Nearest(t) == {x \in Before[t] : \A y \in Before[t] : Layer[y] <= Layer[x]}
FirstRunFollows ==
    [][\A t \in Tasks : task[t].births = 0 /\ task'[t].births > 0 =>
          /\ \A x \in Nearest(t) : task'[x].status = "DONE"
          /\ binding[t] # Nobody => task[binding[t]].status = "DONE"]_vars

\* Whatever replays a completion (a Retry of a finished step, a Resume), the
\* dispatch leaves a successor alone that is queued or running.
DispatchKeepsActive ==
    [][\A t \in Tasks : task[t].run # "none" /\ task'[t].run = task[t].run
          /\ Before[t] = {} => task'[t].status # "REVIEW" \/ task[t].status = "REVIEW"]_vars

\* dispatchBoundSuccessor: the own mutex first and the successors' after it, an
\* order that is "total because a binding can only point at a chain that
\* pre-dates its own": two completions never wait for each other.
LocksNeverCross ==
    \A x, y \in commits : \A b \in x.todo, d \in y.todo :
        ~(/\ \/ ChainOf[b] = ChainOf[y.from] \/ \E e \in y.done : ChainOf[e] = ChainOf[b]
          /\ \/ ChainOf[d] = ChainOf[x.from] \/ \E e \in x.done : ChainOf[e] = ChainOf[d])

\* Of the successors' mutexes alone: taken in the order of ids, no two
\* completions take two of them crosswise, however bindings move meanwhile.
SuccessorLocksInOrder ==
    \A x, y \in commits : \A b \in x.todo, d \in y.todo :
        ~(/\ \E e \in y.done : ChainOf[e] = ChainOf[b]
          /\ \E e \in x.done : ChainOf[e] = ChainOf[d])
=============================================================================
