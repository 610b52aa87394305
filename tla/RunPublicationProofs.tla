------------------------- MODULE RunPublicationProofs -------------------------
(***************************************************************************)
(* Theorems about RunPublication, for every number of Runs.                *)
(*                                                                         *)
(* The invariant is stated of arbitrary rows r, births b and so on (Good), *)
(* since a handler that ends a Run and opens the next one passes through   *)
(* rows that are nobody's state.                                           *)
(***************************************************************************)
EXTENDS RunPublication, WellFoundedInduction, TLAPS

Typed(r, b, rf, cl, st) ==
    /\ r \in [Runs -> RunRow]
    /\ b \in 0..MaxRuns
    /\ rf \in [Refs -> SUBSET Runs]
    /\ cl \in [Runs -> SUBSET Runs]
    /\ st \in [Runs -> Refs]

\* Only the latest Run is open, and rows beyond it do not exist.
Ordered(r, b) ==
    \A n \in Runs : /\ n > b => r[n].status = "NONE"
                    /\ n < b => r[n].status = "ENDED"

\* A Run that was not started has pushed nothing and reported nothing.
PushedIsStarted(r, st) ==
    \A n \in Runs :
        /\ r[n].status \in {"NONE", "QUEUED", "CLAIMED", "PROVISIONED"} => ~r[n].started
        /\ st[n] # 0 => r[n].started
        /\ r[n].pushed # 0 => st[n] # 0

\* What is reported, sent or built on is on the remote.
OnRemote(r, rf, st) ==
    \A n \in Runs :
        /\ st[n] # 0 => rf[st[n]] # {}
        /\ r[n].pushed # 0 => rf[r[n].pushed] # {}
        /\ r[n].base # 0 => rf[r[n].base] # {}

\* A Run's head is its own or an older one, so no ref is written ahead of its Run.
HeadsBehind(r, rf) ==
    /\ \A n \in Runs : r[n].head <= n
    /\ \A k \in Runs : rf[k] # {} => \E m \in Runs : r[m].started /\ k <= m

\* A Run continues the head of the one before it, or has its own.
HeadsFollow(r) ==
    \A n \in Runs : n > 1 /\ r[n].status # "NONE" => r[n].head \in {n, r[n - 1].head}

\* The predecessor published under the head it owns.
Saved(r, n) == n > 1 /\ r[n - 1].pushed = n - 1 /\ r[n - 1].head = n - 1

\* Before a Run starts, such a publication is its head or its base; once it has
\* a checkout, the publication is in it.
BuildsOnSaved(r, rf, cl) ==
    \A n \in Runs : Saved(r, n) =>
        /\ r[n].status \in {"QUEUED", "CLAIMED"} =>
              r[n].head = n - 1 \/ (r[n].head = n /\ r[n].base = n - 1)
        /\ r[n].status = "PROVISIONED" => rf[n - 1] \subseteq cl[n]

Good(r, b, rf, cl, st) ==
    /\ Typed(r, b, rf, cl, st)
    /\ Ordered(r, b)
    /\ PushedIsStarted(r, st)
    /\ OnRemote(r, rf, st)
    /\ HeadsBehind(r, rf)
    /\ HeadsFollow(r)
    /\ BuildsOnSaved(r, rf, cl)

IInv == Good(run, births, ref, clone, sent)

-----------------------------------------------------------------------------
\* The sets, spelled out.
LEMMA Sets ==
    /\ Runs \subseteq Refs /\ 0 \in Refs /\ Runs \subseteq Nat \ {0} /\ Refs \subseteq Nat
    /\ Claimed = {"CLAIMED", "PROVISIONED", "RUNNING"}
    /\ Status = {"NONE", "QUEUED", "ENDED", "CLAIMED", "PROVISIONED", "RUNNING"}
BY RunsAssumption DEF Runs, Refs, Claimed, Status

LEMMA InitInv == Init => IInv
BY Sets, RunsAssumption
   DEF Init, IInv, Good, Typed, Ordered, PushedIsStarted, OnRemote, HeadsBehind,
       HeadsFollow, BuildsOnSaved, Saved, RunRow, Runs, Refs

-----------------------------------------------------------------------------
(***************************************************************************)
(* Branch resolution.                                                      *)
(***************************************************************************)


\* A set of Runs that is not empty has a newest one.
LEMMA Newest ==
    ASSUME NEW S \in SUBSET Runs, S # {}
    PROVE  \E m \in S : \A k \in S : k <= m
<1>. DEFINE older == {MaxRuns - m : m \in S}
            less == OpToRel(<, Nat)
<1>1. PICK s \in S : TRUE OBVIOUS
<1>2. older \subseteq Nat /\ older # {}
  <2>1. MaxRuns - s \in older BY <1>1
  <2>2. \A m \in S : MaxRuns - m \in Nat BY RunsAssumption DEF Runs
  <2>. QED BY <2>1, <2>2
<1>3. IsWellFoundedOn(less, Nat) BY NatLessThanWellFounded
<1>4. \A x, y \in Nat : x < y => <<x, y>> \in less BY DEF OpToRel
<1>. HIDE DEF older, less
<1>5. PICK x \in older : \A y \in older : ~ (<<y, x>> \in less) BY <1>2, <1>3, WFMin, Zenon
<1>6. \A y \in older : ~(y < x) BY <1>2, <1>4, <1>5
<1>7. PICK m \in S : x = MaxRuns - m BY <1>5 DEF older
<1>8. ASSUME NEW k \in S PROVE k <= m
  <2>1. MaxRuns - k \in older BY DEF older
  <2>. QED BY <2>1, <1>6, <1>7, RunsAssumption DEF Runs
<1>. QED BY <1>8

\* Publication evidence is what some Run pushed, or there is none.
LEMMA InheritedIs ==
    ASSUME NEW r \in [Runs -> RunRow], NEW p \in Runs
    PROVE  LET i == InheritedPublication(r, p)
           IN i \in Refs /\ (i # 0 => \E m \in Runs : r[m].pushed = i)
<1>. DEFINE newest == CHOOSE m \in Published(r) : \A k \in Published(r) : k <= m
<1>1. Published(r) \in SUBSET Runs /\ \A m \in Published(r) : m \in Runs BY DEF Published
<1>2. Published(r) # {} => newest \in Published(r) BY <1>1, Newest
<1>3. \A m \in Runs : r[m].pushed \in Refs /\ r[m].head \in Refs BY DEF RunRow
<1>. HIDE DEF newest
<1>4. CASE \E m \in Runs : r[m].pushed = r[p].head
  BY <1>3, <1>4 DEF InheritedPublication
<1>5. CASE ~\E m \in Runs : r[m].pushed = r[p].head
  <2>1. InheritedPublication(r, p) = IF Published(r) = {} THEN 0 ELSE r[newest].pushed
    BY <1>5 DEF InheritedPublication, newest
  <2>. QED BY <1>1, <1>2, <1>3, <2>1, Sets
<1>. QED BY <1>4, <1>5

\* A requeue builds on evidence, on the base of the Run before it, or on neither.
LEMMA RequeueIs ==
    ASSUME NEW r \in [Runs -> RunRow], NEW p \in Runs
    PROVE  LET q == RequeueBase(r, p)
           IN q \in Refs /\ (q # 0 => \E m \in Runs : r[m].pushed = q \/ r[m].base = q)
<1>1. r[p].base \in Refs BY DEF RunRow
<1>. QED BY <1>1, InheritedIs, Sets DEF RequeueBase

\* What the newborn Run n looks like.
LEMMA NewRunIs ==
    ASSUME NEW r \in [Runs -> RunRow], NEW n \in Runs, NEW intent,
           \A m \in Runs : r[m].head <= m
    PROVE  LET row == NewRun(r, n, intent)
           IN /\ row \in RunRow
              /\ row.status = "QUEUED" /\ ~row.started /\ row.pushed = 0
              /\ row.head <= n
              /\ n > 1 => row.head \in {n, r[n - 1].head}
              /\ row.base # 0 => \E m \in Runs : r[m].pushed = row.base \/ r[m].base = row.base
              /\ Saved(r, n) => row.head = n - 1 \/ (row.head = n /\ row.base = n - 1)
<1>. DEFINE row == NewRun(r, n, intent)
<1>1. CASE n = 1
  <2>1. row.head = n /\ row.base = 0 /\ row.status = "QUEUED" /\ row.started = FALSE /\ row.pushed = 0
    BY <1>1 DEF NewRun
  <2>2. row = [status |-> "QUEUED", started |-> FALSE, pushed |-> 0, head |-> n, base |-> 0]
    BY <1>1 DEF NewRun
  <2>3. row \in RunRow BY <2>2, Sets DEF RunRow
  <2>4. ~Saved(r, n) /\ n <= n BY <1>1, Sets DEF Saved
  <2>. HIDE DEF row
  <2>5. /\ row \in RunRow
        /\ row.status = "QUEUED" /\ ~row.started /\ row.pushed = 0
        /\ row.head <= n
        /\ n > 1 => row.head \in {n, r[n - 1].head}
        /\ row.base # 0 => \E m \in Runs : r[m].pushed = row.base \/ r[m].base = row.base
        /\ Saved(r, n) => row.head = n - 1 \/ (row.head = n /\ row.base = n - 1)
    BY <1>1, <2>1, <2>3, <2>4
  <2>. QED BY <2>5 DEF row
<1>2. CASE n # 1
  <2>. DEFINE p == n - 1
  <2>1. p \in Runs /\ p < n /\ n \in Refs BY <1>2, RunsAssumption DEF Runs, Refs
  <2>. DEFINE h == IF intent = "retry-after-completion" /\ r[p].head = p THEN n ELSE r[p].head
              q == IF intent = "enqueue" THEN InheritedPublication(r, p) ELSE RequeueBase(r, p)
  <2>2. row = [status |-> "QUEUED", started |-> FALSE, pushed |-> 0, head |-> h, base |-> q]
    BY <1>2 DEF NewRun
  <2>3. h \in Refs /\ h <= n /\ h \in {n, r[n - 1].head}
    <3>1. r[p].head \in Refs /\ r[p].head <= p /\ r[p].head \in Nat BY <2>1, Sets DEF RunRow
    <3>2. r[p].head <= n BY <2>1, <3>1, Sets
    <3>. QED BY <2>1, <3>1, <3>2, Sets
  <2>4. q \in Refs /\ (q # 0 => \E m \in Runs : r[m].pushed = q \/ r[m].base = q)
    BY <2>1, InheritedIs, RequeueIs
  <2>5. Saved(r, n) => h = p \/ (h = n /\ q = p)
    <3>. SUFFICES ASSUME Saved(r, n) PROVE h = p \/ (h = n /\ q = p) OBVIOUS
    <3>1. r[p].head = p /\ r[p].pushed = p BY DEF Saved
    <3>2. InheritedPublication(r, p) = p BY <2>1, <3>1 DEF InheritedPublication
    <3>3. RequeueBase(r, p) = p BY <2>1, <3>2, Sets DEF RequeueBase
    <3>. QED BY <3>1, <3>2, <3>3
  <2>. HIDE DEF h, q
  <2>6. row \in RunRow BY <2>2, <2>3, <2>4, Sets DEF RunRow
  <2>7. row.status = "QUEUED" /\ row.started = FALSE /\ row.pushed = 0 /\ row.head = h /\ row.base = q
    BY <2>2
  <2>. HIDE DEF row
  <2>8. /\ row \in RunRow
        /\ row.status = "QUEUED" /\ ~row.started /\ row.pushed = 0
        /\ row.head <= n
        /\ n > 1 => row.head \in {n, r[n - 1].head}
        /\ row.base # 0 => \E m \in Runs : r[m].pushed = row.base \/ r[m].base = row.base
        /\ Saved(r, n) => row.head = n - 1 \/ (row.head = n /\ row.base = n - 1)
    BY <2>3, <2>4, <2>5, <2>6, <2>7
  <2>. QED BY <2>8 DEF row
<1>. QED BY <1>1, <1>2

\* Rows that exist already keep their heads.
LEMMA HeadsKept ==
    ASSUME NEW r, HeadsFollow(r), NEW s,
           \A m \in Runs : s[m].head = r[m].head /\ (s[m].status # "NONE" => r[m].status # "NONE")
    PROVE  HeadsFollow(s)
<1>1. \A m \in Runs : m > 1 => m - 1 \in Runs BY RunsAssumption DEF Runs
<1>. QED BY <1>1 DEF HeadsFollow

-----------------------------------------------------------------------------
(***************************************************************************)
(* What keeps Good.                                                        *)
(***************************************************************************)

\* A birth after every other Run ended.
LEMMA BirthOK ==
    ASSUME NEW r, NEW b, Good(r, b, ref, clone, sent), NEW intent,
           b < MaxRuns, b > 0 => r[b].status = "ENDED"
    PROVE  Good([r EXCEPT ![b + 1] = NewRun(r, b + 1, intent)], b + 1, ref, clone, sent)
<1>. DEFINE n == b + 1
            row == NewRun(r, n, intent)
            new == [r EXCEPT ![n] = row]
<1>1. r \in [Runs -> RunRow] /\ b \in Nat /\ n \in Runs
  BY RunsAssumption DEF Good, Typed, Runs
<1>2. /\ row \in RunRow
      /\ row.status = "QUEUED" /\ ~row.started /\ row.pushed = 0
      /\ row.head <= n
      /\ n > 1 => row.head \in {n, r[n - 1].head}
      /\ row.base # 0 => \E m \in Runs : r[m].pushed = row.base \/ r[m].base = row.base
      /\ Saved(r, n) => row.head = n - 1 \/ (row.head = n /\ row.base = n - 1)
  BY <1>1, NewRunIs DEF Good, HeadsBehind
<1>3. r[n].status = "NONE" /\ ~r[n].started /\ sent[n] = 0
  BY <1>1 DEF Good, Ordered, PushedIsStarted
<1>. HIDE DEF row
<1>4. new \in [Runs -> RunRow] /\ new[n] = row /\ \A m \in Runs : m # n => new[m] = r[m]
  BY <1>1, <1>2
<1>5. Typed(new, n, ref, clone, sent) BY <1>1, <1>4 DEF Good, Typed, Runs
<1>6. Ordered(new, n) BY <1>1, <1>4, Sets DEF Good, Ordered
<1>7. PushedIsStarted(new, sent) BY <1>2, <1>3, <1>4 DEF Good, PushedIsStarted
<1>8. OnRemote(new, ref, sent) BY <1>2, <1>4 DEF Good, OnRemote
<1>9. HeadsBehind(new, ref) BY <1>2, <1>3, <1>4 DEF Good, HeadsBehind
<1>10. BuildsOnSaved(new, ref, clone)
  <2>1. ASSUME NEW m \in Runs, Saved(new, m), m # n PROVE Saved(r, m)
    <3>1. m - 1 \in Runs BY <2>1, RunsAssumption DEF Saved, Runs
    <3>2. m - 1 # n BY <1>2, <1>4, <2>1, Sets DEF Saved
    <3>. QED BY <1>4, <2>1, <3>1, <3>2 DEF Saved
  <2>2. Saved(new, n) => Saved(r, n)
    <3>1. n > 1 => n - 1 \in Runs /\ n - 1 # n BY <1>1, RunsAssumption DEF Runs
    <3>. QED BY <1>1, <1>4, <3>1 DEF Saved
  <2>. QED BY <1>2, <1>4, <2>1, <2>2 DEF Good, BuildsOnSaved
<1>11. HeadsFollow(new)
  <2>1. \A m \in Runs : m > 1 => m - 1 \in Runs BY RunsAssumption DEF Runs
  <2>2. ASSUME NEW m \in Runs, m > 1, new[m].status # "NONE", m # n
        PROVE  new[m].head \in {m, new[m - 1].head}
    <3>1. m - 1 # n BY <1>1, <1>4, <2>2, Sets DEF Good, Ordered
    <3>. QED BY <1>4, <2>1, <2>2, <3>1 DEF Good, HeadsFollow
  <2>3. n > 1 => new[n].head \in {n, new[n - 1].head}
    <3>1. n > 1 => n - 1 \in Runs /\ n - 1 # n BY <1>1, RunsAssumption DEF Runs
    <3>. QED BY <1>2, <1>4, <3>1
  <2>. QED BY <2>2, <2>3 DEF HeadsFollow
<1>. HIDE DEF new, n
<1>12. Good(new, n, ref, clone, sent)
  BY <1>5, <1>6, <1>7, <1>8, <1>9, <1>10, <1>11 DEF Good
<1>. QED BY <1>12 DEF new, n, row

LEMMA ReopenedOK ==
    ASSUME NEW r, Good(r, births, ref, clone, sent), NEW intent,
           births > 0 => r[births].status = "ENDED",
           Reopened(r, intent), UNCHANGED <<ref, clone, sent>>
    PROVE  IInv'
BY BirthOK DEF Reopened, IInv

\* The open Run is rewritten: it moves on, ends, or reports what it sent.
LEMMA OpenRowOK ==
    ASSUME IInv, NEW n \in Runs, run[n].status \in Claimed \union {"QUEUED"}, NEW row \in RunRow,
           row.head = run[n].head, row.base = run[n].base,
           row.pushed = run[n].pushed \/ (sent[n] # 0 /\ row.pushed = sent[n]),
           row.status # "NONE", row.status # "PROVISIONED",
           row.status \in {"QUEUED", "CLAIMED"} => run[n].status = "QUEUED",
           row.started = run[n].started \/ (row.started /\ row.status = "RUNNING")
    PROVE  /\ Good([run EXCEPT ![n] = row], births, ref, clone, sent)
           /\ n = births /\ births > 0
<1>. DEFINE new == [run EXCEPT ![n] = row]
<1>1. run \in [Runs -> RunRow] /\ births \in Nat /\ n \in Nat \ {0}
  BY Sets, RunsAssumption DEF IInv, Good, Typed
<1>2. n = births BY <1>1, Sets DEF IInv, Good, Ordered
<1>3. new \in [Runs -> RunRow] /\ new[n] = row /\ \A m \in Runs : m # n => new[m] = run[m]
  BY <1>1
<1>. HIDE DEF new
<1>4. Typed(new, births, ref, clone, sent) BY <1>3 DEF IInv, Good, Typed
<1>5. Ordered(new, births) BY <1>1, <1>2, <1>3, Sets DEF IInv, Good, Ordered
<1>6. PushedIsStarted(new, sent)
  <2>1. run[n].status \in {"QUEUED"} \cup {"CLAIMED", "PROVISIONED"} => ~run[n].started
    BY DEF IInv, Good, PushedIsStarted
  <2>2. row.status \in {"NONE", "QUEUED", "CLAIMED", "PROVISIONED"} => ~row.started BY <2>1
  <2>3. run[n].started => row.started BY Sets DEF RunRow
  <2>. QED BY <1>3, <2>2, <2>3 DEF IInv, Good, PushedIsStarted
<1>7. OnRemote(new, ref, sent) BY <1>3 DEF IInv, Good, OnRemote
<1>8. HeadsBehind(new, ref)
  <2>1. run[n].started => row.started BY Sets DEF RunRow
  <2>. QED BY <1>3, <2>1 DEF IInv, Good, HeadsBehind
<1>9. BuildsOnSaved(new, ref, clone)
  <2>1. ASSUME NEW m \in Runs, Saved(new, m), m > births PROVE new[m].status = "NONE"
    BY <1>5, <2>1 DEF Ordered
  <2>2. ASSUME NEW m \in Runs, Saved(new, m), ~(m > births) PROVE Saved(run, m)
    <3>1. m - 1 \in Runs /\ m - 1 # n BY <1>1, <1>2, <2>2, RunsAssumption DEF Saved, Runs
    <3>. QED BY <1>3, <2>2, <3>1 DEF Saved
  <2>. QED BY <1>3, <2>1, <2>2 DEF IInv, Good, BuildsOnSaved
<1>10. HeadsFollow(new) BY <1>3, HeadsKept, Sets DEF IInv, Good
<1>. QED BY <1>1, <1>2, <1>4, <1>5, <1>6, <1>7, <1>8, <1>9, <1>10 DEF Good, new

-----------------------------------------------------------------------------
(***************************************************************************)
(* Every step keeps the invariant.                                         *)
(***************************************************************************)
LEMMA OpenRunPreserves == ASSUME IInv, OpenRun PROVE IInv'
BY BirthOK DEF OpenRun, IInv

LEMMA SimpleMovesPreserve ==
    ASSUME IInv, NEW n \in Runs,
           ClaimRun(n) \/ StartRun(n) \/ CancelRun(n) \/ PublishRun(n)
    PROVE  IInv'
<1>1. run \in [Runs -> RunRow] /\ run[n] \in RunRow /\ sent[n] \in Refs BY DEF IInv, Good, Typed
<1>2. PICK row \in RunRow :
        /\ run' = [run EXCEPT ![n] = row]
        /\ run[n].status \in Claimed \union {"QUEUED"}
        /\ row.head = run[n].head /\ row.base = run[n].base
        /\ row.pushed = run[n].pushed \/ (sent[n] # 0 /\ row.pushed = sent[n])
        /\ row.status # "NONE" /\ row.status # "PROVISIONED"
        /\ row.status \in {"QUEUED", "CLAIMED"} => run[n].status = "QUEUED"
        /\ row.started = run[n].started \/ (row.started /\ row.status = "RUNNING")
        /\ UNCHANGED <<births, ref, clone, sent>>
  <2>1. CASE ClaimRun(n)
    <3>. DEFINE row == [run[n] EXCEPT !.status = "CLAIMED"]
    <3>. row \in RunRow BY <1>1, Sets DEF RunRow
    <3>. WITNESS row \in RunRow
    <3>. QED BY <1>1, <2>1, Sets DEF ClaimRun, RunRow
  <2>2. CASE StartRun(n)
    <3>. DEFINE row == [run[n] EXCEPT !.status = "RUNNING", !.started = TRUE]
    <3>. row \in RunRow BY <1>1, Sets DEF RunRow
    <3>. WITNESS row \in RunRow
    <3>. QED BY <1>1, <2>2, Sets DEF StartRun, RunRow
  <2>3. CASE CancelRun(n)
    <3>. DEFINE row == [run[n] EXCEPT !.status = "ENDED"]
    <3>. row \in RunRow BY <1>1, Sets DEF RunRow
    <3>. WITNESS row \in RunRow
    <3>. QED BY <1>1, <2>3, Sets DEF CancelRun, RunRow
  <2>4. CASE PublishRun(n)
    <3>. DEFINE row == [run[n] EXCEPT !.pushed = sent[n]]
    <3>. row \in RunRow BY <1>1, Sets DEF RunRow
    <3>. WITNESS row \in RunRow
    <3>. QED BY <1>1, <2>4, Sets DEF PublishRun, RunRow
  <2>. QED BY <2>1, <2>2, <2>3, <2>4
<1>3. Good([run EXCEPT ![n] = row], births, ref, clone, sent) BY <1>2, OpenRowOK
<1>. QED BY <1>2, <1>3 DEF IInv

\* A Run ends, with what it sent reported or not, and the next may be opened.
LEMMA EndingPreserves ==
    ASSUME IInv, NEW n \in Runs, CompleteRun(n) \/ LoseRun(n)
    PROVE  IInv'
<1>1. run \in [Runs -> RunRow] /\ run[n] \in RunRow /\ sent[n] \in Refs BY DEF IInv, Good, Typed
<1>2. PICK row \in RunRow, intent \in {"retry-after-completion", "retry-after-lease-loss"} :
        /\ Reopened([run EXCEPT ![n] = row], intent)
        /\ run[n].status \in Claimed
        /\ row.head = run[n].head /\ row.base = run[n].base /\ row.started = run[n].started
        /\ row.pushed = run[n].pushed \/ (sent[n] # 0 /\ row.pushed = sent[n])
        /\ row.status = "ENDED"
        /\ UNCHANGED <<ref, clone, sent>>
  <2>1. CASE CompleteRun(n)
    <3>. DEFINE row == [run[n] EXCEPT !.status = "ENDED",
                                      !.pushed = IF sent[n] # 0 THEN sent[n] ELSE @]
    <3>1. [run EXCEPT ![n].status = "ENDED", ![n].pushed = IF sent[n] # 0 THEN sent[n] ELSE @]
             = [run EXCEPT ![n] = row]
      BY <1>1
    <3>2. row \in RunRow /\ row.head = run[n].head /\ row.base = run[n].base
            /\ row.started = run[n].started /\ row.status = "ENDED"
            /\ row.pushed = IF sent[n] # 0 THEN sent[n] ELSE run[n].pushed
      BY <1>1, Sets DEF RunRow
    <3>. HIDE DEF row
    <3>. QED BY <2>1, <3>1, <3>2, Sets DEF CompleteRun
  <2>2. CASE LoseRun(n)
    <3>. DEFINE row == [run[n] EXCEPT !.status = "ENDED"]
    <3>1. row \in RunRow /\ row.head = run[n].head /\ row.base = run[n].base
            /\ row.started = run[n].started /\ row.status = "ENDED" /\ row.pushed = run[n].pushed
      BY <1>1, Sets DEF RunRow
    <3>2. [run EXCEPT ![n].status = "ENDED"] = [run EXCEPT ![n] = row] BY <1>1
    <3>. HIDE DEF row
    <3>. QED BY <2>2, <3>1, <3>2 DEF LoseRun
  <2>. QED BY <2>1, <2>2
<1>. DEFINE r == [run EXCEPT ![n] = row]
<1>3. Good(r, births, ref, clone, sent) /\ n = births BY <1>2, OpenRowOK
<1>4. r[births].status = "ENDED" BY <1>1, <1>2, <1>3
<1>. HIDE DEF r
<1>. QED BY <1>2, <1>3, <1>4, ReopenedOK DEF r

\* The checkout of a Run contains the publication its predecessor saved.
LEMMA ProvisionPreserves == ASSUME IInv, NEW n \in Runs, ProvisionWorkspace(n) PROVE IInv'
<1>1. /\ run \in [Runs -> RunRow] /\ run[n] \in RunRow
      /\ ref \in [Refs -> SUBSET Runs] /\ clone \in [Runs -> SUBSET Runs]
  BY DEF IInv, Good, Typed
<1>2. /\ run'[n].status = "PROVISIONED" /\ run[n].status = "CLAIMED"
      /\ run'[n].started = run[n].started /\ run'[n].head = run[n].head
      /\ run'[n].base = run[n].base /\ run'[n].pushed = run[n].pushed
      /\ \A m \in Runs : m # n => run'[m] = run[m]
      /\ run' \in [Runs -> RunRow]
      /\ UNCHANGED <<births, ref, sent>>
  BY <1>1, Sets DEF ProvisionWorkspace, RunRow
<1>3. Provisioned(n) \in SUBSET Runs BY <1>1, Sets DEF Provisioned, RunRow
<1>4. clone' \in [Runs -> SUBSET Runs] /\ clone'[n] = Provisioned(n)
        /\ \A m \in Runs : m # n => clone'[m] = clone[m]
  BY <1>1, <1>3 DEF ProvisionWorkspace
<1>5. ~run[n].started BY <1>2 DEF IInv, Good, PushedIsStarted
<1>6. n = births /\ n \in Nat \ {0} BY <1>2, Sets, RunsAssumption DEF IInv, Good, Typed, Ordered
<1>7. ref[n] = {}
  <2>1. \A m \in Runs : run[m].started => m < n
    BY <1>5, <1>6, Sets DEF IInv, Good, Ordered, PushedIsStarted
  <2>. QED BY <2>1, Sets DEF IInv, Good, HeadsBehind
<1>8. Saved(run, n) => ref[n - 1] \subseteq Provisioned(n)
  <2>. SUFFICES ASSUME Saved(run, n) PROVE ref[n - 1] \subseteq Provisioned(n) OBVIOUS
  <2>. DEFINE p == n - 1
  <2>1. p \in Runs /\ p # n /\ p # 0 BY <1>6, RunsAssumption DEF Saved, Runs
  <2>2. run[p].pushed = p /\ run[p].head = p BY DEF Saved
  <2>3. ref[p] # {} BY <2>1, <2>2 DEF IInv, Good, OnRemote
  <2>4. run[n].head = p \/ (run[n].head = n /\ run[n].base = p)
    BY <1>2 DEF IInv, Good, BuildsOnSaved
  <2>5. CASE run[n].head = p BY <2>3, <2>5 DEF Provisioned
  <2>6. CASE run[n].head = n /\ run[n].base = p BY <1>7, <2>6 DEF Provisioned
  <2>. QED BY <2>4, <2>5, <2>6
<1>9. Saved(run', n) => Saved(run, n)
  <2>1. n > 1 => n - 1 \in Runs /\ n - 1 # n BY <1>6, RunsAssumption DEF Runs
  <2>. QED BY <1>2, <2>1 DEF Saved
<1>10. BuildsOnSaved(run', ref', clone')
  <2>1. ASSUME NEW m \in Runs, Saved(run', m), m # n
        PROVE  run'[m].status \notin {"QUEUED", "CLAIMED", "PROVISIONED"}
    BY <1>2, <1>6, <2>1, Sets DEF IInv, Good, Ordered
  <2>. QED BY <1>2, <1>4, <1>8, <1>9, <2>1 DEF BuildsOnSaved
<1>11. Typed(run', births', ref', clone', sent') BY <1>2, <1>4 DEF IInv, Good, Typed
<1>12. Ordered(run', births') BY <1>2, <1>6, Sets DEF IInv, Good, Ordered
<1>13. PushedIsStarted(run', sent') BY <1>2, <1>5 DEF IInv, Good, PushedIsStarted
<1>14. OnRemote(run', ref', sent') BY <1>2 DEF IInv, Good, OnRemote
<1>15. HeadsBehind(run', ref') BY <1>2 DEF IInv, Good, HeadsBehind
<1>16. HeadsFollow(run') BY <1>2, HeadsKept DEF IInv, Good
<1>. QED BY <1>10, <1>11, <1>12, <1>13, <1>14, <1>15, <1>16 DEF IInv, Good

\* A push only adds a ref's first content or extends it, and no Run that is not
\* started sees its predecessor's saved head move.
LEMMA PushPreserves == ASSUME IInv, NEW n \in Runs, NEW k \in Runs, Push(n, k) PROVE IInv'
<1>1. /\ run \in [Runs -> RunRow] /\ run[n] \in RunRow /\ sent \in [Runs -> Refs]
      /\ ref \in [Refs -> SUBSET Runs] /\ clone \in [Runs -> SUBSET Runs]
  BY DEF IInv, Good, Typed
<1>2. k \in Refs /\ k # 0 /\ n \in Nat /\ k \in Nat BY Sets
<1>3. clone[n] \union {n} \in SUBSET Runs BY <1>1
<1>4. /\ ref' \in [Refs -> SUBSET Runs] /\ ref'[k] # {}
      /\ \A j \in Refs : j # k => ref'[j] = ref[j]
      /\ sent' \in [Runs -> Refs] /\ sent'[n] = k /\ \A m \in Runs : m # n => sent'[m] = sent[m]
      /\ UNCHANGED <<run, births, clone>>
  BY <1>1, <1>2, <1>3 DEF Push
<1>5. run[n].started /\ k <= n
  BY <1>1, <1>2 DEF Push, IInv, Good, HeadsBehind
<1>6. \A j \in Refs : ref[j] # {} => ref'[j] # {} BY <1>4
<1>7. Typed(run', births', ref', clone', sent') BY <1>4 DEF IInv, Good, Typed
<1>8. PushedIsStarted(run', sent') BY <1>2, <1>4, <1>5 DEF IInv, Good, PushedIsStarted
<1>9. OnRemote(run', ref', sent')
  <2>1. \A m \in Runs : sent[m] \in Refs /\ run[m].pushed \in Refs /\ run[m].base \in Refs
    BY <1>1 DEF RunRow
  <2>. QED BY <1>2, <1>4, <1>6, <2>1 DEF IInv, Good, OnRemote
<1>10. HeadsBehind(run', ref') BY <1>4, <1>5, Sets DEF IInv, Good, HeadsBehind
<1>11. BuildsOnSaved(run', ref', clone')
  <2>1. ASSUME NEW m \in Runs, Saved(run, m), run[m].status = "PROVISIONED" PROVE k # m - 1
    <3>. DEFINE p == m - 1
    <3>1. p \in Runs /\ m \in Nat /\ p < m BY <2>1, RunsAssumption DEF Saved, Runs
    <3>2. run[p].pushed = p /\ p # 0 /\ run[p].head = p BY <2>1, <3>1, Sets DEF Saved
    <3>3. sent[p] # 0 BY <3>1, <3>2 DEF IInv, Good, PushedIsStarted
    <3>4. n # m /\ ~(n > m)
      BY <1>1, <1>5, <2>1, <3>1, Sets DEF IInv, Good, PushedIsStarted, Ordered, Typed
    <3>5. CASE n = p BY <3>2, <3>3, <3>5 DEF Push
    <3>6. CASE n # p BY <1>2, <1>5, <3>1, <3>4, <3>6
    <3>. QED BY <3>5, <3>6
  <2>2. \A m \in Runs : m > 1 => m - 1 \in Refs BY RunsAssumption DEF Runs, Refs
  <2>3. \A m \in Runs : Saved(run, m) => m > 1 BY DEF Saved
  <2>. QED BY <1>4, <2>1, <2>2, <2>3 DEF IInv, Good, BuildsOnSaved
<1>. QED BY <1>4, <1>7, <1>8, <1>9, <1>10, <1>11 DEF IInv, Good

\* Late salvage repairs the replacement: its base, or its claim.
LEMMA SalvagePreserves == ASSUME IInv, NEW n \in Runs, Salvage(n) PROVE IInv'
<1>. DEFINE r == [run EXCEPT ![n].pushed = n]
<1>1. /\ run \in [Runs -> RunRow] /\ run[n] \in RunRow /\ births \in 0..MaxRuns
      /\ n \in Nat \ {0} /\ n \in Refs /\ run[n].status = "ENDED" /\ sent[n] = n
  BY Sets DEF IInv, Good, Typed, Salvage
<1>2. /\ r \in [Runs -> RunRow] /\ r[n].pushed = n /\ r[n].status = "ENDED"
      /\ r[n].head = run[n].head /\ r[n].base = run[n].base /\ r[n].started = run[n].started
      /\ \A m \in Runs : m # n => r[m] = run[m]
  BY <1>1, Sets DEF RunRow
<1>. HIDE DEF r
<1>3. n <= births BY <1>1, Sets DEF IInv, Good, Ordered
\* All of it but what the next Run builds on.
<1>4. /\ Typed(r, births, ref, clone, sent) /\ Ordered(r, births) /\ PushedIsStarted(r, sent)
      /\ OnRemote(r, ref, sent) /\ HeadsBehind(r, ref) /\ HeadsFollow(r)
  <2>1. Typed(r, births, ref, clone, sent) BY <1>2 DEF IInv, Good, Typed
  <2>2. Ordered(r, births) BY <1>1, <1>2, <1>3, Sets DEF IInv, Good, Ordered
  <2>3. PushedIsStarted(r, sent) BY <1>1, <1>2 DEF IInv, Good, PushedIsStarted
  <2>4. OnRemote(r, ref, sent) BY <1>1, <1>2 DEF IInv, Good, OnRemote
  <2>5. HeadsBehind(r, ref) BY <1>2 DEF IInv, Good, HeadsBehind
  <2>6. HeadsFollow(r) BY <1>1, <1>2, HeadsKept DEF IInv, Good
  <2>. QED BY <2>1, <2>2, <2>3, <2>4, <2>5, <2>6
<1>5. \A m \in Runs : m # n + 1 /\ Saved(r, m) => Saved(run, m)
  <2>1. \A m \in Runs : m > 1 /\ m # n + 1 => m - 1 \in Runs /\ m - 1 # n
    BY <1>1, RunsAssumption DEF Runs
  <2>. QED BY <1>2, <2>1 DEF Saved
<1>6. CASE n < births /\ run[n + 1].status = "QUEUED"
            /\ run' = [r EXCEPT ![n + 1].base = InheritedPublication(r, n)] /\ UNCHANGED births
  <2>. DEFINE q == InheritedPublication(r, n)
              row == [r[n + 1] EXCEPT !.base = q]
  <2>1. n + 1 \in Runs /\ n + 1 # n /\ r[n + 1] \in RunRow
    BY <1>1, <1>2, <1>6, RunsAssumption DEF Runs
  <2>2. q \in Refs /\ (q # 0 => \E m \in Runs : r[m].pushed = q) BY <1>2, InheritedIs
  <2>3. Saved(r, n + 1) => q = n
    <3>1. n + 1 - 1 = n BY <1>1
    <3>. QED BY <1>1, <1>2, <3>1 DEF Saved, InheritedPublication
  <2>. HIDE DEF q
  <2>4. /\ run' \in [Runs -> RunRow] /\ run'[n + 1].base = q
        /\ run'[n + 1].status = "QUEUED" /\ run'[n + 1].head = r[n + 1].head
        /\ run'[n + 1].pushed = r[n + 1].pushed /\ run'[n + 1].started = r[n + 1].started
        /\ \A m \in Runs : m # n + 1 => run'[m] = r[m]
        /\ UNCHANGED <<births, ref, clone, sent>>
    BY <1>2, <1>6, <2>1, <2>2, Sets DEF RunRow, Salvage, q
  <2>5. r[n + 1].status = "QUEUED" BY <1>2, <1>6, <2>1
  <2>6. Typed(run', births', ref', clone', sent') BY <1>4, <2>4 DEF Typed
  <2>7. Ordered(run', births') BY <1>4, <2>4, <2>5 DEF Ordered
  <2>8. PushedIsStarted(run', sent') BY <1>4, <2>4, <2>5 DEF PushedIsStarted
  <2>9. OnRemote(run', ref', sent') BY <1>4, <2>1, <2>2, <2>4 DEF OnRemote
  <2>10. HeadsBehind(run', ref') BY <1>4, <2>4 DEF HeadsBehind
  <2>11. BuildsOnSaved(run', ref', clone')
    <3>1. \A m \in Runs : Saved(run', m) => Saved(r, m)
      <4>1. \A m \in Runs : m > 1 => m - 1 \in Runs BY RunsAssumption DEF Runs
      <4>. QED BY <2>4, <4>1 DEF Saved
    <3>2. r[n + 1].head \in {n, n + 1} \/ ~Saved(r, n + 1)
      <4>. SUFFICES ASSUME Saved(r, n + 1) PROVE r[n + 1].head \in {n, n + 1} OBVIOUS
      <4>1. n + 1 - 1 = n /\ n + 1 > 1 BY <1>1
      <4>2. r[n].head = n BY <1>1, <4>1 DEF Saved
      <4>3. r[n + 1].head \in {n + 1, r[n].head} BY <1>1, <1>4, <2>1, <2>5, <4>1 DEF HeadsFollow
      <4>. QED BY <4>2, <4>3
    <3>. QED BY <1>1, <1>2, <1>5, <2>3, <2>4, <3>1, <3>2 DEF IInv, Good, BuildsOnSaved
  <2>12. HeadsFollow(run') BY <1>4, <2>4, <2>5, HeadsKept
  <2>. QED BY <2>6, <2>7, <2>8, <2>9, <2>10, <2>11, <2>12 DEF IInv, Good
\* The replacement started already, or there is none, or it ends.
<1>7. ASSUME NEW s \in [Runs -> RunRow],
             \A m \in Runs : m # n + 1 => s[m] = r[m],
             n + 1 \in Runs => /\ s[n + 1].status \in {"NONE", "RUNNING", "ENDED"}
                               /\ s[n + 1].status = r[n + 1].status
                                  \/ /\ n < births /\ s[n + 1].status = "ENDED"
                                     /\ r[n + 1].status # "NONE"
                               /\ s[n + 1].started = r[n + 1].started
                               /\ s[n + 1].head = r[n + 1].head
                               /\ s[n + 1].base = r[n + 1].base
                               /\ s[n + 1].pushed = r[n + 1].pushed
      PROVE  Good(s, births, ref, clone, sent)
  <2>2. \A m \in Runs : /\ s[m].started = r[m].started /\ s[m].head = r[m].head
                         /\ s[m].base = r[m].base /\ s[m].pushed = r[m].pushed
    BY <1>7
  <2>3. \A m \in Runs : \/ s[m].status = r[m].status
                         \/ /\ m = n + 1 /\ n < births
                            /\ s[m].status = "ENDED" /\ r[m].status # "NONE"
    BY <1>7
  <2>4. Typed(s, births, ref, clone, sent) BY <1>4, <1>7 DEF Typed
  <2>5. Ordered(s, births) BY <1>1, <1>4, <2>3, Sets DEF Ordered
  <2>6. PushedIsStarted(s, sent) BY <1>1, <1>4, <2>2, <2>3 DEF PushedIsStarted
  <2>7. OnRemote(s, ref, sent) BY <1>1, <1>4, <2>2 DEF OnRemote
  <2>8. HeadsBehind(s, ref) BY <1>1, <1>4, <2>2 DEF HeadsBehind
  <2>9. HeadsFollow(s)
    <3>1. \A m \in Runs : s[m].status # "NONE" => r[m].status # "NONE"
      BY <1>1, <2>3
    <3>2. \A m \in Runs : s[m].head = r[m].head BY <1>1, <2>2
    <3>. QED BY <1>4, <3>1, <3>2, HeadsKept
  <2>10. BuildsOnSaved(s, ref, clone)
    <3>1. \A m \in Runs : m > 1 => m - 1 \in Runs BY RunsAssumption DEF Runs
    <3>2. \A m \in Runs : Saved(s, m) => Saved(r, m) BY <1>1, <2>2, <3>1 DEF Saved
    <3>3. ASSUME NEW m \in Runs, Saved(s, m), m # n + 1
          PROVE  Saved(run, m) /\ s[m].head = run[m].head /\ s[m].base = run[m].base
                   /\ s[m].status = run[m].status
      BY <1>1, <1>2, <1>5, <2>2, <2>3, <3>2, <3>3
    <3>. QED BY <1>7, <3>3 DEF IInv, Good, BuildsOnSaved
  <2>. QED BY <2>4, <2>5, <2>6, <2>7, <2>8, <2>9, <2>10 DEF Good
<1>8. CASE n < births /\ run[n + 1].status \in {"CLAIMED", "PROVISIONED"}
             /\ Reopened([r EXCEPT ![n + 1].status = "ENDED"], "enqueue")
  <2>. DEFINE s == [r EXCEPT ![n + 1].status = "ENDED"]
  <2>1. n + 1 \in Runs /\ n + 1 # n /\ r[n + 1] \in RunRow
    BY <1>1, <1>2, <1>8, RunsAssumption DEF Runs
  <2>2. /\ s \in [Runs -> RunRow] /\ \A m \in Runs : m # n + 1 => s[m] = r[m]
        /\ s[n + 1].status = "ENDED" /\ s[n + 1].started = r[n + 1].started
        /\ s[n + 1].head = r[n + 1].head /\ s[n + 1].base = r[n + 1].base
        /\ s[n + 1].pushed = r[n + 1].pushed /\ r[n + 1].status # "NONE"
    BY <1>2, <1>8, <2>1, Sets DEF RunRow
  <2>3. Good(s, births, ref, clone, sent)
    <3>. HIDE DEF s
    <3>. QED BY <1>7, <1>8, <2>2
  <2>4. births = n + 1
    BY <1>1, <1>2, <1>4, <1>8, <2>1, Sets DEF Ordered
  <2>5. s[births].status = "ENDED" BY <2>2, <2>4
  <2>. HIDE DEF s
  <2>6. Reopened(s, "enqueue") /\ UNCHANGED <<ref, clone, sent>> BY <1>8 DEF s, Salvage
  <2>. QED BY <2>3, <2>5, <2>6, ReopenedOK
<1>9. CASE (n < births => run[n + 1].status \in {"RUNNING", "ENDED"}) /\ run' = r /\ UNCHANGED births
  <2>1. n + 1 \in Runs => r[n + 1].status \in {"NONE", "RUNNING", "ENDED"}
    BY <1>1, <1>2, <1>4, <1>9, Sets DEF Ordered
  <2>2. Good(r, births, ref, clone, sent) BY <1>2, <1>7, <2>1
  <2>3. UNCHANGED <<ref, clone, sent>> BY DEF Salvage
  <2>. QED BY <1>9, <2>2, <2>3 DEF IInv
<1>. QED BY <1>6, <1>8, <1>9 DEF Salvage, r

LEMMA NextPreserves == IInv /\ [Next]_vars => IInv'
<1>. SUFFICES ASSUME IInv, [Next]_vars PROVE IInv' OBVIOUS
<1>1. CASE OpenRun BY <1>1, OpenRunPreserves
<1>2. ASSUME NEW n \in Runs,
             \/ ClaimRun(n) \/ ProvisionWorkspace(n) \/ StartRun(n) \/ CompleteRun(n)
             \/ LoseRun(n) \/ CancelRun(n) \/ PublishRun(n) \/ Salvage(n)
             \/ \E k \in Runs : Push(n, k)
      PROVE  IInv'
  BY <1>2, SimpleMovesPreserve, ProvisionPreserves, EndingPreserves, SalvagePreserves, PushPreserves
<1>3. CASE UNCHANGED vars BY <1>3 DEF vars, IInv
<1>. QED BY <1>1, <1>2, <1>3 DEF Next

\* However Runs are born, pushed, lost and salvaged, the invariant holds.
THEOREM PublicationInvariant == Spec => []IInv
BY InitInv, NextPreserves, PTL DEF Spec

\* Every variable keeps its type.
THEOREM PublicationTypes == Spec => []TypeOK
<1>1. IInv => TypeOK BY DEF IInv, Good, Typed, TypeOK
<1>. QED BY <1>1, PublicationInvariant, PTL

\* However Runs are lost, retried and salvaged, a Run about to be provisioned
\* names a base the remote has.
THEOREM EveryBaseExists == Spec => []BaseExists
<1>1. IInv => BaseExists BY DEF IInv, Good, OnRemote, BaseExists
<1>. QED BY <1>1, PublicationInvariant, PTL

\* Salvage recorded under a lost Run's own head before its replacement starts is
\* in the replacement's checkout, for any number of Runs.
THEOREM SavedWorkIsKept == Spec => SalvageReachesNextRun
<1>. DEFINE Kept == \A n \in Runs : /\ n > 1
                                    /\ run[n].status = "PROVISIONED" /\ run'[n].status = "RUNNING"
                                    /\ run[n - 1].pushed = n - 1 /\ run[n - 1].head = n - 1
                                    => ref[n - 1] \subseteq clone[n]
<1>1. IInv => Kept BY DEF IInv, Good, BuildsOnSaved, Saved
<1>. QED BY <1>1, PublicationInvariant, PTL DEF Spec, SalvageReachesNextRun

=============================================================================
