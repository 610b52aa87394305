---------------------------- MODULE DeployProofs ----------------------------
(***************************************************************************)
(* Proofs about a deploy, for every fleet, every set of hosts, processes   *)
(* and services and every timing.  Of the quiet window: the barrier shuts  *)
(* dispatch, a schema left half-applied stays fenced, a drain row has an   *)
(* owner and does not lapse under a wait.  Of the attempts on the control  *)
(* plane: two never overlap, no service is ahead of the database, a host   *)
(* left divided is fenced and no latch is passed.                          *)
(***************************************************************************)
EXTENDS QuietWindow, DeployAttempt, TLAPS

USE DEF Runs, fleet, waitVars, drainVars, holdVars

-----------------------------------------------------------------------------
(* Type correctness.                                                       *)

LEMMA InitType == ASSUME HostsAssumption, RunsAssumption, TimeAssumption PROVE Init => TypeOK
BY DEF Init, TypeOK, Stages, HostsAssumption, TimeAssumption

(* What one poll that keeps waiting, or an alert, does to the types.       *)
LEMMA AlertType ==
  ASSUME TimeAssumption, TypeOK, NEW h \in Hosts, Alert(h)
  PROVE  /\ since' \in [Hosts -> 0..AlertEvery] /\ left' \in [Hosts -> 0..Deadline]
         /\ alert' \in [Hosts -> {"idle", "extending", "notifying"}]
         /\ drain' \in [Hosts -> {"none", "inserting", "open", "failed"}]
         /\ orphan' = orphan
BY DEF Alert, TypeOK, TimeAssumption

LEMMA KeepWaitingType ==
  ASSUME TimeAssumption, TypeOK, NEW h \in Hosts, KeepWaiting(h)
  PROVE  /\ since' \in [Hosts -> 0..AlertEvery] /\ left' \in [Hosts -> 0..Deadline]
         /\ alert' \in [Hosts -> {"idle", "extending", "notifying"}]
         /\ drain' \in [Hosts -> {"none", "inserting", "open", "failed"}]
         /\ orphan' = orphan
         /\ stage' \in [Hosts -> Stages] /\ mayWait' = mayWait /\ elapsed' = elapsed
         /\ polled' \in [Hosts -> BOOLEAN]
<1>1. CASE mayWait[h]
  <2>1. Alert(h)
    BY <1>1 DEF KeepWaiting
  <2>2. since' \in [Hosts -> 0..AlertEvery] /\ left' \in [Hosts -> 0..Deadline]
        /\ alert' \in [Hosts -> {"idle", "extending", "notifying"}]
        /\ drain' \in [Hosts -> {"none", "inserting", "open", "failed"}]
        /\ orphan' = orphan
    BY <2>1, AlertType
  <2>3. stage' \in [Hosts -> Stages] /\ mayWait' = mayWait /\ elapsed' = elapsed
        /\ polled' \in [Hosts -> BOOLEAN]
    BY <1>1 DEF KeepWaiting, TypeOK, Stages, Waiting
  <2>. QED
    BY <2>2, <2>3
<1>2. CASE ~mayWait[h]
  BY <1>2 DEF KeepWaiting, TypeOK, Stages, Waiting
<1>. QED
  BY <1>1, <1>2

LEMMA StepType == ASSUME HostsAssumption, TimeAssumption PROVE TypeOK /\ [Next]_vars => TypeOK'
<1>. SUFFICES ASSUME TypeOK, [Next]_vars PROVE TypeOK'
  OBVIOUS
<1>1. ASSUME NEW r \in Runs, Queue(r) PROVE TypeOK'
  BY <1>1 DEF Queue, TypeOK, Stages, Waiting, HostsAssumption, TimeAssumption
<1>2. ASSUME NEW r \in Runs, BeginClaim(r) PROVE TypeOK'
  BY <1>2 DEF BeginClaim, TypeOK, Stages, Waiting, HostsAssumption, TimeAssumption, BarrierAllowsClaim, DrainActive
<1>3. ASSUME NEW r \in Runs, EndClaim(r) PROVE TypeOK'
  BY <1>3 DEF EndClaim, TypeOK, Stages, Waiting, HostsAssumption, TimeAssumption
<1>4. ASSUME NEW r \in Runs, EndRun(r) PROVE TypeOK'
  BY <1>4 DEF EndRun, TypeOK, Stages, Waiting, HostsAssumption, TimeAssumption
<1>5. ASSUME NEW h \in Hosts, Start(h) PROVE TypeOK'
  BY <1>5 DEF Start, TypeOK, Stages, Waiting, HostsAssumption, TimeAssumption, Blocking
<1>6. ASSUME NEW h \in Hosts, ReachFloor(h) PROVE TypeOK'
  BY <1>6 DEF ReachFloor, TypeOK, Stages, Waiting, HostsAssumption, TimeAssumption
<1>7. ASSUME NEW h \in Hosts, SeeBlockers(h) PROVE TypeOK'
  BY <1>7, KeepWaitingType DEF SeeBlockers, TypeOK
<1>8. ASSUME NEW h \in Hosts, SeeQuiet(h) PROVE TypeOK'
  BY <1>8 DEF SeeQuiet, TypeOK, Stages, Waiting, HostsAssumption, TimeAssumption
<1>9. ASSUME NEW h \in Hosts, Contended(h) PROVE TypeOK'
  BY <1>9, KeepWaitingType DEF Contended, TypeOK
<1>10. ASSUME NEW h \in Hosts, Acquire(h) PROVE TypeOK'
  BY <1>10 DEF Acquire, TypeOK, Stages, Waiting, HostsAssumption, TimeAssumption
<1>11. ASSUME NEW h \in Hosts, Recheck(h) PROVE TypeOK'
  <2>1. CASE Blocking(h) = {} /\ mayWait[h]
    BY <1>11, <2>1, AlertType DEF Recheck, TypeOK, Stages
  <2>2. CASE Blocking(h) = {} /\ ~mayWait[h]
    BY <1>11, <2>2 DEF Recheck, TypeOK, Stages
  <2>3. CASE Blocking(h) # {}
    BY <1>11, <2>3, KeepWaitingType DEF Recheck, FreeBarrier, TypeOK
  <2>. QED
    BY <2>1, <2>2, <2>3
<1>12. ASSUME NEW h \in Hosts, InsertSettles(h) PROVE TypeOK'
  BY <1>12 DEF InsertSettles, TypeOK, Stages, Waiting, HostsAssumption, TimeAssumption, WriteFailed
<1>13. ASSUME NEW h \in Hosts, RenewSettles(h) PROVE TypeOK'
  <2>1. left' \in [Hosts -> 0..Deadline]
    BY <1>13 DEF RenewSettles, TypeOK, TimeAssumption
  <2>2. interrupted' \in [Hosts -> BOOLEAN]
    BY <1>13 DEF RenewSettles, WriteFailed, TypeOK
  <2>3. alert' \in [Hosts -> {"idle", "extending", "notifying"}]
    BY <1>13 DEF RenewSettles, TypeOK
  <2>. QED
    BY <1>13, <2>1, <2>2, <2>3 DEF RenewSettles, TypeOK
<1>14. ASSUME NEW h \in Hosts, NoticeSettles(h) PROVE TypeOK'
  BY <1>14 DEF NoticeSettles, TypeOK, Stages, Waiting, HostsAssumption, TimeAssumption
<1>15. ASSUME NEW h \in Hosts, AssertQuiet(h) PROVE TypeOK'
  BY <1>15 DEF AssertQuiet, TypeOK, Stages, Waiting, HostsAssumption, TimeAssumption
<1>16. ASSUME NEW h \in Hosts, Activate(h) PROVE TypeOK'
  BY <1>16 DEF Activate, TypeOK, Stages, Waiting, HostsAssumption, TimeAssumption
<1>17. ASSUME NEW h \in Hosts, Escalate(h) PROVE TypeOK'
  BY <1>17 DEF Escalate, TypeOK, Stages, Waiting, HostsAssumption, TimeAssumption
<1>18. ASSUME NEW h \in Hosts, ReleaseBarrier(h) PROVE TypeOK'
  BY <1>18 DEF ReleaseBarrier, TypeOK, Stages, Waiting, HostsAssumption, TimeAssumption, FreeBarrier
<1>19. ASSUME NEW h \in Hosts, SeeMarker(h) PROVE TypeOK'
  BY <1>19 DEF SeeMarker, TypeOK, Stages, Waiting, HostsAssumption, TimeAssumption
<1>20. ASSUME NEW h \in Hosts, EndHold(h) PROVE TypeOK'
  BY <1>20 DEF EndHold, TypeOK, Stages, Waiting, HostsAssumption, TimeAssumption, FreeBarrier
<1>21. ASSUME NEW h \in Hosts, LoseHold(h) PROVE TypeOK'
  BY <1>21 DEF LoseHold, TypeOK, Stages, Waiting, HostsAssumption, TimeAssumption
<1>22. ASSUME NEW h \in Hosts, CloseDrain(h) PROVE TypeOK'
  BY <1>22 DEF CloseDrain, TypeOK, Stages, Waiting, HostsAssumption, TimeAssumption, ForgetWait, larger
<1>23. ASSUME NEW h \in Hosts, MigrationTerminated(h) PROVE TypeOK'
  BY <1>23 DEF MigrationTerminated, TypeOK, Stages, Waiting, HostsAssumption, TimeAssumption
<1>24. ASSUME NEW h \in Hosts, Fail(h) PROVE TypeOK'
  BY <1>24 DEF Fail, TypeOK, Stages, Waiting, HostsAssumption, TimeAssumption, FreeBarrier
<1>25. ASSUME NEW h \in Hosts, Interrupt(h) PROVE TypeOK'
  BY <1>25 DEF Interrupt, TypeOK, Stages, Waiting, HostsAssumption, TimeAssumption
<1>26. ASSUME NEW h \in Hosts, SessionLost(h) PROVE TypeOK'
  BY <1>26 DEF SessionLost, TypeOK, Stages, Waiting, HostsAssumption, TimeAssumption
<1>27. ASSUME NEW h \in Hosts, Crash(h) PROVE TypeOK'
  BY <1>27 DEF Crash, TypeOK, Stages, Waiting, HostsAssumption, TimeAssumption, FreeBarrier, ForgetWait, larger
<1>28. ASSUME NEW h \in Hosts, RecoverLock(h) PROVE TypeOK'
  BY <1>28 DEF RecoverLock, TypeOK, Stages, Waiting, HostsAssumption, TimeAssumption
<1>29. ASSUME NEW h \in Hosts, ClearEscalation(h) PROVE TypeOK'
  BY <1>29 DEF ClearEscalation, TypeOK, Stages, Waiting, HostsAssumption, TimeAssumption
<1>30. CASE Tick
  BY <1>30 DEF Tick, TypeOK, TimeAssumption, down
<1>31. CASE UNCHANGED vars
  BY <1>31 DEF vars, TypeOK
<1>. QED
  BY <1>1, <1>2, <1>3, <1>4, <1>5, <1>6, <1>7, <1>8, <1>9, <1>10, <1>11, <1>12, <1>13, <1>14, <1>15, <1>16, <1>17, <1>18, <1>19, <1>20, <1>21, <1>22, <1>23, <1>24, <1>25, <1>26, <1>27, <1>28, <1>29, <1>30, <1>31 DEF Next, RunStep, HostStep, WaitStep, NoticeStep, HeldStep, FaultStep

(* Every variable keeps its type, whatever the constants.                  *)
THEOREM TypeCorrect ==
  ASSUME HostsAssumption, RunsAssumption, TimeAssumption PROVE Spec => []TypeOK
BY InitType, StepType, PTL DEF Spec

-----------------------------------------------------------------------------
(* The barrier.                                                            *)

Held == {"checking", "held", "restarting", "failing", "releasing", "retaining"}

(* While someone holds the barrier no claim is open; a holder is past its  *)
(* wait loop; and past its second look nothing it waits for is live.       *)
Shut ==
  /\ barrier # Nobody => \A r \in Runs : run[r] # "claiming"
  /\ \A h \in Hosts : barrier = h => stage[h] \in Held
  /\ \A h \in Hosts : (barrier = h /\ stage[h] \notin Waiting) => Blocking(h) = {}

LEMMA InitShut == ASSUME HostsAssumption PROVE Init => Shut
BY DEF Init, Shut, Blocking, HostsAssumption

LEMMA KeepWaitingStage ==
  ASSUME TypeOK, NEW h \in Hosts, KeepWaiting(h)
  PROVE  /\ stage'[h] \in {"waiting", "releasing"}
         /\ \A g \in Hosts \ {h} : stage'[g] = stage[g]
BY DEF KeepWaiting, TypeOK

LEMMA StepShut == ASSUME HostsAssumption PROVE TypeOK /\ Shut /\ [Next]_vars => Shut'
<1>. SUFFICES ASSUME TypeOK, Shut, [Next]_vars PROVE Shut'
  OBVIOUS
<1>1. ASSUME NEW r \in Runs, Queue(r) PROVE Shut'
  BY <1>1 DEF Queue, Shut, Blocking, TypeOK, Held, Waiting, HostsAssumption
<1>2. ASSUME NEW r \in Runs, BeginClaim(r) PROVE Shut'
  BY <1>2 DEF BeginClaim, Shut, Blocking, TypeOK, Held, Waiting, HostsAssumption, BarrierAllowsClaim
<1>3. ASSUME NEW r \in Runs, EndClaim(r) PROVE Shut'
  BY <1>3 DEF EndClaim, Shut, Blocking, TypeOK, Held, Waiting, HostsAssumption
<1>4. ASSUME NEW r \in Runs, EndRun(r) PROVE Shut'
  BY <1>4 DEF EndRun, Shut, Blocking, TypeOK, Held, Waiting, HostsAssumption
<1>5. ASSUME NEW h \in Hosts, Start(h) PROVE Shut'
  BY <1>5 DEF Start, Shut, Blocking, TypeOK, Held, Waiting, HostsAssumption
<1>6. ASSUME NEW h \in Hosts, ReachFloor(h) PROVE Shut'
  BY <1>6 DEF ReachFloor, Shut, Blocking, TypeOK, Held, Waiting, HostsAssumption
<1>7. ASSUME NEW h \in Hosts, SeeBlockers(h) PROVE Shut'
  BY <1>7, KeepWaitingStage DEF SeeBlockers, BarrierFree, Shut, Blocking, TypeOK, Held, Waiting, HostsAssumption
<1>8. ASSUME NEW h \in Hosts, SeeQuiet(h) PROVE Shut'
  BY <1>8 DEF SeeQuiet, Shut, Blocking, TypeOK, Held, Waiting, HostsAssumption
<1>9. ASSUME NEW h \in Hosts, Contended(h) PROVE Shut'
  BY <1>9, KeepWaitingStage DEF Contended, BarrierFree, Shut, Blocking, TypeOK, Held, Waiting, HostsAssumption
<1>10. ASSUME NEW h \in Hosts, Acquire(h) PROVE Shut'
  BY <1>10 DEF Acquire, Shut, Blocking, TypeOK, Held, Waiting, HostsAssumption, BarrierFree
<1>11. ASSUME NEW h \in Hosts, Recheck(h) PROVE Shut'
  <2>1. CASE Blocking(h) = {}
    BY <1>11, <2>1 DEF Recheck, Shut, Blocking, TypeOK, Held, Waiting, HostsAssumption
  <2>2. CASE Blocking(h) # {}
    <3>1. FreeBarrier(h) /\ KeepWaiting(h) /\ run' = run
      BY <1>11, <2>2 DEF Recheck
    <3>2. barrier' # h /\ (barrier' = barrier \/ barrier' = Nobody)
      BY <3>1 DEF FreeBarrier, HostsAssumption
    <3>. QED
      BY <3>1, <3>2, KeepWaitingStage DEF Shut, Blocking, TypeOK, Held, Waiting, HostsAssumption
  <2>. QED
    BY <2>1, <2>2
<1>12. ASSUME NEW h \in Hosts, InsertSettles(h) PROVE Shut'
  BY <1>12 DEF InsertSettles, Shut, Blocking, TypeOK, Held, Waiting, HostsAssumption, WriteFailed
<1>13. ASSUME NEW h \in Hosts, RenewSettles(h) PROVE Shut'
  BY <1>13 DEF RenewSettles, Shut, Blocking, TypeOK, Held, Waiting, HostsAssumption
<1>14. ASSUME NEW h \in Hosts, NoticeSettles(h) PROVE Shut'
  BY <1>14 DEF NoticeSettles, Shut, Blocking, TypeOK, Held, Waiting, HostsAssumption
<1>15. ASSUME NEW h \in Hosts, AssertQuiet(h) PROVE Shut'
  BY <1>15 DEF AssertQuiet, Shut, Blocking, TypeOK, Held, Waiting, HostsAssumption
<1>16. ASSUME NEW h \in Hosts, Activate(h) PROVE Shut'
  BY <1>16 DEF Activate, Shut, Blocking, TypeOK, Held, Waiting, HostsAssumption
<1>17. ASSUME NEW h \in Hosts, Escalate(h) PROVE Shut'
  BY <1>17 DEF Escalate, Shut, Blocking, TypeOK, Held, Waiting, HostsAssumption
<1>18. ASSUME NEW h \in Hosts, ReleaseBarrier(h) PROVE Shut'
  BY <1>18 DEF ReleaseBarrier, Shut, Blocking, TypeOK, Held, Waiting, HostsAssumption, FreeBarrier
<1>19. ASSUME NEW h \in Hosts, SeeMarker(h) PROVE Shut'
  BY <1>19 DEF SeeMarker, Shut, Blocking, TypeOK, Held, Waiting, HostsAssumption
<1>20. ASSUME NEW h \in Hosts, EndHold(h) PROVE Shut'
  BY <1>20 DEF EndHold, Shut, Blocking, TypeOK, Held, Waiting, HostsAssumption, FreeBarrier
<1>21. ASSUME NEW h \in Hosts, LoseHold(h) PROVE Shut'
  BY <1>21 DEF LoseHold, Shut, Blocking, TypeOK, Held, Waiting, HostsAssumption
<1>22. ASSUME NEW h \in Hosts, CloseDrain(h) PROVE Shut'
  BY <1>22 DEF CloseDrain, Shut, Blocking, TypeOK, Held, Waiting, HostsAssumption, ForgetWait
<1>23. ASSUME NEW h \in Hosts, MigrationTerminated(h) PROVE Shut'
  BY <1>23 DEF MigrationTerminated, Shut, Blocking, TypeOK, Held, Waiting, HostsAssumption
<1>24. ASSUME NEW h \in Hosts, Fail(h) PROVE Shut'
  BY <1>24 DEF Fail, Shut, Blocking, TypeOK, Held, Waiting, HostsAssumption, FreeBarrier
<1>25. ASSUME NEW h \in Hosts, Interrupt(h) PROVE Shut'
  BY <1>25 DEF Interrupt, Shut, Blocking, TypeOK, Held, Waiting, HostsAssumption
<1>26. ASSUME NEW h \in Hosts, SessionLost(h) PROVE Shut'
  BY <1>26 DEF SessionLost, Shut, Blocking, TypeOK, Held, Waiting, HostsAssumption
<1>27. ASSUME NEW h \in Hosts, Crash(h) PROVE Shut'
  BY <1>27 DEF Crash, Shut, Blocking, TypeOK, Held, Waiting, HostsAssumption, FreeBarrier
<1>28. ASSUME NEW h \in Hosts, RecoverLock(h) PROVE Shut'
  BY <1>28 DEF RecoverLock, Shut, Blocking, TypeOK, Held, Waiting, HostsAssumption
<1>29. ASSUME NEW h \in Hosts, ClearEscalation(h) PROVE Shut'
  BY <1>29 DEF ClearEscalation, Shut, Blocking, TypeOK, Held, Waiting, HostsAssumption
<1>30. CASE Tick
  BY <1>30 DEF Tick, Shut, Blocking, TypeOK, Held, Waiting, HostsAssumption
<1>31. CASE UNCHANGED vars
  BY <1>31 DEF vars, Shut, Blocking, TypeOK, Held, Waiting, HostsAssumption
<1>. QED
  BY <1>1, <1>2, <1>3, <1>4, <1>5, <1>6, <1>7, <1>8, <1>9, <1>10, <1>11, <1>12, <1>13, <1>14, <1>15, <1>16, <1>17, <1>18, <1>19, <1>20, <1>21, <1>22, <1>23, <1>24, <1>25, <1>26, <1>27, <1>28, <1>29, <1>30, <1>31 DEF Next, RunStep, HostStep, WaitStep, NoticeStep, HeldStep, FaultStep

(* Under the barrier nothing is claimed, and nothing the deploy waits for  *)
(* is live once its second look has admitted it.                           *)
THEOREM BarrierHolds ==
  ASSUME HostsAssumption, RunsAssumption, TimeAssumption PROVE Spec => []BarrierShutsDispatch
<1>1. Shut => BarrierShutsDispatch
  BY DEF Shut, BarrierShutsDispatch, HostsAssumption
<1>. QED
  BY <1>1, InitType, StepType, InitShut, StepShut, PTL DEF Spec

-----------------------------------------------------------------------------
(* A half-applied schema.                                                  *)

(* An attempt whose migration was killed has left its window, holds on to  *)
(* the barrier until it sees a marker, and a marker it saw stays until the *)
(* operator vouches for the schema.                                        *)
HoldOK ==
  \A g \in Hosts : terminated[g] =>
    /\ stage[g] \notin Waiting \cup {"held", "restarting"}
    /\ stage[g] \in {"failing", "releasing", "retaining"} => retain[g] # "no"
    /\ retain[g] = "seen" => marker[g]

LEMMA InitHold == Init => HoldOK
BY DEF Init, HoldOK

LEMMA StepHold == TypeOK /\ HoldOK /\ [Next]_vars => HoldOK'
<1>. SUFFICES ASSUME TypeOK, HoldOK, [Next]_vars PROVE HoldOK'
  OBVIOUS
<1>1. ASSUME NEW r \in Runs, Queue(r) PROVE HoldOK'
  BY <1>1 DEF Queue, HoldOK, TypeOK, Waiting
<1>2. ASSUME NEW r \in Runs, BeginClaim(r) PROVE HoldOK'
  BY <1>2 DEF BeginClaim, HoldOK, TypeOK, Waiting
<1>3. ASSUME NEW r \in Runs, EndClaim(r) PROVE HoldOK'
  BY <1>3 DEF EndClaim, HoldOK, TypeOK, Waiting
<1>4. ASSUME NEW r \in Runs, EndRun(r) PROVE HoldOK'
  BY <1>4 DEF EndRun, HoldOK, TypeOK, Waiting
<1>5. ASSUME NEW h \in Hosts, Start(h) PROVE HoldOK'
  BY <1>5 DEF Start, HoldOK, TypeOK, Waiting
<1>6. ASSUME NEW h \in Hosts, ReachFloor(h) PROVE HoldOK'
  BY <1>6 DEF ReachFloor, HoldOK, TypeOK, Waiting
<1>7. ASSUME NEW h \in Hosts, SeeBlockers(h) PROVE HoldOK'
  BY <1>7, KeepWaitingStage DEF SeeBlockers, HoldOK, TypeOK, Waiting
<1>8. ASSUME NEW h \in Hosts, SeeQuiet(h) PROVE HoldOK'
  BY <1>8 DEF SeeQuiet, HoldOK, TypeOK, Waiting
<1>9. ASSUME NEW h \in Hosts, Contended(h) PROVE HoldOK'
  BY <1>9, KeepWaitingStage DEF Contended, HoldOK, TypeOK, Waiting
<1>10. ASSUME NEW h \in Hosts, Acquire(h) PROVE HoldOK'
  BY <1>10 DEF Acquire, HoldOK, TypeOK, Waiting
<1>11. ASSUME NEW h \in Hosts, Recheck(h) PROVE HoldOK'
  <2>1. CASE Blocking(h) = {}
    BY <1>11, <2>1 DEF Recheck, HoldOK, TypeOK, Waiting
  <2>2. CASE Blocking(h) # {}
    <3>1. FreeBarrier(h) /\ KeepWaiting(h) /\ UNCHANGED <<run, interrupted, holdVars>>
      BY <1>11, <2>2 DEF Recheck
    <3>. QED
      BY <1>11, <3>1, KeepWaitingStage DEF Recheck, FreeBarrier, HoldOK, TypeOK, Waiting
  <2>. QED
    BY <2>1, <2>2
<1>12. ASSUME NEW h \in Hosts, InsertSettles(h) PROVE HoldOK'
  BY <1>12 DEF InsertSettles, HoldOK, TypeOK, Waiting
<1>13. ASSUME NEW h \in Hosts, RenewSettles(h) PROVE HoldOK'
  BY <1>13 DEF RenewSettles, HoldOK, TypeOK, Waiting
<1>14. ASSUME NEW h \in Hosts, NoticeSettles(h) PROVE HoldOK'
  BY <1>14 DEF NoticeSettles, HoldOK, TypeOK, Waiting
<1>15. ASSUME NEW h \in Hosts, AssertQuiet(h) PROVE HoldOK'
  BY <1>15 DEF AssertQuiet, HoldOK, TypeOK, Waiting
<1>16. ASSUME NEW h \in Hosts, Activate(h) PROVE HoldOK'
  BY <1>16 DEF Activate, HoldOK, TypeOK, Waiting
<1>17. ASSUME NEW h \in Hosts, Escalate(h) PROVE HoldOK'
  BY <1>17 DEF Escalate, HoldOK, TypeOK, Waiting
<1>18. ASSUME NEW h \in Hosts, ReleaseBarrier(h) PROVE HoldOK'
  BY <1>18 DEF ReleaseBarrier, HoldOK, TypeOK, Waiting, FreeBarrier
<1>19. ASSUME NEW h \in Hosts, SeeMarker(h) PROVE HoldOK'
  BY <1>19 DEF SeeMarker, HoldOK, TypeOK, Waiting
<1>20. ASSUME NEW h \in Hosts, EndHold(h) PROVE HoldOK'
  BY <1>20 DEF EndHold, HoldOK, TypeOK, Waiting, FreeBarrier
<1>21. ASSUME NEW h \in Hosts, LoseHold(h) PROVE HoldOK'
  BY <1>21 DEF LoseHold, HoldOK, TypeOK, Waiting
<1>22. ASSUME NEW h \in Hosts, CloseDrain(h) PROVE HoldOK'
  BY <1>22 DEF CloseDrain, HoldOK, TypeOK, Waiting, ForgetWait
<1>23. ASSUME NEW h \in Hosts, MigrationTerminated(h) PROVE HoldOK'
  BY <1>23 DEF MigrationTerminated, HoldOK, TypeOK, Waiting
<1>24. ASSUME NEW h \in Hosts, Fail(h) PROVE HoldOK'
  BY <1>24 DEF Fail, HoldOK, TypeOK, Waiting, FreeBarrier
<1>25. ASSUME NEW h \in Hosts, Interrupt(h) PROVE HoldOK'
  BY <1>25 DEF Interrupt, HoldOK, TypeOK, Waiting
<1>26. ASSUME NEW h \in Hosts, SessionLost(h) PROVE HoldOK'
  BY <1>26 DEF SessionLost, HoldOK, TypeOK, Waiting
<1>27. ASSUME NEW h \in Hosts, Crash(h) PROVE HoldOK'
  BY <1>27 DEF Crash, HoldOK, TypeOK, Waiting, FreeBarrier, ForgetWait
<1>28. ASSUME NEW h \in Hosts, RecoverLock(h) PROVE HoldOK'
  BY <1>28 DEF RecoverLock, HoldOK, TypeOK, Waiting
<1>29. ASSUME NEW h \in Hosts, ClearEscalation(h) PROVE HoldOK'
  BY <1>29 DEF ClearEscalation, HoldOK, TypeOK, Waiting
<1>30. CASE Tick
  BY <1>30 DEF Tick, HoldOK, TypeOK, Waiting
<1>31. CASE UNCHANGED vars
  BY <1>31 DEF vars, HoldOK, TypeOK, Waiting
<1>. QED
  BY <1>1, <1>2, <1>3, <1>4, <1>5, <1>6, <1>7, <1>8, <1>9, <1>10, <1>11, <1>12, <1>13, <1>14, <1>15, <1>16, <1>17, <1>18, <1>19, <1>20, <1>21, <1>22, <1>23, <1>24, <1>25, <1>26, <1>27, <1>28, <1>29, <1>30, <1>31 DEF Next, RunStep, HostStep, WaitStep, NoticeStep, HeldStep, FaultStep

LEMMA StepFenced ==
  ASSUME HostsAssumption
  PROVE  TypeOK /\ Shut /\ HoldOK /\ [Next]_vars =>
    (\A h \in Hosts : (terminated'[h] /\ barrier = h /\ barrier' # h) =>
       (stage'[h] = "dead" \/ stage' = stage))
<1>. DEFINE Fenced == \A g \in Hosts : (terminated'[g] /\ barrier = g /\ barrier' # g) =>
                        (stage'[g] = "dead" \/ stage' = stage)
<1>. SUFFICES ASSUME TypeOK, Shut, HoldOK, [Next]_vars PROVE Fenced
  OBVIOUS
<1>1. ASSUME NEW r \in Runs, Queue(r) PROVE Fenced
  BY <1>1 DEF Queue, HoldOK, TypeOK, Waiting
<1>2. ASSUME NEW r \in Runs, BeginClaim(r) PROVE Fenced
  BY <1>2 DEF BeginClaim, HoldOK, TypeOK, Waiting
<1>3. ASSUME NEW r \in Runs, EndClaim(r) PROVE Fenced
  BY <1>3 DEF EndClaim, HoldOK, TypeOK, Waiting
<1>4. ASSUME NEW r \in Runs, EndRun(r) PROVE Fenced
  BY <1>4 DEF EndRun, HoldOK, TypeOK, Waiting
<1>5. ASSUME NEW h \in Hosts, Start(h) PROVE Fenced
  BY <1>5 DEF Start, HoldOK, TypeOK, Waiting
<1>6. ASSUME NEW h \in Hosts, ReachFloor(h) PROVE Fenced
  BY <1>6 DEF ReachFloor, HoldOK, TypeOK, Waiting
<1>7. ASSUME NEW h \in Hosts, SeeBlockers(h) PROVE Fenced
  BY <1>7 DEF SeeBlockers, HoldOK, TypeOK, Waiting
<1>8. ASSUME NEW h \in Hosts, SeeQuiet(h) PROVE Fenced
  BY <1>8 DEF SeeQuiet, HoldOK, TypeOK, Waiting
<1>9. ASSUME NEW h \in Hosts, Contended(h) PROVE Fenced
  BY <1>9 DEF Contended, HoldOK, TypeOK, Waiting
<1>10. ASSUME NEW h \in Hosts, Acquire(h) PROVE Fenced
  BY <1>10 DEF Acquire, BarrierFree, HostsAssumption
<1>11. ASSUME NEW h \in Hosts, Recheck(h) PROVE Fenced
  BY <1>11 DEF Recheck, FreeBarrier, HoldOK, TypeOK, Waiting
<1>12. ASSUME NEW h \in Hosts, InsertSettles(h) PROVE Fenced
  BY <1>12 DEF InsertSettles, HoldOK, TypeOK, Waiting
<1>13. ASSUME NEW h \in Hosts, RenewSettles(h) PROVE Fenced
  BY <1>13 DEF RenewSettles, HoldOK, TypeOK, Waiting
<1>14. ASSUME NEW h \in Hosts, NoticeSettles(h) PROVE Fenced
  BY <1>14 DEF NoticeSettles, HoldOK, TypeOK, Waiting
<1>15. ASSUME NEW h \in Hosts, AssertQuiet(h) PROVE Fenced
  BY <1>15 DEF AssertQuiet, HoldOK, TypeOK, Waiting
<1>16. ASSUME NEW h \in Hosts, Activate(h) PROVE Fenced
  BY <1>16 DEF Activate, HoldOK, TypeOK, Waiting
<1>17. ASSUME NEW h \in Hosts, Escalate(h) PROVE Fenced
  BY <1>17 DEF Escalate, HoldOK, TypeOK, Waiting
<1>18. ASSUME NEW h \in Hosts, ReleaseBarrier(h) PROVE Fenced
  BY <1>18 DEF ReleaseBarrier, HoldOK, TypeOK, Waiting, FreeBarrier
<1>19. ASSUME NEW h \in Hosts, SeeMarker(h) PROVE Fenced
  BY <1>19 DEF SeeMarker, HoldOK, TypeOK, Waiting
<1>20. ASSUME NEW h \in Hosts, EndHold(h) PROVE Fenced
  BY <1>20 DEF EndHold, HoldOK, TypeOK, Waiting, FreeBarrier
<1>21. ASSUME NEW h \in Hosts, LoseHold(h) PROVE Fenced
  BY <1>21 DEF LoseHold, HoldOK, TypeOK, Waiting
<1>22. ASSUME NEW h \in Hosts, CloseDrain(h) PROVE Fenced
  BY <1>22 DEF CloseDrain, HoldOK, TypeOK, Waiting, ForgetWait
<1>23. ASSUME NEW h \in Hosts, MigrationTerminated(h) PROVE Fenced
  BY <1>23 DEF MigrationTerminated, HoldOK, TypeOK, Waiting
<1>24. ASSUME NEW h \in Hosts, Fail(h) PROVE Fenced
  BY <1>24 DEF Fail, HoldOK, TypeOK, Waiting, FreeBarrier
<1>25. ASSUME NEW h \in Hosts, Interrupt(h) PROVE Fenced
  BY <1>25 DEF Interrupt, HoldOK, TypeOK, Waiting
<1>26. ASSUME NEW h \in Hosts, SessionLost(h) PROVE Fenced
  BY <1>26 DEF SessionLost, HoldOK, TypeOK, Waiting
<1>27. ASSUME NEW h \in Hosts, Crash(h) PROVE Fenced
  BY <1>27 DEF Crash, HoldOK, TypeOK, Waiting, FreeBarrier, ForgetWait
<1>28. ASSUME NEW h \in Hosts, RecoverLock(h) PROVE Fenced
  BY <1>28 DEF RecoverLock, HoldOK, TypeOK, Waiting
<1>29. ASSUME NEW h \in Hosts, ClearEscalation(h) PROVE Fenced
  BY <1>29 DEF ClearEscalation, HoldOK, TypeOK, Waiting
<1>30. CASE Tick
  BY <1>30 DEF Tick, HoldOK, TypeOK, Waiting
<1>31. CASE UNCHANGED vars
  BY <1>31 DEF vars, HoldOK, TypeOK, Waiting
<1>. QED
  BY <1>1, <1>2, <1>3, <1>4, <1>5, <1>6, <1>7, <1>8, <1>9, <1>10, <1>11, <1>12, <1>13, <1>14, <1>15, <1>16, <1>17, <1>18, <1>19, <1>20, <1>21, <1>22, <1>23, <1>24, <1>25, <1>26, <1>27, <1>28, <1>29, <1>30, <1>31 DEF Next, RunStep, HostStep, WaitStep, NoticeStep, HeldStep, FaultStep

(* Only the loss of the session or of the process opens the barrier of a   *)
(* killed migration before the operator has cleared the escalation.        *)
THEOREM HalfAppliedStaysFenced ==
  ASSUME HostsAssumption, RunsAssumption, TimeAssumption PROVE Spec => HalfAppliedIsFenced
BY InitType, StepType, InitShut, StepShut, InitHold, StepHold, StepFenced, PTL
  DEF Spec, HalfAppliedIsFenced

-----------------------------------------------------------------------------
(* The drain rows.                                                         *)

RowOK == RowHasOwner /\ EarlyNeverDrains

LEMMA InitRow == Init => RowOK
BY DEF Init, RowOK, RowHasOwner, EarlyNeverDrains

(* What a poll that keeps waiting does to its own row, and that it leaves  *)
(* the rows of the other hosts alone.                                      *)
LEMMA AlertRow ==
  ASSUME TypeOK, NEW h \in Hosts, Alert(h)
  PROVE  /\ drain'[h] = "none" => drain[h] = "none"
         /\ \A g \in Hosts \ {h} :
              /\ drain'[g] = drain[g] /\ left'[g] = left[g]
              /\ alert'[g] = alert[g] /\ since'[g] = since[g]
BY DEF Alert, TypeOK

LEMMA KeepWaitingRow ==
  ASSUME TypeOK, NEW h \in Hosts, KeepWaiting(h)
  PROVE  /\ mayWait' = mayWait /\ (drain'[h] # "none" => drain[h] # "none" \/ mayWait[h])
         /\ \A g \in Hosts \ {h} : drain'[g] = drain[g]
<1>1. CASE mayWait[h]
  BY <1>1, AlertRow DEF KeepWaiting
<1>2. CASE ~mayWait[h]
  BY <1>2 DEF KeepWaiting
<1>. QED
  BY <1>1, <1>2

LEMMA StepRow == TypeOK /\ RowOK /\ [Next]_vars => RowOK'
<1>. SUFFICES ASSUME TypeOK, RowOK, [Next]_vars PROVE RowOK'
  OBVIOUS
<1>1. ASSUME NEW r \in Runs, Queue(r) PROVE RowOK'
  BY <1>1 DEF Queue, RowOK, RowHasOwner, EarlyNeverDrains, TypeOK, Waiting
<1>2. ASSUME NEW r \in Runs, BeginClaim(r) PROVE RowOK'
  BY <1>2 DEF BeginClaim, RowOK, RowHasOwner, EarlyNeverDrains, TypeOK, Waiting
<1>3. ASSUME NEW r \in Runs, EndClaim(r) PROVE RowOK'
  BY <1>3 DEF EndClaim, RowOK, RowHasOwner, EarlyNeverDrains, TypeOK, Waiting
<1>4. ASSUME NEW r \in Runs, EndRun(r) PROVE RowOK'
  BY <1>4 DEF EndRun, RowOK, RowHasOwner, EarlyNeverDrains, TypeOK, Waiting
<1>5. ASSUME NEW h \in Hosts, Start(h) PROVE RowOK'
  BY <1>5 DEF Start, RowOK, RowHasOwner, EarlyNeverDrains, TypeOK, Waiting
<1>6. ASSUME NEW h \in Hosts, ReachFloor(h) PROVE RowOK'
  BY <1>6 DEF ReachFloor, RowOK, RowHasOwner, EarlyNeverDrains, TypeOK, Waiting
<1>7. ASSUME NEW h \in Hosts, SeeBlockers(h) PROVE RowOK'
  BY <1>7, KeepWaitingStage, KeepWaitingRow DEF SeeBlockers, RowOK, RowHasOwner, EarlyNeverDrains, TypeOK, Waiting
<1>8. ASSUME NEW h \in Hosts, SeeQuiet(h) PROVE RowOK'
  BY <1>8 DEF SeeQuiet, RowOK, RowHasOwner, EarlyNeverDrains, TypeOK, Waiting
<1>9. ASSUME NEW h \in Hosts, Contended(h) PROVE RowOK'
  BY <1>9, KeepWaitingStage, KeepWaitingRow DEF Contended, RowOK, RowHasOwner, EarlyNeverDrains, TypeOK, Waiting
<1>10. ASSUME NEW h \in Hosts, Acquire(h) PROVE RowOK'
  BY <1>10 DEF Acquire, RowOK, RowHasOwner, EarlyNeverDrains, TypeOK, Waiting
<1>11. ASSUME NEW h \in Hosts, Recheck(h) PROVE RowOK'
  <2>1. CASE Blocking(h) = {} /\ mayWait[h]
    BY <1>11, <2>1, AlertRow DEF Recheck, RowOK, RowHasOwner, EarlyNeverDrains, TypeOK, Waiting
  <2>2. CASE Blocking(h) = {} /\ ~mayWait[h]
    BY <1>11, <2>2 DEF Recheck, RowOK, RowHasOwner, EarlyNeverDrains, TypeOK, Waiting
  <2>3. CASE Blocking(h) # {}
    BY <1>11, <2>3, KeepWaitingStage, KeepWaitingRow DEF Recheck, RowOK, RowHasOwner, EarlyNeverDrains, TypeOK, Waiting
  <2>. QED
    BY <2>1, <2>2, <2>3
<1>12. ASSUME NEW h \in Hosts, InsertSettles(h) PROVE RowOK'
  BY <1>12 DEF InsertSettles, RowOK, RowHasOwner, EarlyNeverDrains, TypeOK, Waiting
<1>13. ASSUME NEW h \in Hosts, RenewSettles(h) PROVE RowOK'
  BY <1>13 DEF RenewSettles, RowOK, RowHasOwner, EarlyNeverDrains, TypeOK, Waiting
<1>14. ASSUME NEW h \in Hosts, NoticeSettles(h) PROVE RowOK'
  BY <1>14 DEF NoticeSettles, RowOK, RowHasOwner, EarlyNeverDrains, TypeOK, Waiting
<1>15. ASSUME NEW h \in Hosts, AssertQuiet(h) PROVE RowOK'
  BY <1>15 DEF AssertQuiet, RowOK, RowHasOwner, EarlyNeverDrains, TypeOK, Waiting
<1>16. ASSUME NEW h \in Hosts, Activate(h) PROVE RowOK'
  BY <1>16 DEF Activate, RowOK, RowHasOwner, EarlyNeverDrains, TypeOK, Waiting
<1>17. ASSUME NEW h \in Hosts, Escalate(h) PROVE RowOK'
  BY <1>17 DEF Escalate, RowOK, RowHasOwner, EarlyNeverDrains, TypeOK, Waiting
<1>18. ASSUME NEW h \in Hosts, ReleaseBarrier(h) PROVE RowOK'
  BY <1>18 DEF ReleaseBarrier, RowOK, RowHasOwner, EarlyNeverDrains, TypeOK, Waiting, FreeBarrier
<1>19. ASSUME NEW h \in Hosts, SeeMarker(h) PROVE RowOK'
  BY <1>19 DEF SeeMarker, RowOK, RowHasOwner, EarlyNeverDrains, TypeOK, Waiting
<1>20. ASSUME NEW h \in Hosts, EndHold(h) PROVE RowOK'
  BY <1>20 DEF EndHold, RowOK, RowHasOwner, EarlyNeverDrains, TypeOK, Waiting, FreeBarrier
<1>21. ASSUME NEW h \in Hosts, LoseHold(h) PROVE RowOK'
  BY <1>21 DEF LoseHold, RowOK, RowHasOwner, EarlyNeverDrains, TypeOK, Waiting
<1>22. ASSUME NEW h \in Hosts, CloseDrain(h) PROVE RowOK'
  BY <1>22 DEF CloseDrain, RowOK, RowHasOwner, EarlyNeverDrains, TypeOK, Waiting, ForgetWait
<1>23. ASSUME NEW h \in Hosts, MigrationTerminated(h) PROVE RowOK'
  BY <1>23 DEF MigrationTerminated, RowOK, RowHasOwner, EarlyNeverDrains, TypeOK, Waiting
<1>24. ASSUME NEW h \in Hosts, Fail(h) PROVE RowOK'
  BY <1>24 DEF Fail, RowOK, RowHasOwner, EarlyNeverDrains, TypeOK, Waiting, FreeBarrier
<1>25. ASSUME NEW h \in Hosts, Interrupt(h) PROVE RowOK'
  BY <1>25 DEF Interrupt, RowOK, RowHasOwner, EarlyNeverDrains, TypeOK, Waiting
<1>26. ASSUME NEW h \in Hosts, SessionLost(h) PROVE RowOK'
  BY <1>26 DEF SessionLost, RowOK, RowHasOwner, EarlyNeverDrains, TypeOK, Waiting
<1>27. ASSUME NEW h \in Hosts, Crash(h) PROVE RowOK'
  BY <1>27 DEF Crash, RowOK, RowHasOwner, EarlyNeverDrains, TypeOK, Waiting, FreeBarrier, ForgetWait
<1>28. ASSUME NEW h \in Hosts, RecoverLock(h) PROVE RowOK'
  BY <1>28 DEF RecoverLock, RowOK, RowHasOwner, EarlyNeverDrains, TypeOK, Waiting
<1>29. ASSUME NEW h \in Hosts, ClearEscalation(h) PROVE RowOK'
  BY <1>29 DEF ClearEscalation, RowOK, RowHasOwner, EarlyNeverDrains, TypeOK, Waiting
<1>30. CASE Tick
  BY <1>30 DEF Tick, RowOK, RowHasOwner, EarlyNeverDrains, TypeOK, Waiting
<1>31. CASE UNCHANGED vars
  BY <1>31 DEF vars, RowOK, RowHasOwner, EarlyNeverDrains, TypeOK, Waiting
<1>. QED
  BY <1>1, <1>2, <1>3, <1>4, <1>5, <1>6, <1>7, <1>8, <1>9, <1>10, <1>11, <1>12, <1>13, <1>14, <1>15, <1>16, <1>17, <1>18, <1>19, <1>20, <1>21, <1>22, <1>23, <1>24, <1>25, <1>26, <1>27, <1>28, <1>29, <1>30, <1>31 DEF Next, RunStep, HostStep, WaitStep, NoticeStep, HeldStep, FaultStep

(* No drain row is left behind by a process that ends in order, not even   *)
(* the one whose insert was in flight when the window opened.              *)
THEOREM RowsAreOwned ==
  ASSUME HostsAssumption, RunsAssumption, TimeAssumption PROVE Spec => []RowHasOwner
BY InitType, StepType, InitRow, StepRow, PTL DEF Spec, RowOK

(* An attempt before the cadence floor never stops dispatch.               *)
THEOREM EarlyAttemptsDoNotDrain ==
  ASSUME HostsAssumption, RunsAssumption, TimeAssumption PROVE Spec => []EarlyNeverDrains
BY InitType, StepType, InitRow, StepRow, PTL DEF Spec, RowOK

-----------------------------------------------------------------------------
(* The drain does not lapse under a wait, provided a renewal interval is   *)
(* shorter than the deadline and notices do not outlast a tick.            *)

Timely == AlertEvery < Deadline /\ NoticeMayStall = FALSE

(* The live wait of a host: what its row protects.                         *)
Protected(h) == stage[h] \in Waiting /\ ~interrupted[h]

(* How much of the deadline is left, by where the alert of the wait is.    *)
CoverAt(h) ==
  /\ drain[h] # "none" => elapsed[h] = Budget
  /\ (Protected(h) /\ drain[h] = "inserting") => left[h] = Deadline
  /\ (Protected(h) /\ drain[h] = "open") =>
       /\ left[h] + AlertEvery >= Deadline
       /\ alert[h] = "notifying" => left[h] = Deadline
       /\ (alert[h] = "idle" /\ since[h] < AlertEvery) => left[h] + since[h] >= Deadline
       /\ (alert[h] = "idle" /\ since[h] = AlertEvery /\ polled[h]) => left[h] = Deadline

Cover == \A g \in Hosts : CoverAt(g)

LEMMA InitCover == Init => Cover
BY DEF Init, Cover, CoverAt

LEMMA AlertCover ==
  ASSUME TimeAssumption, Timely, TypeOK, NEW h \in Hosts, Alert(h), CoverAt(h),
         stage[h] \in Waiting, stage'[h] = stage[h] \/ stage'[h] = "waiting" \/ stage'[h] = "held",
         elapsed' = elapsed, interrupted' = interrupted
  PROVE  CoverAt(h)'
<1>1. CASE ~OverBudget(h)
  <2>1. UNCHANGED <<drain, left, alert, since>>
    BY <1>1 DEF Alert
  <2>2. drain[h] = "none" \/ alert[h] # "idle" \/ since[h] < AlertEvery
    BY <1>1 DEF OverBudget, CoverAt, TypeOK, TimeAssumption
  <2>. QED
    BY <2>1, <2>2 DEF CoverAt, Protected, Waiting, TypeOK, TimeAssumption
<1>2. CASE OverBudget(h)
  <2>1. elapsed[h] = Budget
    BY <1>2 DEF OverBudget, TypeOK, TimeAssumption
  <2>2. CASE drain[h] = "none"
    <3>1. drain'[h] = "inserting" /\ left'[h] = Deadline
      BY <1>2, <2>2 DEF Alert, TypeOK
    <3>. QED
      BY <2>1, <3>1 DEF CoverAt
  <2>3. CASE drain[h] # "none"
    <3>1. drain' = drain /\ left' = left /\ alert'[h] = "extending"
      BY <1>2, <2>3 DEF Alert, TypeOK
    <3>. QED
      BY <2>1, <3>1 DEF CoverAt, Protected, Waiting
  <2>. QED
    BY <2>2, <2>3
<1>. QED
  BY <1>1, <1>2

LEMMA StepCover ==
  ASSUME TimeAssumption, Timely PROVE TypeOK /\ RowOK /\ Cover /\ [Next]_vars => Cover'
<1>. SUFFICES ASSUME TypeOK, RowOK, Cover, [Next]_vars PROVE Cover'
  OBVIOUS
<1>1. ASSUME NEW r \in Runs, Queue(r) PROVE Cover'
  BY <1>1 DEF Queue, Cover, CoverAt, Protected, TypeOK, Waiting
<1>2. ASSUME NEW r \in Runs, BeginClaim(r) PROVE Cover'
  BY <1>2 DEF BeginClaim, Cover, CoverAt, Protected, TypeOK, Waiting
<1>3. ASSUME NEW r \in Runs, EndClaim(r) PROVE Cover'
  BY <1>3 DEF EndClaim, Cover, CoverAt, Protected, TypeOK, Waiting
<1>4. ASSUME NEW r \in Runs, EndRun(r) PROVE Cover'
  BY <1>4 DEF EndRun, Cover, CoverAt, Protected, TypeOK, Waiting
<1>5. ASSUME NEW h \in Hosts, Start(h) PROVE Cover'
  BY <1>5 DEF Start, RowOK, RowHasOwner, Cover, CoverAt, Protected, TypeOK, Waiting
<1>6. ASSUME NEW h \in Hosts, ReachFloor(h) PROVE Cover'
  BY <1>6 DEF ReachFloor, Cover, CoverAt, Protected, TypeOK, Waiting
<1>7. ASSUME NEW h \in Hosts, SeeBlockers(h) PROVE Cover'
  <2>1. \A g \in Hosts \ {h} : CoverAt(g)'
    BY <1>7, KeepWaitingStage, AlertRow DEF SeeBlockers, KeepWaiting, Cover, CoverAt, Protected, TypeOK, Waiting
  <2>2. CASE mayWait[h]
    <3>1. Alert(h) /\ stage'[h] = "waiting" /\ UNCHANGED <<elapsed, interrupted>>
      BY <1>7, <2>2 DEF SeeBlockers, KeepWaiting, TypeOK
    <3>2. CoverAt(h) /\ stage[h] \in Waiting
      BY <1>7 DEF Cover, SeeBlockers, Waiting
    <3>. QED
      BY <2>1, <3>1, <3>2, AlertCover DEF Cover
  <2>3. CASE ~mayWait[h]
    <3>1. stage'[h] = "releasing" /\ UNCHANGED <<elapsed, drain>>
      BY <1>7, <2>3 DEF SeeBlockers, KeepWaiting, TypeOK
    <3>2. CoverAt(h)'
      BY <3>1 DEF Cover, CoverAt, Protected, TypeOK, Waiting
    <3>. QED
      BY <2>1, <3>2 DEF Cover
  <2>. QED
    BY <2>2, <2>3
<1>8. ASSUME NEW h \in Hosts, SeeQuiet(h) PROVE Cover'
  BY <1>8 DEF SeeQuiet, Cover, CoverAt, Protected, TypeOK, Waiting
<1>9. ASSUME NEW h \in Hosts, Contended(h) PROVE Cover'
  <2>1. \A g \in Hosts \ {h} : CoverAt(g)'
    BY <1>9, KeepWaitingStage, AlertRow DEF Contended, KeepWaiting, Cover, CoverAt, Protected, TypeOK, Waiting
  <2>2. CASE mayWait[h]
    <3>1. Alert(h) /\ stage'[h] = "waiting" /\ UNCHANGED <<elapsed, interrupted>>
      BY <1>9, <2>2 DEF Contended, KeepWaiting, TypeOK
    <3>2. CoverAt(h) /\ stage[h] \in Waiting
      BY <1>9 DEF Cover, Contended, Waiting
    <3>. QED
      BY <2>1, <3>1, <3>2, AlertCover DEF Cover
  <2>3. CASE ~mayWait[h]
    <3>1. stage'[h] = "releasing" /\ UNCHANGED <<elapsed, drain>>
      BY <1>9, <2>3 DEF Contended, KeepWaiting, TypeOK
    <3>2. CoverAt(h)'
      BY <3>1 DEF Cover, CoverAt, Protected, TypeOK, Waiting
    <3>. QED
      BY <2>1, <3>2 DEF Cover
  <2>. QED
    BY <2>2, <2>3
<1>10. ASSUME NEW h \in Hosts, Acquire(h) PROVE Cover'
  BY <1>10 DEF Acquire, Cover, CoverAt, Protected, TypeOK, Waiting
<1>11. ASSUME NEW h \in Hosts, Recheck(h) PROVE Cover'
  <2>1. CASE Blocking(h) = {}
    <3>1. \A g \in Hosts \ {h} : CoverAt(g)'
      BY <1>11, <2>1, AlertRow DEF Recheck, Cover, CoverAt, Protected, TypeOK, Waiting
    <3>2. CASE mayWait[h]
      <4>1. Alert(h) /\ stage'[h] = "held" /\ UNCHANGED <<elapsed, interrupted>>
        BY <1>11, <2>1, <3>2 DEF Recheck, TypeOK
      <4>2. CoverAt(h) /\ stage[h] \in Waiting
        BY <1>11 DEF Cover, Recheck, Waiting
      <4>. QED
        BY <3>1, <4>1, <4>2, AlertCover DEF Cover
    <3>3. CASE ~mayWait[h]
      BY <1>11, <2>1, <3>1, <3>3 DEF Recheck, Cover, CoverAt, Protected, TypeOK, Waiting
    <3>. QED
      BY <3>2, <3>3
  <2>2. CASE Blocking(h) # {}
    <3>1. \A g \in Hosts \ {h} : CoverAt(g)'
      BY <1>11, <2>2, KeepWaitingStage, AlertRow DEF Recheck, KeepWaiting, Cover, CoverAt, Protected, TypeOK, Waiting
    <3>2. CASE mayWait[h]
      <4>1. Alert(h) /\ stage'[h] = "waiting" /\ UNCHANGED <<elapsed, interrupted>>
        BY <1>11, <2>2, <3>2 DEF Recheck, KeepWaiting, TypeOK
      <4>2. CoverAt(h) /\ stage[h] \in Waiting
        BY <1>11, <2>2 DEF Cover, Recheck, Waiting
      <4>. QED
        BY <3>1, <4>1, <4>2, AlertCover DEF Cover
    <3>3. CASE ~mayWait[h]
      <4>1. stage'[h] = "releasing" /\ UNCHANGED <<elapsed, drain>>
        BY <1>11, <2>2, <3>3 DEF Recheck, KeepWaiting, TypeOK
      <4>2. CoverAt(h)'
        BY <4>1 DEF Cover, CoverAt, Protected, TypeOK, Waiting
      <4>. QED
        BY <3>1, <4>2 DEF Cover
    <3>. QED
      BY <3>2, <3>3
  <2>. QED
    BY <2>1, <2>2
<1>12. ASSUME NEW h \in Hosts, InsertSettles(h) PROVE Cover'
  BY <1>12 DEF InsertSettles, WriteFailed, TimeAssumption, Cover, CoverAt, Protected, TypeOK, Waiting
<1>13. ASSUME NEW h \in Hosts, RenewSettles(h) PROVE Cover'
  BY <1>13 DEF RenewSettles, WriteFailed, TimeAssumption, Cover, CoverAt, Protected, TypeOK, Waiting
<1>14. ASSUME NEW h \in Hosts, NoticeSettles(h) PROVE Cover'
  BY <1>14 DEF NoticeSettles, TimeAssumption, Cover, CoverAt, Protected, TypeOK, Waiting
<1>15. ASSUME NEW h \in Hosts, AssertQuiet(h) PROVE Cover'
  BY <1>15 DEF AssertQuiet, Cover, CoverAt, Protected, TypeOK, Waiting
<1>16. ASSUME NEW h \in Hosts, Activate(h) PROVE Cover'
  BY <1>16 DEF Activate, Cover, CoverAt, Protected, TypeOK, Waiting
<1>17. ASSUME NEW h \in Hosts, Escalate(h) PROVE Cover'
  BY <1>17 DEF Escalate, Cover, CoverAt, Protected, TypeOK, Waiting
<1>18. ASSUME NEW h \in Hosts, ReleaseBarrier(h) PROVE Cover'
  BY <1>18 DEF ReleaseBarrier, Cover, CoverAt, Protected, TypeOK, Waiting, FreeBarrier
<1>19. ASSUME NEW h \in Hosts, SeeMarker(h) PROVE Cover'
  BY <1>19 DEF SeeMarker, Cover, CoverAt, Protected, TypeOK, Waiting
<1>20. ASSUME NEW h \in Hosts, EndHold(h) PROVE Cover'
  BY <1>20 DEF EndHold, Cover, CoverAt, Protected, TypeOK, Waiting, FreeBarrier
<1>21. ASSUME NEW h \in Hosts, LoseHold(h) PROVE Cover'
  BY <1>21 DEF LoseHold, Cover, CoverAt, Protected, TypeOK, Waiting
<1>22. ASSUME NEW h \in Hosts, CloseDrain(h) PROVE Cover'
  BY <1>22 DEF CloseDrain, Cover, CoverAt, Protected, TypeOK, Waiting, ForgetWait
<1>23. ASSUME NEW h \in Hosts, MigrationTerminated(h) PROVE Cover'
  BY <1>23 DEF MigrationTerminated, Cover, CoverAt, Protected, TypeOK, Waiting
<1>24. ASSUME NEW h \in Hosts, Fail(h) PROVE Cover'
  BY <1>24 DEF Fail, Cover, CoverAt, Protected, TypeOK, Waiting, FreeBarrier
<1>25. ASSUME NEW h \in Hosts, Interrupt(h) PROVE Cover'
  BY <1>25 DEF Interrupt, Cover, CoverAt, Protected, TypeOK, Waiting
<1>26. ASSUME NEW h \in Hosts, SessionLost(h) PROVE Cover'
  BY <1>26 DEF SessionLost, Cover, CoverAt, Protected, TypeOK, Waiting
<1>27. ASSUME NEW h \in Hosts, Crash(h) PROVE Cover'
  BY <1>27 DEF Crash, Cover, CoverAt, Protected, TypeOK, Waiting, FreeBarrier, ForgetWait
<1>28. ASSUME NEW h \in Hosts, RecoverLock(h) PROVE Cover'
  BY <1>28 DEF RecoverLock, Cover, CoverAt, Protected, TypeOK, Waiting
<1>29. ASSUME NEW h \in Hosts, ClearEscalation(h) PROVE Cover'
  BY <1>29 DEF ClearEscalation, Cover, CoverAt, Protected, TypeOK, Waiting
<1>30. CASE Tick
  <2>. SUFFICES ASSUME NEW g \in Hosts PROVE CoverAt(g)'
    BY DEF Cover
  <2>1. CoverAt(g) /\ InStep(g)
    BY <1>30 DEF Cover, Tick
  <2>2. drain' = drain /\ alert' = alert /\ stage' = stage /\ interrupted' = interrupted /\ ~polled'[g]
    BY <1>30 DEF Tick
  <2>3. elapsed[g] = Budget => elapsed'[g] = Budget
    BY <1>30 DEF Tick, TypeOK, TimeAssumption
  <2>4. CASE Protected(g) /\ drain[g] = "open"
    <3>1. polled[g] /\ alert[g] = "idle"
      BY <2>1, <2>4 DEF InStep, Protected, Timely, TypeOK
    <3>2. left[g] \in Nat /\ left'[g] = down(left[g]) /\ since[g] \in 0..AlertEvery
          /\ since'[g] = (IF since[g] < AlertEvery THEN since[g] + 1 ELSE AlertEvery)
      BY <1>30 DEF Tick, TypeOK
    <3>3. CASE since[g] < AlertEvery
      <4>1. left[g] + since[g] >= Deadline
        BY <2>1, <2>4, <3>1, <3>3 DEF CoverAt
      <4>2. left'[g] + since'[g] >= Deadline /\ left'[g] + AlertEvery >= Deadline
        BY <3>2, <3>3, <4>1 DEF Timely, TimeAssumption, down
      <4>. QED
        BY <2>1, <2>2, <2>3, <2>4, <3>1, <4>2 DEF CoverAt, Protected
    <3>4. CASE since[g] = AlertEvery
      <4>1. left[g] = Deadline
        BY <2>1, <2>4, <3>1, <3>4 DEF CoverAt
      <4>2. left'[g] + AlertEvery >= Deadline /\ since'[g] = AlertEvery
        BY <3>2, <3>4, <4>1 DEF Timely, TimeAssumption, down
      <4>3. ~(since'[g] < AlertEvery)
        BY <4>2 DEF TimeAssumption
      <4>. QED
        BY <2>1, <2>2, <2>3, <2>4, <3>1, <4>2, <4>3 DEF CoverAt, Protected
    <3>. QED
      BY <3>2, <3>3, <3>4 DEF TimeAssumption
  <2>5. CASE ~(Protected(g) /\ drain[g] = "open")
    BY <2>1, <2>2, <2>3, <2>5 DEF CoverAt, Protected, InStep
  <2>. QED
    BY <2>4, <2>5
<1>31. CASE UNCHANGED vars
  BY <1>31 DEF vars, Cover, CoverAt, Protected, TypeOK, Waiting
<1>. QED
  BY <1>1, <1>2, <1>3, <1>4, <1>5, <1>6, <1>7, <1>8, <1>9, <1>10, <1>11, <1>12, <1>13, <1>14, <1>15, <1>16, <1>17, <1>18, <1>19, <1>20, <1>21, <1>22, <1>23, <1>24, <1>25, <1>26, <1>27, <1>28, <1>29, <1>30, <1>31 DEF Next, RunStep, HostStep, WaitStep, NoticeStep, HeldStep, FaultStep

(* The row of a live wait never expires: its deadline measures silence.    *)
THEOREM DrainLasts ==
  ASSUME HostsAssumption, RunsAssumption, TimeAssumption, Timely
  PROVE  Spec => []DrainCoversTheWait
<1>1. TypeOK /\ Cover => DrainCoversTheWait
  BY DEF TypeOK, Cover, CoverAt, Protected, DrainCoversTheWait, Timely, TimeAssumption
<1>. QED
  BY <1>1, InitType, StepType, InitRow, StepRow, InitCover, StepCover, PTL DEF Spec

-----------------------------------------------------------------------------
(* Deploy attempts.  What is inductive is where each process may be: who   *)
(* is past the marker owns the lock and is alone (Alone), and whoever may  *)
(* take that lock away, or has lost his own, finds the host fenced by a    *)
(* host-scoped marker and goes no further (Waits).                         *)

\* Past the marker: the stages that only the owner of the lock reaches.
Entered == {"supersede", "target", "selfclear", "release", "finish"} \cup Pipeline

HostFenced == escalation.class = "host"

\* Whoever is past the marker owns the lock and is alone.
Alone(p) ==
  phase[p] \in Entered =>
    lock = p /\ \A q \in Procs : q # p => phase[q] \in {"off", "acquire"}

\* Whoever may take a lock away, or have lost his, finds the host fenced.
Waits(p) ==
  /\ phase[p] = "reclaim" => lock = Dead \/ HostFenced
  /\ phase[p] \in {"check", "renotify"} => lock = p \/ HostFenced
  /\ phase[p] = "renotify" /\ job[p].retry /\ job[p].seen = "same" =>
       escalation.class = "transient"

\* Targets come from main, and the schema is that of a target.
Aims(p) ==
  /\ job[p].target <= main
  /\ phase[p] \in Preparing \cup Activating => job[p].target \in Commits
  /\ phase[p] \in {"backup", "migrate"} => schema <= job[p].target
  /\ phase[p] \in {"quiet", "publish"} => job[p].target = schema

\* What a latched commit has to do with an attempt.
Passes(p) ==
  /\ phase[p] = "target" => escalation.class # "commit"
  /\ phase[p] \in Preparing \cup Activating /\ escalation.class = "commit" =>
       escalation.to < job[p].target

\* What the services run at each point of an attempt.
Serves(p) ==
  /\ phase[p] \in {"restart", "restore"} =>
       \A u \in Units : u \notin job[p].todo => serving[u] = current
  /\ phase[p] \in {"supersede", "target", "publish", "verify", "announce", "settle", "selfclear"}
                    \cup Preparing => ~Divided
  /\ phase[p] \in {"restart", "verify", "announce"} => "deployed" \in job[p].facts
  /\ phase[p] = "failed" /\ Divided => job[p].reason = "host"

ProcOK(p) == Alone(p) /\ Waits(p) /\ Aims(p) /\ Passes(p)

Ends(p) == phase[p] \in {"release", "finish"} => ~Divided \/ HostFenced

SchemaOK == previous <= schema /\ schema <= main /\ SchemaCoversServices

LatchOK == escalation.class = "commit" => escalation.to <= main

\* Inductive whatever the code does with a second failure.
AInv == AttemptTypeOK /\ SchemaOK /\ LatchOK /\ \A p \in Procs : ProcOK(p)

\* Inductive beside AInv as long as a failed release does not replace the
\* marker of a failure that fenced the host.
FInv == DividedIsFenced /\ \A p \in Procs : Serves(p) /\ Ends(p)

-----------------------------------------------------------------------------
\* Records of the marker and of the jobs.

LEMMA CommitFacts ==
  ASSUME BoundsAssumption
  PROVE  /\ Last \in Nat /\ Last > 0 /\ RetryCap \in Nat /\ RetryCap > 0 /\ MaxCrashes \in Nat
         /\ \A c : c \in Commits <=> c \in Nat /\ 1 <= c /\ c <= Last
         /\ Unknown = 0 /\ Unknown \notin Commits
BY DEF BoundsAssumption, Commits, Unknown

LEMMA EscalatedType ==
  ASSUME BoundsAssumption, AttemptTypeOK, NEW reason, NEW to \in Commits \cup {Unknown},
         NEW proven \in BOOLEAN, NEW told \in BOOLEAN
  PROVE  /\ Escalated(reason, to, proven, told) \in Markers
         /\ Escalated(reason, to, proven, told).class = Scope(reason, to, proven)
         /\ Escalated(reason, to, proven, told).class \in Classes
         /\ Escalated(reason, to, proven, told).to = to
<1>1. Scope(reason, to, proven) \in Classes BY DEF Scope, Classes
<1>2. escalation.attempts \in 0..RetryCap
  BY CommitFacts DEF AttemptTypeOK, Markers, NoMarker
<1>3. ASSUME NEW n \in Nat PROVE upTo(n, RetryCap) \in 0..RetryCap
  BY CommitFacts DEF upTo
<1>. DEFINE n == IF reason = "transient" THEN upTo(escalation.attempts + 1, RetryCap) ELSE 0
<1>4. n \in 0..RetryCap BY <1>2, <1>3, CommitFacts
<1>5. Escalated(reason, to, proven, told) =
        [class |-> Scope(reason, to, proven), to |-> to, attempts |-> n,
         due |-> (n < RetryCap), told |-> told]
  BY DEF Escalated
<1>. HIDE DEF n
<1>. QED BY <1>1, <1>4, <1>5 DEF Markers

\* What a replaced marker does to the jobs: their copies of it are stale.
LEMMA ReplacedType ==
  ASSUME NEW jobs \in [Procs -> Jobs]
  PROVE  /\ Replaced(jobs) \in [Procs -> Jobs]
         /\ \A q \in Procs : /\ Replaced(jobs)[q].seen # "same"
                             /\ Replaced(jobs)[q].target = jobs[q].target
                             /\ Replaced(jobs)[q].from = jobs[q].from
                             /\ Replaced(jobs)[q].auto = jobs[q].auto
                             /\ Replaced(jobs)[q].early = jobs[q].early
                             /\ Replaced(jobs)[q].retry = jobs[q].retry
                             /\ Replaced(jobs)[q].facts = jobs[q].facts
                             /\ Replaced(jobs)[q].todo = jobs[q].todo
                             /\ Replaced(jobs)[q].reason = jobs[q].reason
BY DEF Replaced, Jobs

LEMMA NoJobType == NoJob \in Jobs /\ NoJob.target = Unknown /\ NoJob.facts = {} /\ NoJob.seen = "none"
BY DEF NoJob, Jobs

\* The other processes of a step of p: where they are and what they aim at stays,
\* and a copy of the marker that is still good is a copy of the marker of before.
Aside(p) ==
  \A q \in Procs : q # p =>
    /\ phase'[q] = phase[q]
    /\ job'[q].target = job[q].target /\ job'[q].reason = job[q].reason
    /\ job'[q].facts = job[q].facts /\ job'[q].todo = job[q].todo
    /\ job'[q].retry = job[q].retry
    /\ job'[q].seen = "same" => job[q].seen = "same" /\ escalation'.class = escalation.class

LEMMA AbandonStep ==
  ASSUME BoundsAssumption, AttemptTypeOK, NEW p \in Procs, NEW reason \in Reasons, Abandon(p, reason)
  PROVE  /\ phase' \in [Procs -> AttemptStages] /\ job' \in [Procs -> Jobs]
         /\ escalation' \in Markers /\ lock' \in Procs \cup {Free, Dead}
         /\ Aside(p) /\ phase'[p] = "off" /\ job'[p].target = Unknown
         /\ escalation'.class # "commit" /\ escalation'.to = Unknown
         /\ reason = "host" => escalation'.class = "host"
         /\ lock' = IF lock = p THEN Free ELSE lock
<1>. DEFINE jobs == [job EXCEPT ![p] = NoJob]
<1>1. jobs \in [Procs -> Jobs] BY NoJobType DEF AttemptTypeOK
<1>2. PICK told \in BOOLEAN : escalation' = Escalated(reason, Unknown, TRUE, told) BY DEF Abandon
<1>3. /\ phase' = [phase EXCEPT ![p] = "off"] /\ lock' = (IF lock = p THEN Free ELSE lock)
      /\ job' = Replaced(jobs)
  BY DEF Abandon, Exit, Go
<1>4. escalation' \in Markers /\ escalation'.class = Scope(reason, Unknown, TRUE)
      /\ escalation'.to = Unknown
  BY <1>2, EscalatedType
<1>5. Scope(reason, Unknown, TRUE) # "commit" /\ (reason = "host" => Scope(reason, Unknown, TRUE) = "host")
  BY DEF Scope
<1>. HIDE DEF jobs
<1>6. \A q \in Procs : q # p => jobs[q] = job[q] BY DEF jobs, AttemptTypeOK
<1>7. jobs[p] = NoJob BY DEF jobs, AttemptTypeOK
<1>8. Aside(p) BY <1>1, <1>3, <1>6, ReplacedType DEF Aside, AttemptTypeOK
<1>9. phase' \in [Procs -> AttemptStages] /\ phase'[p] = "off"
  BY <1>3 DEF AttemptTypeOK, AttemptStages
<1>10. job' \in [Procs -> Jobs] /\ job'[p].target = Unknown BY <1>1, <1>3, <1>7, ReplacedType, NoJobType
<1>11. lock' \in Procs \cup {Free, Dead} BY <1>3 DEF AttemptTypeOK
<1>. QED BY <1>3, <1>4, <1>5, <1>8, <1>9, <1>10, <1>11

-----------------------------------------------------------------------------
\* How a step of a process moves it: within an attempt, out of the invocation,
\* past the marker, or before it.

LEMMA Types ==
  ASSUME AInv
  PROVE  /\ AttemptTypeOK /\ SchemaOK /\ LatchOK
         /\ \A q \in Procs : Alone(q) /\ Waits(q) /\ Aims(q) /\ Passes(q)
         /\ phase \in [Procs -> AttemptStages] /\ job \in [Procs -> Jobs]
         /\ main \in Commits /\ current \in Commits /\ schema \in Commits
         /\ previous \in Commits \cup {Unknown} /\ serving \in [Units -> Commits]
         /\ escalation \in Markers
BY DEF AInv, ProcOK, AttemptTypeOK

LEMMA Inner ==
  ASSUME AInv, NEW p \in Procs, phase[p] \in Entered, NEW w \in Entered,
         phase' = [phase EXCEPT ![p] = w], lock' = lock, main' = main, Aside(p),
         AttemptTypeOK', SchemaOK', LatchOK', Aims(p)', Passes(p)'
  PROVE  AInv'
<1>1. lock = p /\ \A q \in Procs : q # p => phase[q] \in {"off", "acquire"}
  BY Types DEF Alone
<1>2. \A q \in Procs : phase'[q] = IF q = p THEN w ELSE phase[q] BY Types
<1>3. w \notin {"reclaim", "check", "renotify"}
  BY DEF Entered, Pipeline, Preparing, Activating, Recovering
<1>4. ASSUME NEW q \in Procs, q # p PROVE ProcOK(q)'
  <2>1. phase'[q] \in {"off", "acquire"} BY <1>1, <1>2, <1>4
  <2>2. Alone(q)' BY <2>1 DEF Alone, Entered, Pipeline, Preparing, Activating, Recovering
  <2>3. Waits(q)' BY <2>1 DEF Waits
  <2>4. Aims(q)' BY <1>4, <2>1, Types DEF Aims, Aside, Preparing, Activating
  <2>5. Passes(q)' BY <2>1 DEF Passes, Preparing, Activating
  <2>. QED BY <2>2, <2>3, <2>4, <2>5 DEF ProcOK
<1>5. Alone(p)' BY <1>1, <1>2 DEF Alone
<1>6. Waits(p)' BY <1>2, <1>3 DEF Waits
<1>7. ProcOK(p)' BY <1>5, <1>6 DEF ProcOK
<1>. QED BY <1>4, <1>7 DEF AInv

LEMMA Leave ==
  ASSUME ProcsAssumption, AInv, NEW p \in Procs, phase' = [phase EXCEPT ![p] = "off"],
         lock # p => lock' = lock, lock = p => lock' \in {Free, Dead},
         main' = main, Aside(p), AttemptTypeOK', SchemaOK', LatchOK', job'[p].target <= main,
         phase[p] \notin Entered =>
            /\ schema' = schema
            /\ HostFenced => escalation'.class = "host"
            /\ escalation'.class = "commit" =>
                 escalation.class = "commit" /\ escalation'.to = escalation.to
  PROVE  AInv'
<1>1. \A q \in Procs : phase'[q] = IF q = p THEN "off" ELSE phase[q] BY Types
<1>2. \A q \in Procs : ~("off" \in Entered) /\ ~("acquire" \in Entered)
  BY DEF Entered, Pipeline, Preparing, Activating, Recovering
<1>3. Preparing \cup Activating \subseteq Entered BY DEF Entered, Pipeline
<1>4. ASSUME NEW q \in Procs, q # p PROVE ProcOK(q)'
  <2>1. phase'[q] = phase[q] /\ job'[q].target = job[q].target BY <1>1, <1>4 DEF Aside
  <2>2. CASE phase[p] \in Entered
    <3>1. phase'[q] \in {"off", "acquire"} BY <1>4, <2>1, <2>2, Types DEF Alone
    <3>. QED BY <1>4, <2>1, <3>1, <1>2, Types
      DEF ProcOK, Alone, Waits, Aims, Passes, Preparing, Activating
  <2>3. CASE phase[p] \notin Entered
    <3>1. Alone(q)' BY <1>1, <1>4, <2>1, Types, ProcsAssumption DEF Alone, ProcsAssumption
    <3>2. Waits(q)'
      BY <1>4, <2>1, <2>3, Types, ProcsAssumption DEF Waits, HostFenced, Aside, ProcsAssumption
    <3>3. Aims(q)' BY <2>1, <2>3, Types DEF Aims
    <3>4. Passes(q)' BY <2>1, <2>3, Types DEF Passes
    <3>. QED BY <3>1, <3>2, <3>3, <3>4 DEF ProcOK
  <2>. QED BY <2>2, <2>3
<1>5. ProcOK(p)'
  <2>1. phase'[p] = "off" BY <1>1
  <2>. QED BY <1>2, <2>1 DEF ProcOK, Alone, Waits, Aims, Passes, Preparing, Activating
<1>. QED BY <1>4, <1>5 DEF AInv

LEMMA Enter ==
  ASSUME ProcsAssumption, AInv, NEW p \in Procs, phase[p] \in {"check", "renotify"},
         ~HostFenced, NEW w \in Entered,
         phase' = [phase EXCEPT ![p] = w], lock' = lock, UNCHANGED <<main, host>>, Aside(p),
         AttemptTypeOK', LatchOK', Aims(p)', Passes(p)'
  PROVE  AInv'
<1>1. lock = p BY Types DEF Waits
<1>2. \A q \in Procs : phase'[q] = IF q = p THEN w ELSE phase[q] BY Types
<1>3. w \notin {"reclaim", "check", "renotify"}
  BY DEF Entered, Pipeline, Preparing, Activating, Recovering
<1>4. ASSUME NEW q \in Procs, q # p PROVE ProcOK(q)' /\ phase'[q] \in {"off", "acquire"}
  <2>1. phase[q] \notin Entered BY <1>1, <1>4, Types DEF Alone
  <2>2. phase[q] \notin {"reclaim", "check", "renotify"}
    BY <1>1, <1>4, Types, ProcsAssumption DEF Waits, ProcsAssumption
  <2>3. phase'[q] \in {"off", "acquire"} BY <1>2, <1>4, <2>1, <2>2, Types DEF AttemptStages, Entered
  <2>4. Alone(q)' BY <2>3 DEF Alone, Entered, Pipeline, Preparing, Activating, Recovering
  <2>5. Waits(q)' BY <2>3 DEF Waits
  <2>6. Aims(q)' BY <1>4, <2>3, Types DEF Aims, Aside, Preparing, Activating
  <2>7. Passes(q)' BY <2>3 DEF Passes, Preparing, Activating
  <2>. QED BY <2>3, <2>4, <2>5, <2>6, <2>7 DEF ProcOK
<1>5. Alone(p)' BY <1>1, <1>4 DEF Alone
<1>6. Waits(p)' BY <1>2, <1>3 DEF Waits
<1>7. ProcOK(p)' BY <1>5, <1>6 DEF ProcOK
<1>8. SchemaOK' BY Types DEF SchemaOK, SchemaCoversServices, host
<1>. QED BY <1>4, <1>7, <1>8 DEF AInv

\* Before the marker: nothing of the host changes.
LEMMA Wait ==
  ASSUME ProcsAssumption, AInv, NEW p \in Procs, phase[p] \notin Entered, NEW w, w \notin Entered,
         phase' = [phase EXCEPT ![p] = w], UNCHANGED <<main, host>>, Aside(p),
         AttemptTypeOK', LatchOK', job'[p].target <= main, Waits(p)',
         HostFenced => escalation'.class = "host",
         escalation'.class = "commit" =>
            escalation.class = "commit" /\ escalation'.to = escalation.to,
         w \in {"off", "acquire"} \/ lock \notin Procs \/ phase[p] \notin {"off", "acquire"},
         \/ lock' = lock
         \/ lock = Free
         \/ lock = Dead /\ escalation'.class = "host"
         \/ phase[p] = "reclaim" /\ escalation'.class = "host"
  PROVE  AInv'
<1>1. \A q \in Procs : phase'[q] = IF q = p THEN w ELSE phase[q] BY Types
<1>2. Preparing \cup Activating \subseteq Entered /\ "target" \in Entered BY DEF Entered, Pipeline
<1>3. ASSUME NEW q \in Procs, q # p PROVE ProcOK(q)'
  <2>1. phase'[q] = phase[q] /\ job'[q].target = job[q].target BY <1>1, <1>3 DEF Aside
  <2>2. Alone(q)'
    <3>. SUFFICES ASSUME phase[q] \in Entered
                  PROVE  lock' = q /\ \A r \in Procs : r # q => phase'[r] \in {"off", "acquire"}
      BY <2>1 DEF Alone
    <3>1. lock = q /\ \A r \in Procs : r # q => phase[r] \in {"off", "acquire"} BY Types DEF Alone
    <3>2. phase[p] \in {"off", "acquire"} BY <1>3, <3>1
    <3>3. lock' = lock BY <3>1, <3>2, ProcsAssumption DEF ProcsAssumption
    <3>4. w \in {"off", "acquire"} BY <3>1, <3>2
    <3>. QED BY <1>1, <3>1, <3>3, <3>4
  <2>3. Waits(q)'
    BY <1>3, <2>1, Types, ProcsAssumption DEF Waits, HostFenced, Aside, ProcsAssumption
  <2>4. Aims(q)' BY <2>1, Types DEF Aims, host
  <2>5. Passes(q)' BY <2>1, Types DEF Passes
  <2>. QED BY <2>2, <2>3, <2>4, <2>5 DEF ProcOK
<1>4. ProcOK(p)'
  <2>1. phase'[p] \notin Entered BY <1>1
  <2>2. Alone(p)' BY <2>1 DEF Alone
  <2>3. phase'[p] \notin Preparing \cup Activating /\ phase'[p] # "target"
        /\ phase'[p] \notin {"backup", "migrate", "quiet", "publish"}
    BY <1>2, <2>1 DEF Preparing, Activating
  <2>4. Aims(p)' BY <2>3 DEF Aims
  <2>5. Passes(p)' BY <2>3 DEF Passes
  <2>. QED BY <2>2, <2>4, <2>5 DEF ProcOK
<1>5. SchemaOK' BY Types DEF SchemaOK, SchemaCoversServices, host
<1>. QED BY <1>3, <1>4, <1>5 DEF AInv

-----------------------------------------------------------------------------
\* Steps that many actions share.

LEMMA StageSets ==
  /\ Entered \subseteq AttemptStages /\ Preparing \cup Activating \subseteq Entered
  /\ Pipeline \subseteq Entered
  /\ {"off", "acquire", "reclaim", "check", "renotify"} \subseteq AttemptStages \ Entered
BY DEF Entered, AttemptStages, Pipeline, Preparing, Activating, Recovering

LEMMA AbandonKeeps ==
  ASSUME ProcsAssumption, BoundsAssumption, AInv, NEW p \in Procs, NEW reason \in Reasons,
         Abandon(p, reason), UNCHANGED <<main, host, recent, crashes>>,
         reason = "host" \/ phase[p] \in Entered
  PROVE  AInv'
<1>1. AttemptTypeOK BY Types
<1>2. /\ phase' \in [Procs -> AttemptStages] /\ job' \in [Procs -> Jobs]
      /\ escalation' \in Markers /\ lock' \in Procs \cup {Free, Dead}
      /\ Aside(p) /\ phase'[p] = "off" /\ job'[p].target = Unknown
      /\ escalation'.class # "commit" /\ escalation'.to = Unknown
      /\ reason = "host" => escalation'.class = "host"
      /\ lock' = IF lock = p THEN Free ELSE lock
  BY <1>1, AbandonStep
<1>3. AttemptTypeOK' BY <1>1, <1>2 DEF AttemptTypeOK, host
<1>4. SchemaOK' BY Types DEF SchemaOK, SchemaCoversServices, host
<1>5. LatchOK' BY <1>2 DEF LatchOK
<1>6. phase' = [phase EXCEPT ![p] = "off"] BY DEF Abandon, Exit, Go
<1>7. job'[p].target <= main BY <1>1, <1>2, CommitFacts DEF AttemptTypeOK
<1>8. (lock # p => lock' = lock) /\ (lock = p => lock' \in {Free, Dead}) BY <1>2
<1>9. phase[p] \notin Entered =>
        /\ schema' = schema
        /\ HostFenced => escalation'.class = "host"
        /\ escalation'.class = "commit" =>
             escalation.class = "commit" /\ escalation'.to = escalation.to
  BY <1>2 DEF host
<1>. QED BY <1>2, <1>3, <1>4, <1>5, <1>6, <1>7, <1>8, <1>9, Leave

\* A job whose record changes, beside the jobs that stay.
LEMMA OneJob ==
  ASSUME AttemptTypeOK, NEW p \in Procs, NEW j \in Jobs, job' = [job EXCEPT ![p] = j],
         NEW w \in AttemptStages, phase' = [phase EXCEPT ![p] = w],
         escalation'.class = escalation.class
  PROVE  /\ job' \in [Procs -> Jobs] /\ job'[p] = j /\ Aside(p)
         /\ phase' \in [Procs -> AttemptStages] /\ phase'[p] = w
<1>1. job \in [Procs -> Jobs] /\ phase \in [Procs -> AttemptStages] BY DEF AttemptTypeOK
<1>2. \A q \in Procs : q # p => job'[q] = job[q] /\ phase'[q] = phase[q] BY <1>1
<1>. QED BY <1>1, <1>2 DEF Aside

LEMMA DepartKeeps ==
  ASSUME ProcsAssumption, BoundsAssumption, AInv, NEW p \in Procs, Exit(p), Forget(p),
         UNCHANGED <<main, host, crashes>>, recent' \in BOOLEAN,
         escalation' \in Markers, escalation'.class = escalation.class, escalation'.to = escalation.to
  PROVE  AInv'
<1>1. AttemptTypeOK BY Types
<1>2. phase' = [phase EXCEPT ![p] = "off"] /\ job' = [job EXCEPT ![p] = NoJob]
      /\ lock' = IF lock = p THEN Free ELSE lock
  BY DEF Exit, Go, Forget
<1>3. /\ job' \in [Procs -> Jobs] /\ job'[p] = NoJob /\ Aside(p)
      /\ phase' \in [Procs -> AttemptStages]
  BY <1>1, <1>2, OneJob, NoJobType, StageSets
<1>4. lock' \in Procs \cup {Free, Dead} BY <1>1, <1>2 DEF AttemptTypeOK
<1>5. AttemptTypeOK' BY <1>1, <1>3, <1>4 DEF AttemptTypeOK, host
<1>6. SchemaOK' BY Types DEF SchemaOK, SchemaCoversServices, host
<1>7. LatchOK' BY Types DEF LatchOK
<1>8. job'[p].target <= main BY <1>1, <1>3, NoJobType, CommitFacts DEF AttemptTypeOK
<1>9. (lock # p => lock' = lock) /\ (lock = p => lock' \in {Free, Dead}) BY <1>2
<1>10. schema' = schema BY DEF host
<1>11. HostFenced => escalation'.class = "host" BY DEF HostFenced
<1>. QED BY <1>2, <1>3, <1>5, <1>6, <1>7, <1>8, <1>9, <1>10, <1>11, Leave

\* A process moves within its attempt, and only its own record may change.
LEMMA MoveKeeps ==
  ASSUME ProcsAssumption, BoundsAssumption, AInv, NEW p \in Procs, phase[p] \in Entered,
         NEW w \in Entered, Go(p, w), UNCHANGED <<main, host, escalation, lock, recent, crashes>>,
         NEW j \in Jobs, job' = [job EXCEPT ![p] = j],
         j.target <= main,
         w \in Preparing \cup Activating => j.target \in Commits,
         w \in {"backup", "migrate"} => schema <= j.target,
         w \in {"quiet", "publish"} => j.target = schema,
         w # "target",
         w \in Preparing \cup Activating /\ escalation.class = "commit" => escalation.to < j.target
  PROVE  AInv'
<1>1. AttemptTypeOK BY Types
<1>2. phase' = [phase EXCEPT ![p] = w] BY DEF Go
<1>3. /\ job' \in [Procs -> Jobs] /\ job'[p] = j /\ Aside(p)
      /\ phase' \in [Procs -> AttemptStages] /\ phase'[p] = w
  BY <1>1, <1>2, OneJob, StageSets
<1>4. AttemptTypeOK' BY <1>1, <1>3 DEF AttemptTypeOK, host
<1>5. SchemaOK' /\ LatchOK' BY Types DEF SchemaOK, SchemaCoversServices, LatchOK, host
<1>6. Aims(p)' BY <1>3 DEF Aims, host
<1>7. Passes(p)' BY <1>3 DEF Passes
<1>. QED BY <1>2, <1>3, <1>4, <1>5, <1>6, <1>7, Inner

\* The same with the record untouched.
LEMMA PlainMoveKeeps ==
  ASSUME ProcsAssumption, BoundsAssumption, AInv, NEW p \in Procs, phase[p] \in Entered,
         NEW w \in Entered, Go(p, w),
         UNCHANGED <<main, host, escalation, lock, recent, crashes, job>>,
         w \in Preparing \cup Activating => phase[p] \in Preparing \cup Activating,
         w \in {"backup", "migrate"} => phase[p] \in {"backup", "migrate"},
         w \in {"quiet", "publish"} => phase[p] \in {"quiet", "publish"},
         w # "target"
  PROVE  AInv'
<1>1. job[p] \in Jobs /\ job' = [job EXCEPT ![p] = job[p]] BY Types
<1>2. Aims(p) /\ Passes(p) BY Types
<1>. QED BY <1>1, <1>2, MoveKeeps DEF Aims, Passes

\* A process passes the marker.
LEMMA EnterKeeps ==
  ASSUME ProcsAssumption, BoundsAssumption, AInv, NEW p \in Procs,
         phase[p] \in {"check", "renotify"}, NEW w \in {"supersede", "target"}, Go(p, w),
         UNCHANGED <<main, host, lock, recent, crashes>>,
         NEW j \in Jobs, job' = [job EXCEPT ![p] = j], j.target = job[p].target,
         escalation' \in Markers, escalation'.class = escalation.class, escalation'.to = escalation.to,
         ~HostFenced, w = "target" => escalation.class # "commit"
  PROVE  AInv'
<1>1. AttemptTypeOK BY Types
<1>2. phase' = [phase EXCEPT ![p] = w] /\ w \in Entered BY DEF Go, Entered
<1>3. /\ job' \in [Procs -> Jobs] /\ job'[p] = j /\ Aside(p)
      /\ phase' \in [Procs -> AttemptStages] /\ phase'[p] = w
  BY <1>1, <1>2, OneJob, StageSets
<1>4. AttemptTypeOK' BY <1>1, <1>3 DEF AttemptTypeOK, host
<1>5. LatchOK' BY Types DEF LatchOK
<1>6. w \notin Preparing \cup Activating BY DEF Preparing, Activating
<1>7. Aims(p)' BY <1>3, <1>6, Types DEF Aims
<1>8. Passes(p)' BY <1>3, <1>6 DEF Passes
<1>. QED BY <1>2, <1>3, <1>4, <1>5, <1>7, <1>8, Enter

LEMMA MarkedRecord ==
  ASSUME escalation \in Markers, Marked
  PROVE  escalation \in [class : Classes, to : Commits \cup {Unknown}, attempts : 0..RetryCap,
                         due : BOOLEAN, told : BOOLEAN]
BY DEF Markers, Marked, NoMarker

LEMMA LatchKeeps ==
  ASSUME ProcsAssumption, BoundsAssumption, AInv, NEW p \in Procs,
         phase[p] \in {"check", "renotify"}, Latch(p),
         UNCHANGED <<main, host, recent, crashes>>,
         escalation' \in Markers, escalation'.class = escalation.class, escalation'.to = escalation.to
  PROVE  AInv'
<1>1. CASE escalation.class = "commit"
  <2>1. Go(p, "supersede") /\ lock' = lock /\ job' = job BY <1>1 DEF Latch
  <2>2. job[p] \in Jobs /\ job' = [job EXCEPT ![p] = job[p]] BY <2>1, Types
  <2>3. ~HostFenced BY <1>1 DEF HostFenced
  <2>. QED BY <2>1, <2>2, <2>3, EnterKeeps
<1>2. CASE escalation.class # "commit"
  <2>1. Exit(p) /\ Forget(p) BY <1>2 DEF Latch
  <2>2. recent' \in BOOLEAN BY Types DEF AttemptTypeOK
  <2>. QED BY <2>1, <2>2, DepartKeeps
<1>. QED BY <1>1, <1>2

-----------------------------------------------------------------------------
\* The invocation.

LEMMA LaunchKeeps ==
  ASSUME ProcsAssumption, BoundsAssumption, AInv, NEW p \in Procs, Launch(p)
  PROVE  AInv'
<1>1. CASE Abandon(p, "host")
  BY <1>1, AbandonKeeps DEF Launch, Reasons
<1>2. CASE /\ \E auto \in BOOLEAN : job' = [job EXCEPT ![p].auto = auto]
           /\ Go(p, "acquire") /\ UNCHANGED <<escalation, lock>>
  <2>1. PICK auto \in BOOLEAN : job' = [job EXCEPT ![p].auto = auto] BY <1>2
  <2>. DEFINE j == [job[p] EXCEPT !.auto = auto]
  <2>2. j \in Jobs /\ j.target = job[p].target BY Types DEF Jobs
  <2>3. job' = [job EXCEPT ![p] = j] BY <2>1
  <2>. HIDE DEF j
  <2>4. phase' = [phase EXCEPT ![p] = "acquire"] /\ phase[p] = "off" BY <1>2 DEF Go, Launch
  <2>5. /\ job' \in [Procs -> Jobs] /\ job'[p] = j /\ Aside(p)
        /\ phase' \in [Procs -> AttemptStages] /\ phase'[p] = "acquire"
    BY <1>2, <2>2, <2>3, <2>4, Types, OneJob, StageSets
  <2>6. AttemptTypeOK' BY <1>2, <2>5, Types DEF AttemptTypeOK, host, Launch
  <2>7. LatchOK' BY <1>2, Types DEF LatchOK, Launch
  <2>8. job'[p].target <= main BY <2>2, <2>5, Types DEF Aims
  <2>9. Waits(p)' BY <2>5 DEF Waits
  <2>10. UNCHANGED <<main, host>> BY DEF Launch
  <2>. QED BY <1>2, <2>4, <2>5, <2>6, <2>7, <2>8, <2>9, <2>10, Wait, StageSets DEF HostFenced
<1>. QED BY <1>1, <1>2 DEF Launch

LEMMA TryLockKeeps ==
  ASSUME ProcsAssumption, BoundsAssumption, AInv, NEW p \in Procs, TryLock(p)
  PROVE  AInv'
<1>1. /\ phase[p] = "acquire" /\ UNCHANGED <<main, host, escalation, recent, crashes>>
  BY DEF TryLock
<1>2. CASE lock \in Procs /\ Exit(p) /\ job' = [job EXCEPT ![p] = NoJob]
  BY <1>1, <1>2, Types, DepartKeeps DEF Forget, AttemptTypeOK
<1>3. ASSUME NEW w \in {"check", "reclaim"}, Go(p, w), job' = job,
             \/ w = "check" /\ lock = Free /\ lock' = p
             \/ w = "reclaim" /\ lock = Dead /\ lock' = lock
      PROVE AInv'
  <2>1. phase' = [phase EXCEPT ![p] = w] /\ job' = [job EXCEPT ![p] = job[p]] /\ job[p] \in Jobs
    BY <1>3, Types DEF Go
  <2>2. /\ job' \in [Procs -> Jobs] /\ job'[p] = job[p] /\ Aside(p)
        /\ phase' \in [Procs -> AttemptStages] /\ phase'[p] = w
    BY <1>1, <2>1, Types, OneJob, StageSets
  <2>3. lock' \in Procs \cup {Free, Dead} BY <1>3
  <2>4. AttemptTypeOK' BY <1>1, <2>2, <2>3, Types DEF AttemptTypeOK, host
  <2>5. LatchOK' BY <1>1, Types DEF LatchOK
  <2>6. job'[p].target <= main BY <2>2, Types DEF Aims
  <2>7. Waits(p)' BY <1>3, <2>2 DEF Waits
  <2>8. lock \notin Procs BY <1>3, ProcsAssumption DEF ProcsAssumption
  <2>9. lock' = lock \/ lock = Free BY <1>3
  <2>10. w \notin Entered /\ phase[p] \notin Entered BY <1>1, StageSets
  <2>11. HostFenced => escalation'.class = "host" BY <1>1 DEF HostFenced
  <2>12. escalation'.class = "commit" =>
           escalation.class = "commit" /\ escalation'.to = escalation.to
    BY <1>1
  <2>. QED BY <1>1, <2>1, <2>2, <2>4, <2>5, <2>6, <2>7, <2>8, <2>9, <2>10, <2>11, <2>12, Wait
<1>. QED BY <1>2, <1>3 DEF TryLock

LEMMA ReclaimKeeps ==
  ASSUME ProcsAssumption, BoundsAssumption, AInv, NEW p \in Procs, Reclaim(p)
  PROVE  AInv'
<1>1. /\ phase[p] = "reclaim" /\ UNCHANGED <<main, host, recent, crashes>>
  BY DEF Reclaim
<1>2. CASE lock = Free
  <2>0. lock' = p /\ Go(p, "check") /\ escalation' = escalation /\ job' = job
    BY <1>2 DEF Reclaim
  <2>1. phase' = [phase EXCEPT ![p] = "check"] /\ job' = [job EXCEPT ![p] = job[p]] /\ job[p] \in Jobs
    BY <2>0, Types DEF Go
  <2>2. /\ job' \in [Procs -> Jobs] /\ job'[p] = job[p] /\ Aside(p)
        /\ phase' \in [Procs -> AttemptStages] /\ phase'[p] = "check"
    BY <2>0, <2>1, Types, OneJob, StageSets
  <2>4. AttemptTypeOK' BY <1>1, <2>0, <2>2, Types DEF AttemptTypeOK, host
  <2>5. LatchOK' BY <1>1, <2>0, Types DEF LatchOK
  <2>6. job'[p].target <= main BY <2>2, Types DEF Aims
  <2>7. Waits(p)' BY <2>0, <2>2 DEF Waits
  <2>8. lock \notin Procs BY <1>2, ProcsAssumption DEF ProcsAssumption
  <2>10. "check" \notin Entered /\ phase[p] \notin Entered BY <1>1, StageSets
  <2>11. HostFenced => escalation'.class = "host" BY <2>0 DEF HostFenced
  <2>. QED BY <1>1, <1>2, <2>0, <2>1, <2>2, <2>4, <2>5, <2>6, <2>7, <2>8, <2>10, <2>11, Wait
<1>3. CASE lock # Free
  <2>. DEFINE jobs == [job EXCEPT ![p] = NoJob]
  <2>1. PICK told \in BOOLEAN : escalation' = Escalated("host", Unknown, TRUE, told)
    BY <1>3 DEF Reclaim
  <2>2. lock' = Free /\ phase' = [phase EXCEPT ![p] = "off"] /\ job' = Replaced(jobs)
    BY <1>3 DEF Reclaim, Go
  <2>3. jobs \in [Procs -> Jobs] /\ jobs[p] = NoJob /\ \A q \in Procs : q # p => jobs[q] = job[q]
    BY NoJobType, Types
  <2>. HIDE DEF jobs
  <2>4. escalation' \in Markers /\ escalation'.class = "host"
    <3>1. Scope("host", Unknown, TRUE) = "host" BY DEF Scope
    <3>. QED BY <2>1, <3>1, EscalatedType, Types
  <2>5. Aside(p) /\ job' \in [Procs -> Jobs] /\ job'[p].target = Unknown
    BY <2>2, <2>3, ReplacedType, NoJobType, Types DEF Aside
  <2>6. phase' \in [Procs -> AttemptStages] /\ phase'[p] = "off" BY <2>2, Types, StageSets
  <2>7. AttemptTypeOK' BY <1>1, <2>2, <2>4, <2>5, <2>6, Types DEF AttemptTypeOK, host
  <2>8. LatchOK' BY <2>4 DEF LatchOK
  <2>9. job'[p].target <= main BY <2>5, Types, CommitFacts
  <2>10. Waits(p)' BY <2>6 DEF Waits
  <2>11. "off" \notin Entered /\ phase[p] \notin Entered BY <1>1, StageSets
  <2>. QED BY <1>1, <2>2, <2>4, <2>5, <2>7, <2>8, <2>9, <2>10, <2>11, Wait
<1>. QED BY <1>2, <1>3

LEMMA CheckKeeps ==
  ASSUME ProcsAssumption, BoundsAssumption, AInv, NEW p \in Procs, Check(p)
  PROVE  AInv'
<1>1. /\ phase[p] = "check" /\ UNCHANGED <<main, host, escalation, recent, crashes>>
      /\ escalation' \in Markers
  BY Types DEF Check
<1>2. CASE ~Marked /\ Go(p, "target") /\ UNCHANGED <<lock, job>>
  <2>1. job' = [job EXCEPT ![p] = job[p]] /\ job[p] \in Jobs BY <1>2, Types
  <2>2. ~HostFenced /\ escalation.class # "commit" BY <1>2 DEF HostFenced, Marked
  <2>. QED BY <1>1, <1>2, <2>1, <2>2, EnterKeeps
<1>3. CASE /\ Marked /\ ~escalation.told
           /\ Go(p, "renotify") /\ job' = [job EXCEPT ![p].seen = "same", ![p].retry = MayRetry]
           /\ UNCHANGED lock
  <2>. DEFINE j == [job[p] EXCEPT !.seen = "same", !.retry = MayRetry]
  <2>0. MayRetry \in BOOLEAN
    <3>1. escalation.due \in BOOLEAN BY <1>3, Types, MarkedRecord
    <3>. QED BY <3>1 DEF MayRetry
  <2>1. j \in Jobs /\ j.target = job[p].target /\ j.retry = MayRetry BY <2>0, Types DEF Jobs
  <2>2. job' = [job EXCEPT ![p] = j] BY <1>3
  <2>. HIDE DEF j
  <2>3. phase' = [phase EXCEPT ![p] = "renotify"] BY <1>3 DEF Go
  <2>4. /\ job' \in [Procs -> Jobs] /\ job'[p] = j /\ Aside(p)
        /\ phase' \in [Procs -> AttemptStages] /\ phase'[p] = "renotify"
    BY <1>1, <2>1, <2>2, <2>3, Types, OneJob, StageSets
  <2>5. AttemptTypeOK' BY <1>1, <1>3, <2>4, Types DEF AttemptTypeOK, host
  <2>6. LatchOK' BY <1>1, Types DEF LatchOK
  <2>7. job'[p].target <= main BY <2>1, <2>4, Types DEF Aims
  <2>8. Waits(p)'
    <3>1. lock = p \/ HostFenced BY <1>1, Types DEF Waits
    <3>. QED BY <1>1, <1>3, <2>1, <2>4, <3>1 DEF Waits, HostFenced, MayRetry
  <2>9. "renotify" \notin Entered /\ phase[p] \notin Entered BY <1>1, StageSets
  <2>10. HostFenced => escalation'.class = "host" BY <1>1 DEF HostFenced
  <2>. QED BY <1>1, <1>3, <2>3, <2>4, <2>5, <2>6, <2>7, <2>8, <2>9, <2>10, Wait
<1>4. CASE /\ Marked /\ escalation.told /\ MayRetry
           /\ Go(p, "target") /\ job' = [job EXCEPT ![p].seen = "same", ![p].retry = TRUE]
           /\ UNCHANGED lock
  <2>. DEFINE j == [job[p] EXCEPT !.seen = "same", !.retry = TRUE]
  <2>1. j \in Jobs /\ j.target = job[p].target BY Types DEF Jobs
  <2>2. job' = [job EXCEPT ![p] = j] BY <1>4
  <2>. HIDE DEF j
  <2>3. ~HostFenced /\ escalation.class # "commit" BY <1>4 DEF HostFenced, MayRetry
  <2>. QED BY <1>1, <1>4, <2>1, <2>2, <2>3, EnterKeeps
<1>5. CASE Latch(p) BY <1>1, <1>5, LatchKeeps
<1>. QED BY <1>2, <1>3, <1>4, <1>5 DEF Check

LEMMA TellTypes ==
  ASSUME AttemptTypeOK, Marked, NEW t \in BOOLEAN, escalation' = [escalation EXCEPT !.told = t]
  PROVE  escalation' \in Markers /\ escalation'.class = escalation.class /\ escalation'.to = escalation.to
         /\ escalation.told \in BOOLEAN
<1>1. escalation \in [class : Classes, to : Commits \cup {Unknown}, attempts : 0..RetryCap,
                      due : BOOLEAN, told : BOOLEAN]
  BY DEF AttemptTypeOK, Markers, Marked, NoMarker
<1>. QED BY <1>1 DEF Markers

LEMMA RetryKeeps ==
  ASSUME ProcsAssumption, BoundsAssumption, AInv, NEW p \in Procs, Retry(p)
  PROVE  AInv'
<1>1. /\ phase[p] = "renotify" /\ job[p].retry /\ UNCHANGED <<main, host, recent, crashes>>
  BY DEF Retry
<1>2. CASE ~Marked
  <2>1. Go(p, "target") /\ job' = [job EXCEPT ![p].retry = FALSE, ![p].seen = "none"]
        /\ UNCHANGED <<lock, escalation>>
    BY <1>2 DEF Retry
  <2>. DEFINE j == [job[p] EXCEPT !.retry = FALSE, !.seen = "none"]
  <2>2. j \in Jobs /\ j.target = job[p].target BY Types DEF Jobs
  <2>3. job' = [job EXCEPT ![p] = j] BY <2>1
  <2>. HIDE DEF j
  <2>4. ~HostFenced /\ escalation.class # "commit" BY <1>2 DEF HostFenced, Marked
  <2>5. escalation' \in Markers BY <2>1, Types
  <2>. QED BY <1>1, <2>1, <2>2, <2>3, <2>4, <2>5, EnterKeeps
<1>3. CASE Marked
  <2>1. PICK told \in BOOLEAN : escalation' = [escalation EXCEPT !.told = @ \/ told]
    BY <1>3 DEF Retry
  <2>2. escalation' \in Markers /\ escalation'.class = escalation.class /\ escalation'.to = escalation.to
    BY <1>3, <2>1, Types, TellTypes
  <2>3. CASE job[p].seen = "same"
    <3>1. Go(p, "target") /\ lock' = lock /\ job' = job BY <1>3, <2>3 DEF Retry
    <3>2. job' = [job EXCEPT ![p] = job[p]] /\ job[p] \in Jobs BY <3>1, Types
    <3>3. escalation.class = "transient" BY <1>1, <2>3, Types DEF Waits
    <3>4. ~HostFenced BY <3>3 DEF HostFenced
    <3>. QED BY <1>1, <2>2, <3>1, <3>2, <3>3, <3>4, EnterKeeps
  <2>4. CASE job[p].seen # "same"
    <3>1. Exit(p) /\ Forget(p) BY <1>3, <2>4 DEF Retry
    <3>2. recent' \in BOOLEAN BY <1>1, Types DEF AttemptTypeOK
    <3>. QED BY <1>1, <2>2, <3>1, <3>2, DepartKeeps
  <2>. QED BY <2>3, <2>4
<1>. QED BY <1>2, <1>3

LEMMA LatchedKeeps ==
  ASSUME ProcsAssumption, BoundsAssumption, AInv, NEW p \in Procs, Latched(p)
  PROVE  AInv'
<1>1. /\ phase[p] = "renotify" /\ UNCHANGED <<main, host, recent, crashes>>
  BY DEF Latched
<1>2. CASE Abandon(p, "host") BY <1>1, <1>2, AbandonKeeps DEF Reasons
<1>3. CASE /\ Marked
           /\ escalation' = [escalation EXCEPT !.told = TRUE]
           /\ IF job[p].seen = "same" THEN Latch(p) ELSE Exit(p) /\ Forget(p)
  <2>2. escalation' \in Markers /\ escalation'.class = escalation.class /\ escalation'.to = escalation.to
    BY <1>3, Types, TellTypes
  <2>3. CASE Latch(p) BY <1>1, <2>2, <2>3, LatchKeeps
  <2>4. CASE Exit(p) /\ Forget(p)
    BY <1>1, <2>2, <2>4, Types, DepartKeeps DEF AttemptTypeOK
  <2>. QED BY <1>3, <2>3, <2>4
<1>. QED BY <1>2, <1>3 DEF Latched

LEMMA SupersedeKeeps ==
  ASSUME ProcsAssumption, BoundsAssumption, AInv, NEW p \in Procs, Supersede(p)
  PROVE  AInv'
<1>1. /\ phase[p] = "supersede" /\ phase[p] \in Entered
      /\ UNCHANGED <<main, host, escalation, recent, crashes>>
  BY DEF Supersede, Entered
<1>2. CASE /\ main # escalation.to
           /\ Go(p, "prefix") /\ job' = [job EXCEPT ![p].target = main, ![p].seen = "none"]
           /\ UNCHANGED lock
  <2>. DEFINE j == [job[p] EXCEPT !.target = main, !.seen = "none"]
  <2>1. j \in Jobs /\ j.target = main BY Types DEF Jobs
  <2>2. job' = [job EXCEPT ![p] = j] BY <1>2
  <2>. HIDE DEF j
  <2>3. main \in Nat /\ main \in Commits BY Types, CommitFacts
  <2>4. escalation.class = "commit" => escalation.to < main
    <3>. SUFFICES ASSUME escalation.class = "commit" PROVE escalation.to < main OBVIOUS
    <3>1. escalation.to <= main BY Types DEF LatchOK
    <3>2. escalation.to \in Nat
      <4>1. Marked BY DEF Marked
      <4>. QED BY <4>1, Types, MarkedRecord, CommitFacts
    <3>. QED BY <1>2, <2>3, <3>1, <3>2
  <2>5. "prefix" \in Entered BY DEF Entered, Pipeline, Preparing
  <2>6. j.target <= main BY <2>1, <2>3
  <2>. QED BY <1>1, <1>2, <2>1, <2>2, <2>3, <2>4, <2>5, <2>6, MoveKeeps
<1>3. CASE Exit(p) /\ Forget(p)
  BY <1>1, <1>3, Types, DepartKeeps DEF AttemptTypeOK
<1>. QED BY <1>2, <1>3 DEF Supersede

LEMMA ReadTargetKeeps ==
  ASSUME ProcsAssumption, BoundsAssumption, AInv, NEW p \in Procs, ReadTarget(p)
  PROVE  AInv'
<1>1. /\ phase[p] = "target" /\ phase[p] \in Entered
      /\ UNCHANGED <<main, host, recent, crashes>>
  BY DEF ReadTarget, Entered
<1>2. CASE \E reason \in {"transient", "host"} : Abandon(p, reason)
  <2>1. PICK reason \in {"transient", "host"} : Abandon(p, reason) BY <1>2
  <2>2. reason \in Reasons BY <2>1 DEF Reasons
  <2>. QED BY <1>1, <2>1, <2>2, AbandonKeeps
<1>3. CASE Exit(p) /\ Forget(p) /\ UNCHANGED escalation
  BY <1>1, <1>3, Types, DepartKeeps DEF AttemptTypeOK
<1>4. CASE /\ Go(p, "prefix")
           /\ job' = [job EXCEPT ![p].target = main,
                                 ![p].early = recent /\ job[p].auto /\ main # current]
           /\ UNCHANGED <<escalation, lock>>
  <2>. DEFINE e == recent /\ job[p].auto /\ main # current
              j == [job[p] EXCEPT !.target = main, !.early = e]
  <2>0. recent \in BOOLEAN /\ job[p].auto \in BOOLEAN BY Types DEF AttemptTypeOK, Jobs
  <2>1. e \in BOOLEAN BY <2>0
  <2>2. job' = [job EXCEPT ![p] = j] BY <1>4
  <2>. HIDE DEF e
  <2>3. j \in Jobs /\ j.target = main BY <2>1, Types DEF Jobs
  <2>. HIDE DEF j
  <2>4. main \in Nat /\ main \in Commits BY Types, CommitFacts
  <2>5. escalation.class # "commit" BY <1>1, Types DEF Passes
  <2>6. "prefix" \in Entered BY DEF Entered, Pipeline, Preparing
  <2>7. j.target <= main BY <2>3, <2>4
  <2>. QED BY <1>1, <1>4, <2>2, <2>3, <2>4, <2>5, <2>6, <2>7, MoveKeeps
<1>. QED BY <1>2, <1>3, <1>4 DEF ReadTarget

-----------------------------------------------------------------------------
\* The phases.

LEMMA ReadRevisionsKeeps ==
  ASSUME ProcsAssumption, BoundsAssumption, AInv, NEW p \in Procs, ReadRevisions(p)
  PROVE  AInv'
<1>. DEFINE j == [job[p] EXCEPT !.from = current]
            w == IF current = job[p].target THEN "selfclear" ELSE "artifact"
<1>1. /\ phase[p] = "prefix" /\ phase[p] \in Entered /\ phase[p] \in Preparing
      /\ w \in Entered
  BY DEF ReadRevisions, Entered, Pipeline, Preparing
<1>2. /\ Go(p, w) /\ job' = [job EXCEPT ![p] = j]
      /\ UNCHANGED <<main, host, escalation, lock, recent, crashes>>
  BY DEF ReadRevisions
<1>3. j \in Jobs /\ j.target = job[p].target BY Types DEF Jobs
<1>4. Aims(p) /\ Passes(p) BY Types
<1>5. w \in {"selfclear", "artifact"} BY DEF Preparing, Activating
<1>6. j.target <= main /\ j.target \in Commits
      /\ (escalation.class = "commit" => escalation.to < j.target)
  BY <1>1, <1>3, <1>4 DEF Aims, Passes
<1>. HIDE DEF j, w
<1>. QED BY <1>1, <1>2, <1>3, <1>5, <1>6, MoveKeeps

LEMMA BuildArtifactKeeps ==
  ASSUME ProcsAssumption, BoundsAssumption, AInv, NEW p \in Procs, BuildArtifact(p)
  PROVE  AInv'
<1>. DEFINE j == [job[p] EXCEPT !.facts = @ \cup {"upgrade"}]
<1>1. /\ phase[p] = "artifact" /\ phase[p] \in Entered /\ phase[p] \in Preparing
      /\ "window" \in Entered
  BY DEF BuildArtifact, Entered, Pipeline, Preparing
<1>2. /\ Go(p, "window") /\ job' = [job EXCEPT ![p] = j]
      /\ UNCHANGED <<main, host, escalation, lock, recent, crashes>>
  BY DEF BuildArtifact, Know
<1>3. j \in Jobs /\ j.target = job[p].target BY Types DEF Jobs, Facts
<1>4. Aims(p) /\ Passes(p) BY Types
<1>6. j.target <= main /\ j.target \in Commits
      /\ (escalation.class = "commit" => escalation.to < j.target)
  BY <1>1, <1>3, <1>4 DEF Aims, Passes
<1>. HIDE DEF j
<1>. QED BY <1>1, <1>2, <1>3, <1>6, MoveKeeps

LEMMA AcquireWindowKeeps ==
  ASSUME ProcsAssumption, BoundsAssumption, AInv, NEW p \in Procs, AcquireWindow(p)
  PROVE  AInv'
<1>1. /\ phase[p] = "window" /\ phase[p] \in Entered /\ phase[p] \in Preparing
      /\ "backup" \in Entered /\ "release" \in Entered
      /\ UNCHANGED <<main, host, escalation, lock, recent, crashes>>
  BY DEF AcquireWindow, Entered, Pipeline, Preparing
<1>2. Aims(p) /\ Passes(p) /\ SchemaOK BY Types
<1>3. CASE Go(p, "backup") /\ job' = [job EXCEPT ![p].target = main]
  <2>. DEFINE j == [job[p] EXCEPT !.target = main]
  <2>1. j \in Jobs /\ j.target = main BY Types DEF Jobs
  <2>2. job' = [job EXCEPT ![p] = j] BY <1>3
  <2>. HIDE DEF j
  <2>3. main \in Nat /\ main \in Commits BY Types, CommitFacts
  <2>4. job[p].target <= main /\ job[p].target \in Nat BY <1>1, <1>2, CommitFacts DEF Aims
  <2>5. escalation.class = "commit" => escalation.to < main
    <3>. SUFFICES ASSUME escalation.class = "commit" PROVE escalation.to < main OBVIOUS
    <3>1. Marked BY DEF Marked
    <3>2. escalation.to \in Nat BY <3>1, Types, MarkedRecord, CommitFacts
    <3>3. escalation.to < job[p].target BY <1>1, <1>2 DEF Passes
    <3>. QED BY <2>3, <2>4, <3>2, <3>3
  <2>6. schema <= main BY <1>2 DEF SchemaOK
  <2>7. j.target <= main BY <2>1, <2>3
  <2>. QED BY <1>1, <1>3, <2>1, <2>2, <2>3, <2>5, <2>6, <2>7, MoveKeeps
<1>4. CASE Go(p, "release") /\ UNCHANGED job
  <2>1. "release" \notin Preparing \cup Activating BY DEF Preparing, Activating
  <2>. QED BY <1>1, <1>4, <2>1, PlainMoveKeeps
<1>. QED BY <1>3, <1>4 DEF AcquireWindow

LEMMA BackupKeeps ==
  ASSUME ProcsAssumption, BoundsAssumption, AInv, NEW p \in Procs, Backup(p)
  PROVE  AInv'
<1>1. /\ phase[p] = "backup" /\ phase[p] \in Entered /\ phase[p] \in Preparing
      /\ "migrate" \in Entered
  BY DEF Backup, Entered, Pipeline, Preparing
<1>. QED BY <1>1, PlainMoveKeeps DEF Backup

LEMMA AssertStillQuietKeeps ==
  ASSUME ProcsAssumption, BoundsAssumption, AInv, NEW p \in Procs, AssertStillQuiet(p)
  PROVE  AInv'
<1>1. /\ phase[p] = "quiet" /\ phase[p] \in Entered /\ phase[p] \in Preparing
      /\ "publish" \in Entered
  BY DEF AssertStillQuiet, Entered, Pipeline, Preparing, Activating
<1>. QED BY <1>1, PlainMoveKeeps DEF AssertStillQuiet

LEMMA RestartsDoneKeeps ==
  ASSUME ProcsAssumption, BoundsAssumption, AInv, NEW p \in Procs, RestartsDone(p)
  PROVE  AInv'
<1>. DEFINE w == IF phase[p] = "restart" THEN "verify" ELSE "settle"
<1>1. /\ phase[p] \in {"restart", "restore"} /\ phase[p] \in Entered /\ w \in Entered
  BY DEF RestartsDone, Entered, Pipeline, Activating, Recovering
<1>2. w \in Preparing \cup Activating => phase[p] \in Preparing \cup Activating
  BY <1>1 DEF Preparing, Activating
<1>3. w \in {"verify", "settle"} OBVIOUS
<1>4. Go(p, w) /\ UNCHANGED <<main, host, escalation, lock, recent, crashes, job>>
  BY DEF RestartsDone
<1>. HIDE DEF w
<1>. QED BY <1>1, <1>2, <1>3, <1>4, PlainMoveKeeps

LEMMA VerifyServicesKeeps ==
  ASSUME ProcsAssumption, BoundsAssumption, AInv, NEW p \in Procs, VerifyServices(p)
  PROVE  AInv'
<1>1. /\ phase[p] = "verify" /\ phase[p] \in Entered /\ phase[p] \in Activating
      /\ "announce" \in Entered
  BY DEF VerifyServices, Entered, Pipeline, Activating
<1>. QED BY <1>1, PlainMoveKeeps DEF VerifyServices

LEMMA AnnounceKeeps ==
  ASSUME ProcsAssumption, BoundsAssumption, AInv, NEW p \in Procs, Announce(p)
  PROVE  AInv'
<1>1. /\ phase[p] = "announce" /\ phase[p] \in Entered
      /\ "selfclear" \in Entered /\ "selfclear" \notin Preparing \cup Activating
  BY DEF Announce, Entered, Pipeline, Preparing, Activating
<1>. QED BY <1>1, PlainMoveKeeps DEF Announce

\* The database and the pointers change, the marker does not.
LEMMA HostKeeps ==
  ASSUME ProcsAssumption, BoundsAssumption, AInv, NEW p \in Procs, phase[p] \in Entered,
         NEW w \in Entered, Go(p, w), UNCHANGED <<main, escalation, lock, recent, crashes>>,
         NEW j \in Jobs, job' = [job EXCEPT ![p] = j],
         current' \in Commits, previous' \in Commits \cup {Unknown},
         serving' \in [Units -> Commits], schema' \in Commits,
         SchemaOK',
         j.target <= main,
         w \in Preparing \cup Activating => j.target \in Commits,
         w \notin {"backup", "migrate"},
         w \in {"quiet", "publish"} => j.target = schema',
         w # "target",
         w \in Preparing \cup Activating => phase[p] \in Preparing \cup Activating,
         j.target = job[p].target
  PROVE  AInv'
<1>1. AttemptTypeOK BY Types
<1>2. phase' = [phase EXCEPT ![p] = w] BY DEF Go
<1>3. /\ job' \in [Procs -> Jobs] /\ job'[p] = j /\ Aside(p)
      /\ phase' \in [Procs -> AttemptStages] /\ phase'[p] = w
  BY <1>1, <1>2, OneJob, StageSets
<1>4. AttemptTypeOK' BY <1>1, <1>3 DEF AttemptTypeOK
<1>5. LatchOK' BY Types DEF LatchOK
<1>6. Aims(p)' BY <1>3 DEF Aims
<1>7. Passes(p)'
  <2>1. Passes(p) BY Types
  <2>. QED BY <1>3, <2>1 DEF Passes
<1>. QED BY <1>2, <1>3, <1>4, <1>5, <1>6, <1>7, Inner

\* What SchemaOK says of numbers.
LEMMA SchemaNumbers ==
  ASSUME BoundsAssumption, AInv
  PROVE  /\ main \in Nat /\ current \in Nat /\ previous \in Nat /\ schema \in Nat
         /\ \A u \in Units : serving[u] \in Nat /\ serving[u] <= schema
         /\ previous <= schema /\ schema <= main /\ current <= schema
         /\ \A q \in Procs : job[q].target \in Nat /\ job[q].target <= main
<1>1. \A u \in Units : serving[u] \in Nat BY Types, CommitFacts
<1>2. \A q \in Procs : job[q].target \in Nat BY Types, CommitFacts DEF Jobs
<1>3. main \in Nat /\ current \in Nat /\ previous \in Nat /\ schema \in Nat BY Types, CommitFacts
<1>. QED BY <1>1, <1>2, <1>3, Types DEF SchemaOK, SchemaCoversServices, Aims

LEMMA MigrateKeeps ==
  ASSUME ProcsAssumption, BoundsAssumption, AInv, NEW p \in Procs, Migrate(p)
  PROVE  AInv'
<1>1. /\ phase[p] = "migrate" /\ phase[p] \in Entered /\ phase[p] \in Preparing
      /\ "quiet" \in Entered
  BY DEF Migrate, Entered, Pipeline, Preparing
<1>2. /\ schema' = job[p].target /\ Go(p, "quiet")
      /\ UNCHANGED <<main, current, previous, serving, escalation, lock, recent, crashes, job>>
  BY DEF Migrate
<1>3. schema <= job[p].target /\ job[p].target \in Commits BY <1>1, Types DEF Aims
<1>4. SchemaOK' BY <1>2, <1>3, SchemaNumbers DEF SchemaOK, SchemaCoversServices
<1>5. job[p] \in Jobs /\ job' = [job EXCEPT ![p] = job[p]] BY <1>2, Types
<1>6. job[p].target <= main BY SchemaNumbers
<1>. QED BY <1>1, <1>2, <1>3, <1>4, <1>5, <1>6, Types, HostKeeps

LEMMA MigrationFailsKeeps ==
  ASSUME ProcsAssumption, BoundsAssumption, AInv, NEW p \in Procs, MigrationFails(p)
  PROVE  AInv'
<1>1. /\ phase[p] = "migrate" /\ phase[p] \in Entered
      /\ "failed" \in Entered /\ "failed" \notin Preparing \cup Activating
  BY DEF MigrationFails, Entered, Pipeline, Preparing, Activating, Recovering
<1>2. PICK reason \in FailsWith("migrate") : job' = [job EXCEPT ![p].reason = reason]
  BY DEF MigrationFails
<1>. DEFINE j == [job[p] EXCEPT !.reason = reason]
<1>3. job' = [job EXCEPT ![p] = j] BY <1>2
<1>4. j \in Jobs /\ j.target = job[p].target
  <2>1. reason \in Reasons BY <1>2 DEF FailsWith, Reasons
  <2>. QED BY <2>1, Types DEF Jobs
<1>. HIDE DEF j
<1>5. /\ schema' \in {schema, job[p].target} /\ Go(p, "failed")
      /\ UNCHANGED <<main, current, previous, serving, escalation, lock, recent, crashes>>
  BY DEF MigrationFails
<1>6. schema <= job[p].target /\ job[p].target \in Commits /\ job[p].target <= main
  <2>1. Aims(p) BY Types
  <2>2. phase[p] \in Preparing BY <1>1 DEF Preparing
  <2>. QED BY <1>1, <2>1, <2>2 DEF Aims
<1>7. SchemaOK' BY <1>5, <1>6, SchemaNumbers DEF SchemaOK, SchemaCoversServices
<1>. QED BY <1>1, <1>3, <1>4, <1>5, <1>6, <1>7, Types, HostKeeps

LEMMA PublishKeeps ==
  ASSUME ProcsAssumption, BoundsAssumption, AInv, NEW p \in Procs, Publish(p)
  PROVE  AInv'
<1>1. /\ phase[p] = "publish" /\ phase[p] \in Entered /\ phase[p] \in Activating
      /\ "restart" \in Entered
  BY DEF Publish, Entered, Pipeline, Activating
<1>. DEFINE j == [job[p] EXCEPT !.facts = @ \cup {"activated", "proven", "deployed"}, !.todo = Units]
<1>2. job' = [job EXCEPT ![p] = j] BY DEF Publish
<1>3. j \in Jobs /\ j.target = job[p].target BY Types DEF Jobs, Facts
<1>. HIDE DEF j
<1>4. /\ current' = job[p].target /\ previous' \in {previous, current} /\ Go(p, "restart")
      /\ UNCHANGED <<main, serving, schema, escalation, lock, recent, crashes>>
  BY DEF Publish
<1>5. job[p].target = schema /\ job[p].target \in Commits BY <1>1, Types DEF Aims
<1>6. SchemaOK' BY <1>4, <1>5, SchemaNumbers DEF SchemaOK, SchemaCoversServices
<1>7. job[p].target <= main BY SchemaNumbers
<1>. QED BY <1>1, <1>2, <1>3, <1>4, <1>5, <1>6, <1>7, Types, HostKeeps

LEMMA PublishFailsKeeps ==
  ASSUME ProcsAssumption, BoundsAssumption, AInv, NEW p \in Procs, PublishFails(p)
  PROVE  AInv'
<1>1. /\ phase[p] = "publish" /\ phase[p] \in Entered /\ phase[p] \in Activating
      /\ "failed" \in Entered /\ "failed" \notin Preparing \cup Activating
  BY DEF PublishFails, Entered, Pipeline, Preparing, Activating, Recovering
<1>2. /\ Go(p, "failed") /\ UNCHANGED <<main, serving, schema, escalation, lock, recent, crashes>>
      /\ current' \in {current, job[p].target} /\ previous' \in {previous, current}
  BY DEF PublishFails
<1>3. \E j \in Jobs : j.target = job[p].target /\ job' = [job EXCEPT ![p] = j]
  <2>1. CASE job' = [job EXCEPT ![p].facts = @ \cup {"activated", "proven"}, ![p].reason = "host"]
    <3>. DEFINE j == [job[p] EXCEPT !.facts = @ \cup {"activated", "proven"}, !.reason = "host"]
    <3>1. job' = [job EXCEPT ![p] = j] BY <2>1
    <3>2. j \in Jobs /\ j.target = job[p].target BY Types DEF Jobs, Facts, Reasons
    <3>. QED BY <3>1, <3>2
  <2>2. CASE job' = [job EXCEPT ![p].facts = @ \cup {"activated"}, ![p].reason = "commit"]
    <3>. DEFINE j == [job[p] EXCEPT !.facts = @ \cup {"activated"}, !.reason = "commit"]
    <3>1. job' = [job EXCEPT ![p] = j] BY <2>2
    <3>2. j \in Jobs /\ j.target = job[p].target BY Types DEF Jobs, Facts, Reasons
    <3>. QED BY <3>1, <3>2
  <2>. QED BY <2>1, <2>2 DEF PublishFails
<1>4. PICK j \in Jobs : j.target = job[p].target /\ job' = [job EXCEPT ![p] = j] BY <1>3
<1>5. job[p].target = schema /\ job[p].target \in Commits BY <1>1, Types DEF Aims
<1>6. SchemaOK' BY <1>2, <1>5, SchemaNumbers DEF SchemaOK, SchemaCoversServices
<1>7. job[p].target <= main BY SchemaNumbers
<1>. QED BY <1>1, <1>2, <1>4, <1>5, <1>6, <1>7, Types, HostKeeps

LEMMA RestartUnitKeeps ==
  ASSUME ProcsAssumption, BoundsAssumption, AInv, NEW p \in Procs, RestartUnit(p)
  PROVE  AInv'
<1>1. /\ phase[p] \in {"restart", "restore"} /\ phase[p] \in Entered
  BY DEF RestartUnit, Entered, Pipeline, Activating, Recovering
<1>2. PICK u \in job[p].todo : /\ serving' = [serving EXCEPT ![u] = current]
                              /\ job' = [job EXCEPT ![p].todo = @ \ {u}]
  BY DEF RestartUnit
<1>3. u \in Units BY <1>2, Types DEF Jobs
<1>. DEFINE j == [job[p] EXCEPT !.todo = @ \ {u}]
<1>4. job' = [job EXCEPT ![p] = j] BY <1>2
<1>5. j \in Jobs /\ j.target = job[p].target BY Types DEF Jobs
<1>. HIDE DEF j
<1>6. UNCHANGED <<main, current, previous, schema, escalation, lock, recent, crashes, phase>>
  BY DEF RestartUnit
<1>7. serving' \in [Units -> Commits] BY <1>2, <1>3, Types
<1>8. SchemaOK'
  <2>1. \A v \in Units : serving'[v] <= schema BY <1>2, <1>3, Types, SchemaNumbers
  <2>. QED BY <1>6, <2>1, SchemaNumbers DEF SchemaOK, SchemaCoversServices
<1>9. Go(p, phase[p])
  <2>1. phase = [phase EXCEPT ![p] = phase[p]] BY Types
  <2>. QED BY <1>6, <2>1 DEF Go
<1>10. Aims(p) BY Types
<1>11. phase[p] \notin {"backup", "migrate", "quiet", "publish", "target"} BY <1>1
<1>12. j.target <= main BY <1>5, SchemaNumbers
<1>13. phase[p] \in Preparing \cup Activating => j.target \in Commits BY <1>5, <1>10 DEF Aims
<1>. QED BY <1>1, <1>4, <1>5, <1>6, <1>7, <1>8, <1>9, <1>11, <1>12, <1>13, Types, HostKeeps

LEMMA RollbackKeeps ==
  ASSUME ProcsAssumption, BoundsAssumption, AInv, NEW p \in Procs, Rollback(p)
  PROVE  AInv'
<1>1. /\ phase[p] = "rollback" /\ phase[p] \in Entered
      /\ "restore" \in Entered /\ "restore" \notin Preparing \cup Activating
  BY DEF Rollback, Entered, Pipeline, Preparing, Activating, Recovering
<1>. DEFINE j == [job[p] EXCEPT !.todo = Units]
<1>2. job' = [job EXCEPT ![p] = j] BY DEF Rollback
<1>3. j \in Jobs /\ j.target = job[p].target BY Types DEF Jobs
<1>. HIDE DEF j
<1>4. /\ previous # Unknown /\ current' = previous /\ previous' = current /\ Go(p, "restore")
      /\ UNCHANGED <<main, serving, schema, escalation, lock, recent, crashes>>
  BY DEF Rollback
<1>5. SchemaOK' BY <1>4, SchemaNumbers DEF SchemaOK, SchemaCoversServices
<1>6. j.target <= main BY <1>3, SchemaNumbers
<1>. QED BY <1>1, <1>2, <1>3, <1>4, <1>5, <1>6, Types, HostKeeps

LEMMA RecoveryFailsKeeps ==
  ASSUME ProcsAssumption, BoundsAssumption, AInv, NEW p \in Procs, RecoveryFails(p)
  PROVE  AInv'
<1>1. /\ phase[p] \in {"rollback", "restore", "settle"} /\ phase[p] \in Entered
      /\ "failed" \in Entered /\ "failed" \notin Preparing \cup Activating
  BY DEF RecoveryFails, Entered, Pipeline, Preparing, Activating, Recovering
<1>. DEFINE j == [job[p] EXCEPT !.reason = "host", !.facts = @ \ {"proven"}, !.todo = {}]
<1>2. job' = [job EXCEPT ![p] = j] BY DEF RecoveryFails, Unproven
<1>3. j \in Jobs /\ j.target = job[p].target BY Types DEF Jobs, Facts, Reasons
<1>. HIDE DEF j
<1>4. /\ Go(p, "failed")
      /\ UNCHANGED <<main, serving, schema, escalation, lock, recent, crashes>>
      /\ \/ UNCHANGED <<current, previous>>
         \/ /\ previous # Unknown
            /\ current' \in {current, previous} /\ previous' \in {current, previous}
  BY DEF RecoveryFails
<1>5. SchemaOK' BY <1>4, SchemaNumbers DEF SchemaOK, SchemaCoversServices
<1>6. j.target <= main BY <1>3, SchemaNumbers
<1>7. current' \in Commits /\ previous' \in Commits \cup {Unknown} BY <1>4, Types
<1>. QED BY <1>1, <1>2, <1>3, <1>4, <1>5, <1>6, <1>7, Types, HostKeeps

-----------------------------------------------------------------------------
\* Failures and the end of an attempt.

LEMMA PhaseFailsKeeps ==
  ASSUME ProcsAssumption, BoundsAssumption, AInv, NEW p \in Procs, PhaseFails(p)
  PROVE  AInv'
<1>1. PICK reason \in FailsWith(phase[p]) : job' = [job EXCEPT ![p].reason = reason]
  BY DEF PhaseFails
<1>2. phase[p] \in Entered /\ reason \in Reasons
  BY <1>1 DEF FailsWith, Reasons, Entered, Pipeline, Preparing, Activating
<1>. DEFINE j == [job[p] EXCEPT !.reason = reason]
            w == IF "deployed" \in job[p].facts THEN "rollback" ELSE "failed"
<1>3. job' = [job EXCEPT ![p] = j] BY <1>1
<1>4. j \in Jobs /\ j.target = job[p].target BY <1>2, Types DEF Jobs
<1>5. Go(p, w) /\ UNCHANGED <<main, host, escalation, lock, recent, crashes>> BY DEF PhaseFails
<1>6. w \in {"rollback", "failed"} OBVIOUS
<1>. HIDE DEF j, w
<1>7. w \in Entered /\ w \notin Preparing \cup Activating
  BY <1>6 DEF Entered, Pipeline, Preparing, Activating, Recovering
<1>8. j.target <= main BY <1>4, SchemaNumbers
<1>. QED BY <1>2, <1>3, <1>4, <1>5, <1>6, <1>7, <1>8, MoveKeeps

LEMMA SettleKeeps ==
  ASSUME ProcsAssumption, BoundsAssumption, AInv, NEW p \in Procs, Settle(p)
  PROVE  AInv'
<1>1. /\ phase[p] = "settle" /\ phase[p] \in Entered
      /\ "failed" \in Entered /\ "failed" \notin Preparing \cup Activating
  BY DEF Settle, Entered, Pipeline, Preparing, Activating, Recovering
<1>. DEFINE j == [job[p] EXCEPT !.facts = @ \cup {"proven"}]
<1>2. job' = [job EXCEPT ![p] = j] BY DEF Settle, Know
<1>3. j \in Jobs /\ j.target = job[p].target BY Types DEF Jobs, Facts
<1>. HIDE DEF j
<1>4. j.target <= main BY <1>3, SchemaNumbers
<1>. QED BY <1>1, <1>2, <1>3, <1>4, MoveKeeps DEF Settle

\* What Record does to the marker and to the jobs.
LEMMA RecordStep ==
  ASSUME BoundsAssumption, AInv, NEW p \in Procs, NEW reason \in Reasons \cup {"none"},
         Record(p, reason)
  PROVE  /\ job' \in [Procs -> Jobs] /\ escalation' \in Markers
         /\ job'[p].target = job[p].target /\ job'[p].facts = job[p].facts
         /\ \/ UNCHANGED <<escalation, job>> /\ reason = "interrupted"
            \/ /\ escalation'.to = job[p].target
               /\ escalation'.class = Scope(reason, job[p].target, Proven(p))
         /\ \A q \in Procs : q # p =>
              /\ job'[q].target = job[q].target /\ job'[q].reason = job[q].reason
              /\ job'[q].facts = job[q].facts /\ job'[q].todo = job[q].todo
              /\ job'[q].retry = job[q].retry
              /\ job'[q].seen = "same" => job[q].seen = "same" /\ escalation'.class = escalation.class
<1>1. CASE reason = "interrupted" /\ "upgrade" \notin job[p].facts
  BY <1>1, Types DEF Record
<1>2. CASE ~(reason = "interrupted" /\ "upgrade" \notin job[p].facts)
  <2>. DEFINE jobs == [job EXCEPT ![p].reason = reason]
  <2>1. PICK told \in BOOLEAN : escalation' = Escalated(reason, job[p].target, Proven(p), told)
    BY <1>2 DEF Record
  <2>2. job' = Replaced(jobs) BY <1>2 DEF Record
  <2>3. jobs \in [Procs -> Jobs] /\ jobs[p].target = job[p].target /\ jobs[p].facts = job[p].facts
        /\ \A q \in Procs : q # p => jobs[q] = job[q]
    <3>1. [job[p] EXCEPT !.reason = reason] \in Jobs BY Types DEF Jobs
    <3>2. jobs = [job EXCEPT ![p] = [job[p] EXCEPT !.reason = reason]] OBVIOUS
    <3>. QED BY <3>1, <3>2, Types DEF Jobs
  <2>. HIDE DEF jobs
  <2>4. job[p].target \in Commits \cup {Unknown} /\ Proven(p) \in BOOLEAN
    BY Types DEF Jobs, Proven
  <2>5. /\ escalation' \in Markers /\ escalation'.to = job[p].target
        /\ escalation'.class = Scope(reason, job[p].target, Proven(p))
    BY <2>1, <2>4, EscalatedType, Types
  <2>. QED BY <2>2, <2>3, <2>5, ReplacedType
<1>. QED BY <1>1, <1>2

LEMMA RecordKeeps ==
  ASSUME ProcsAssumption, BoundsAssumption, AInv, NEW p \in Procs, NEW reason \in Reasons \cup {"none"},
         Record(p, reason), phase[p] \in {"failed", "release"}, NEW w \in {"release", "finish"},
         Go(p, w), UNCHANGED <<main, host, lock, recent, crashes>>
  PROVE  AInv'
<1>1. AttemptTypeOK BY Types
<1>2. phase' = [phase EXCEPT ![p] = w] /\ w \in Entered /\ phase[p] \in Entered
  BY DEF Go, Entered, Pipeline, Recovering
<1>3. /\ job' \in [Procs -> Jobs] /\ escalation' \in Markers /\ job'[p].target = job[p].target
      /\ \/ UNCHANGED <<escalation, job>>
         \/ escalation'.to = job[p].target
  BY RecordStep
<1>4. phase' \in [Procs -> AttemptStages] /\ phase'[p] = w /\ \A q \in Procs : q # p => phase'[q] = phase[q]
  BY <1>2, Types, StageSets
<1>5. Aside(p) BY <1>4, RecordStep DEF Aside
<1>6. AttemptTypeOK' BY <1>1, <1>3, <1>4 DEF AttemptTypeOK, host
<1>7. SchemaOK' BY Types DEF SchemaOK, SchemaCoversServices, host
<1>8. LatchOK'
  <2>1. job[p].target <= main /\ LatchOK BY Types, SchemaNumbers
  <2>. QED BY <1>3, <2>1 DEF LatchOK
<1>9. w \notin Preparing \cup Activating /\ w \notin {"target", "backup", "migrate", "quiet", "publish"}
  BY DEF Preparing, Activating
<1>10. Aims(p)' BY <1>3, <1>4, <1>9, SchemaNumbers DEF Aims
<1>11. Passes(p)' BY <1>4, <1>9 DEF Passes
<1>. QED BY <1>2, <1>5, <1>6, <1>7, <1>8, <1>10, <1>11, Inner

LEMMA FailedKeeps ==
  ASSUME ProcsAssumption, BoundsAssumption, AInv, NEW p \in Procs, Failed(p)
  PROVE  AInv'
<1>1. job[p].reason \in Reasons \cup {"none"} BY Types DEF Jobs
<1>. QED BY <1>1, RecordKeeps DEF Failed

LEMMA ReleaseKeeps ==
  ASSUME ProcsAssumption, BoundsAssumption, AInv, NEW p \in Procs, Release(p)
  PROVE  AInv'
<1>1. CASE UNCHANGED <<escalation, job>>
  <2>1. phase[p] \in Entered /\ "finish" \in Entered /\ "finish" \notin Preparing \cup Activating
    BY DEF Release, Entered, Preparing, Activating
  <2>. QED BY <1>1, <2>1, PlainMoveKeeps DEF Release
<1>2. CASE \E reason \in {"transient", "commit"} : Record(p, reason)
  <2>1. PICK reason \in {"transient", "commit"} : Record(p, reason) BY <1>2
  <2>2. reason \in Reasons \cup {"none"} BY <2>1 DEF Reasons
  <2>. QED BY <2>1, <2>2, RecordKeeps DEF Release
<1>. QED BY <1>1, <1>2 DEF Release

LEMMA SelfClearKeeps ==
  ASSUME ProcsAssumption, BoundsAssumption, AInv, NEW p \in Procs, SelfClear(p)
  PROVE  AInv'
<1>1. /\ phase[p] \in Entered /\ "release" \in Entered /\ "release" \notin Preparing \cup Activating
      /\ Go(p, "release") /\ UNCHANGED <<main, host, lock, recent, crashes>>
  BY DEF SelfClear, Entered, Preparing, Activating
<1>2. CASE UNCHANGED <<escalation, job>> BY <1>1, <1>2, PlainMoveKeeps
<1>3. CASE escalation' = NoMarker /\ job' = Replaced(job)
  <2>1. phase' = [phase EXCEPT ![p] = "release"] BY <1>1 DEF Go
  <2>2. phase' \in [Procs -> AttemptStages] /\ phase'[p] = "release"
        /\ \A q \in Procs : q # p => phase'[q] = phase[q]
    BY <1>1, <2>1, Types, StageSets
  <2>3. job' \in [Procs -> Jobs] /\ Aside(p) /\ job'[p].target = job[p].target
    BY <1>3, <2>2, Types, ReplacedType DEF Aside
  <2>4. escalation' \in Markers /\ escalation'.class = "none" BY <1>3 DEF Markers, NoMarker
  <2>5. AttemptTypeOK' BY <1>1, <2>2, <2>3, <2>4, Types DEF AttemptTypeOK, host
  <2>6. SchemaOK' BY <1>1, Types DEF SchemaOK, SchemaCoversServices, host
  <2>7. LatchOK' BY <2>4 DEF LatchOK
  <2>8. Aims(p)' BY <1>1, <2>2, <2>3, SchemaNumbers DEF Aims
  <2>9. Passes(p)' BY <2>4 DEF Passes
  <2>. QED BY <1>1, <2>1, <2>3, <2>5, <2>6, <2>7, <2>8, <2>9, Inner
<1>. QED BY <1>2, <1>3 DEF SelfClear

LEMMA FinishKeeps ==
  ASSUME ProcsAssumption, BoundsAssumption, AInv, NEW p \in Procs, Finish(p)
  PROVE  AInv'
<1>1. recent \in BOOLEAN /\ job[p].auto \in BOOLEAN BY Types DEF AttemptTypeOK, Jobs
<1>2. recent' \in BOOLEAN BY <1>1 DEF Finish
<1>. QED BY <1>2, Types, DepartKeeps DEF Finish

-----------------------------------------------------------------------------
\* The world.

LEMMA MainMovesKeeps ==
  ASSUME BoundsAssumption, AInv, MainMoves
  PROVE  AInv'
<1>1. main < Last /\ main' = main + 1
      /\ UNCHANGED <<host, escalation, lock, recent, crashes, phase, job>>
  BY DEF MainMoves
<1>2. main' \in Commits /\ main \in Nat BY <1>1, Types, CommitFacts
<1>3. AttemptTypeOK' BY <1>1, <1>2, Types DEF AttemptTypeOK, host
<1>4. SchemaOK' BY <1>1, SchemaNumbers DEF SchemaOK, SchemaCoversServices, host
<1>5. LatchOK'
  <2>. SUFFICES ASSUME escalation.class = "commit" PROVE escalation.to <= main + 1
    BY <1>1 DEF LatchOK
  <2>1. Marked BY DEF Marked
  <2>2. escalation.to \in Nat BY <2>1, Types, MarkedRecord, CommitFacts
  <2>. QED BY <1>2, <2>2, Types DEF LatchOK
<1>6. ASSUME NEW q \in Procs PROVE ProcOK(q)'
  <2>1. job[q].target \in Nat /\ job[q].target <= main BY SchemaNumbers
  <2>2. Alone(q)' /\ Waits(q)' /\ Passes(q)' BY <1>1, Types DEF Alone, Waits, Passes, HostFenced
  <2>3. Aims(q)' BY <1>1, <1>2, <2>1, Types DEF Aims, host
  <2>. QED BY <2>2, <2>3 DEF ProcOK
<1>. QED BY <1>3, <1>4, <1>5, <1>6 DEF AInv

LEMMA IntervalPassesKeeps ==
  ASSUME AInv, IntervalPasses
  PROVE  AInv'
<1>1. recent' \in BOOLEAN /\ UNCHANGED <<main, host, escalation, lock, crashes, phase, job>>
  BY DEF IntervalPasses
<1>2. AttemptTypeOK' BY <1>1, Types DEF AttemptTypeOK, host
<1>3. SchemaOK' /\ LatchOK' BY <1>1, Types DEF SchemaOK, SchemaCoversServices, host, LatchOK
<1>4. ASSUME NEW q \in Procs PROVE ProcOK(q)'
  BY <1>1, Types DEF ProcOK, Alone, Waits, Aims, Passes, HostFenced, host
<1>. QED BY <1>2, <1>3, <1>4 DEF AInv

LEMMA BackoffExpiresKeeps ==
  ASSUME AInv, BackoffExpires
  PROVE  AInv'
<1>1. /\ escalation.class = "transient" /\ escalation' = [escalation EXCEPT !.due = TRUE]
      /\ UNCHANGED <<main, host, lock, recent, crashes, phase, job>>
  BY DEF BackoffExpires
<1>2. escalation' \in Markers /\ escalation'.class = escalation.class /\ escalation'.to = escalation.to
  <2>1. Marked BY <1>1 DEF Marked
  <2>. QED BY <1>1, <2>1, Types, MarkedRecord DEF Markers
<1>3. AttemptTypeOK' BY <1>1, <1>2, Types DEF AttemptTypeOK, host
<1>4. SchemaOK' /\ LatchOK' BY <1>1, <1>2, Types DEF SchemaOK, SchemaCoversServices, host, LatchOK
<1>5. ASSUME NEW q \in Procs PROVE ProcOK(q)'
  BY <1>1, <1>2, Types DEF ProcOK, Alone, Waits, Aims, Passes, HostFenced, host
<1>. QED BY <1>3, <1>4, <1>5 DEF AInv

LEMMA ProcessCrashesKeeps ==
  ASSUME ProcsAssumption, BoundsAssumption, AInv, NEW p \in Procs, ProcessCrashes(p)
  PROVE  AInv'
<1>1. /\ phase' = [phase EXCEPT ![p] = "off"] /\ job' = [job EXCEPT ![p] = NoJob]
      /\ crashes < MaxCrashes /\ crashes' = crashes + 1
      /\ lock' = (IF lock = p THEN Dead ELSE lock)
      /\ UNCHANGED <<main, host, escalation, recent>>
  BY DEF ProcessCrashes, Go, Forget
<1>2. crashes' \in 0..MaxCrashes BY <1>1, Types, CommitFacts DEF AttemptTypeOK
<1>3. /\ job' \in [Procs -> Jobs] /\ job'[p] = NoJob /\ Aside(p)
      /\ phase' \in [Procs -> AttemptStages]
  BY <1>1, Types, OneJob, NoJobType, StageSets
<1>4. lock' \in Procs \cup {Free, Dead} BY <1>1, Types DEF AttemptTypeOK
<1>5. AttemptTypeOK' BY <1>1, <1>2, <1>3, <1>4, Types DEF AttemptTypeOK, host
<1>6. SchemaOK' /\ LatchOK' BY <1>1, Types DEF SchemaOK, SchemaCoversServices, host, LatchOK
<1>7. job'[p].target <= main BY <1>3, NoJobType, SchemaNumbers DEF Unknown
<1>8. (lock # p => lock' = lock) /\ (lock = p => lock' \in {Free, Dead}) BY <1>1
<1>9. schema' = schema /\ (HostFenced => escalation'.class = "host") BY <1>1 DEF host, HostFenced
<1>. QED BY <1>1, <1>3, <1>5, <1>6, <1>7, <1>8, <1>9, Leave

LEMMA OperatorClearsKeeps ==
  ASSUME BoundsAssumption, AInv, OperatorClears
  PROVE  AInv'
<1>1. /\ escalation' = NoMarker /\ job' = Replaced(job)
      /\ UNCHANGED <<main, current, previous, schema, lock, recent, crashes, phase>>
      /\ HostFenced => \A q \in Procs : phase[q] = "off"
      /\ serving' \in {serving, [u \in Units |-> current]}
  BY DEF OperatorClears, HostFenced
<1>2. escalation' \in Markers /\ escalation'.class = "none" BY <1>1 DEF Markers, NoMarker
<1>3. /\ job' \in [Procs -> Jobs]
      /\ \A q \in Procs : job'[q].seen # "same" /\ job'[q].target = job[q].target
  BY <1>1, Types, ReplacedType
<1>4. serving' \in [Units -> Commits] BY <1>1, Types
<1>5. AttemptTypeOK' BY <1>1, <1>2, <1>3, <1>4, Types DEF AttemptTypeOK
<1>6. SchemaOK'
  <2>1. \A u \in Units : serving'[u] <= schema BY <1>1, SchemaNumbers
  <2>. QED BY <1>1, <2>1, SchemaNumbers DEF SchemaOK, SchemaCoversServices
<1>7. LatchOK' BY <1>2 DEF LatchOK
<1>8. ASSUME NEW q \in Procs PROVE ProcOK(q)'
  <2>1. Alone(q)' /\ Aims(q)' BY <1>1, <1>3, Types DEF Alone, Aims
  <2>2. Waits(q)' BY <1>1, <1>3, Types DEF Waits
  <2>3. Passes(q)' BY <1>2 DEF Passes
  <2>. QED BY <2>1, <2>2, <2>3 DEF ProcOK
<1>. QED BY <1>5, <1>6, <1>7, <1>8 DEF AInv

LEMMA AttemptStart ==
  ASSUME ProcsAssumption, BoundsAssumption, AttemptInit
  PROVE  AInv
<1>1. 1 \in Commits BY CommitFacts
<1>2. /\ main = 1 /\ current = 1 /\ previous = 0 /\ schema = 1 /\ escalation = NoMarker
      /\ serving = [u \in Units |-> 1] /\ lock = Free /\ recent = FALSE /\ crashes = 0
      /\ phase = [q \in Procs |-> "off"] /\ job = [q \in Procs |-> NoJob]
  BY DEF AttemptInit, Unknown
<1>3. NoMarker \in Markers /\ NoMarker.class = "none" BY DEF Markers, NoMarker
<1>4. AttemptTypeOK
  <2>1. crashes \in 0..MaxCrashes BY <1>2, CommitFacts
  <2>2. phase \in [Procs -> AttemptStages] /\ job \in [Procs -> Jobs] BY <1>2, NoJobType, StageSets
  <2>. QED BY <1>1, <1>2, <1>3, <2>1, <2>2 DEF AttemptTypeOK, Unknown
<1>5. SchemaOK BY <1>2 DEF SchemaOK, SchemaCoversServices
<1>6. LatchOK BY <1>2, <1>3 DEF LatchOK
<1>7. ASSUME NEW q \in Procs PROVE ProcOK(q)
  <2>1. phase[q] = "off" /\ job[q].target = 0 BY <1>2, NoJobType DEF Unknown
  <2>2. "off" \notin Entered BY StageSets
  <2>3. "off" \notin Preparing \cup Activating BY DEF Preparing, Activating
  <2>. QED BY <1>2, <2>1, <2>2, <2>3 DEF ProcOK, Alone, Waits, Aims, Passes
<1>. QED BY <1>4, <1>5, <1>6, <1>7 DEF AInv

LEMMA AttemptStep ==
  ASSUME ProcsAssumption, BoundsAssumption, AInv, [AttemptNext]_attemptVars
  PROVE  AInv'
<1>1. ASSUME NEW p \in Procs, Invoke(p) PROVE AInv'
  BY <1>1, LaunchKeeps, TryLockKeeps, ReclaimKeeps, CheckKeeps, RetryKeeps, LatchedKeeps,
     SupersedeKeeps, ReadTargetKeeps DEF Invoke
<1>2. ASSUME NEW p \in Procs, Upgrade(p) PROVE AInv'
  BY <1>2, ReadRevisionsKeeps, BuildArtifactKeeps, AcquireWindowKeeps, BackupKeeps, MigrateKeeps,
     AssertStillQuietKeeps, PublishKeeps, RestartUnitKeeps, RestartsDoneKeeps, VerifyServicesKeeps,
     AnnounceKeeps, SelfClearKeeps DEF Upgrade
<1>3. ASSUME NEW p \in Procs, Recover(p) PROVE AInv'
  BY <1>3, PublishFailsKeeps, PhaseFailsKeeps, MigrationFailsKeeps, RollbackKeeps,
     RecoveryFailsKeeps, SettleKeeps, FailedKeeps, ReleaseKeeps, FinishKeeps DEF Recover
<1>4. ASSUME NEW p \in Procs, ProcessCrashes(p) PROVE AInv' BY <1>4, ProcessCrashesKeeps
<1>5. CASE MainMoves \/ IntervalPasses \/ BackoffExpires \/ OperatorClears
  BY <1>5, MainMovesKeeps, IntervalPassesKeeps, BackoffExpiresKeeps, OperatorClearsKeeps
<1>6. CASE UNCHANGED attemptVars
  <2>1. UNCHANGED <<main, current, previous, serving, schema, escalation, lock, recent, crashes,
                    phase, job>>
    BY <1>6 DEF attemptVars, host
  <2>. QED BY <2>1, Types DEF AInv, ProcOK, AttemptTypeOK, SchemaOK, SchemaCoversServices, LatchOK,
       Alone, Waits, Aims, Passes, HostFenced
<1>. QED BY <1>1, <1>2, <1>3, <1>4, <1>5, <1>6 DEF AttemptNext, Process

-----------------------------------------------------------------------------
\* The fence of a divided host.

LEMMA FencedStay ==
  ASSUME AInv, FInv, NEW p \in Procs, phase[p] \notin Entered, NEW w, w \notin Entered,
         phase' = [phase EXCEPT ![p] = w], UNCHANGED host, Aside(p),
         HostFenced => escalation'.class = "host",
         lock = Dead => lock' = Dead \/ escalation'.class = "host"
  PROVE  FInv'
<1>1. \A q \in Procs : phase'[q] = IF q = p THEN w ELSE phase[q] BY Types
<1>2. Divided' = Divided BY DEF Divided, host
<1>3. ASSUME NEW q \in Procs, q # p PROVE Serves(q)' /\ Ends(q)'
  <2>1. /\ phase'[q] = phase[q] /\ job'[q].todo = job[q].todo /\ job'[q].facts = job[q].facts
        /\ job'[q].reason = job[q].reason
    BY <1>3 DEF Aside
  <2>2. Serves(q) /\ Ends(q) BY DEF FInv
  <2>3. Serves(q)' BY <1>2, <2>1, <2>2 DEF Serves, host
  <2>4. Ends(q)' BY <1>2, <2>1, <2>2 DEF Ends, HostFenced
  <2>. QED BY <2>3, <2>4
<1>4. Serves(p)' /\ Ends(p)'
  <2>1. phase'[p] \notin Entered BY <1>1
  <2>. QED BY <2>1 DEF Serves, Ends, Entered, Pipeline, Preparing, Activating, Recovering
<1>5. DividedIsFenced'
  <2>. SUFFICES ASSUME Divided, lock # Dead, ~HostFenced
                PROVE  \E q \in Procs : phase'[q] \in Activating \cup Recovering
    BY <1>2 DEF DividedIsFenced, HostFenced
  <2>1. PICK q \in Procs : phase[q] \in Activating \cup Recovering
    BY DEF FInv, DividedIsFenced, HostFenced
  <2>2. q # p BY <2>1 DEF Entered, Pipeline
  <2>. QED BY <1>1, <2>1, <2>2
<1>. QED BY <1>3, <1>4, <1>5 DEF FInv

\* An unmarked host with a live owner that nobody else works on is not divided.
LEMMA FencedEnter ==
  ASSUME ProcsAssumption, AInv, FInv, NEW p \in Procs, phase[p] \in {"check", "renotify"},
         ~HostFenced, NEW w \in {"supersede", "target"},
         phase' = [phase EXCEPT ![p] = w], UNCHANGED host, Aside(p)
  PROVE  FInv'
<1>1. \A q \in Procs : phase'[q] = IF q = p THEN w ELSE phase[q] BY Types
<1>2. lock = p BY Types DEF Waits
<1>3. \A q \in Procs : phase[q] \notin Entered
  <2>1. phase[p] \notin Entered BY StageSets
  <2>. QED BY <1>2, <2>1, Types DEF Alone
<1>4. ~Divided
  BY <1>2, <1>3, ProcsAssumption
  DEF FInv, DividedIsFenced, ProcsAssumption, HostFenced, Entered, Pipeline
<1>5. ~Divided' BY <1>4 DEF Divided, host
<1>6. ASSUME NEW q \in Procs PROVE Serves(q)' /\ Ends(q)'
  <2>1. phase'[q] = w \/ phase'[q] \notin Entered BY <1>1, <1>3
  <2>. QED BY <1>5, <2>1 DEF Serves, Ends, Entered, Pipeline, Activating, Recovering
<1>. QED BY <1>5, <1>6 DEF FInv, DividedIsFenced

LEMMA FencedInner ==
  ASSUME AInv, NEW p \in Procs, phase[p] \in Entered, NEW w \in Entered,
         phase' = [phase EXCEPT ![p] = w], Serves(p)', Ends(p)'
  PROVE  FInv'
<1>1. \A q \in Procs : phase'[q] = IF q = p THEN w ELSE phase[q] BY Types
<1>2. \A q \in Procs : q # p => phase[q] \in {"off", "acquire"} BY Types DEF Alone
<1>3. ASSUME NEW q \in Procs, q # p PROVE Serves(q)' /\ Ends(q)'
  <2>1. phase'[q] \in {"off", "acquire"} BY <1>1, <1>2, <1>3
  <2>. QED BY <2>1 DEF Serves, Ends, Preparing
<1>4. DividedIsFenced'
  <2>1. phase'[p] = w BY <1>1
  <2>2. CASE w \in Activating \cup Recovering BY <2>1, <2>2 DEF DividedIsFenced
  <2>3. CASE w \in {"release", "finish"} BY <2>1, <2>3 DEF DividedIsFenced, Ends, HostFenced
  <2>4. CASE w \in {"supersede", "target", "selfclear"} \cup Preparing
    BY <2>1, <2>4 DEF DividedIsFenced, Serves
  <2>. QED BY <2>2, <2>3, <2>4 DEF Entered, Pipeline
<1>. QED BY <1>3, <1>4 DEF FInv

LEMMA FencedLeave ==
  ASSUME AInv, NEW p \in Procs, phase[p] \in Entered, phase' = [phase EXCEPT ![p] = "off"],
         UNCHANGED host, ~Divided \/ escalation'.class = "host" \/ lock' = Dead
  PROVE  FInv'
<1>1. \A q \in Procs : phase'[q] = IF q = p THEN "off" ELSE phase[q] BY Types
<1>2. \A q \in Procs : q # p => phase[q] \in {"off", "acquire"} BY Types DEF Alone
<1>3. ASSUME NEW q \in Procs PROVE Serves(q)' /\ Ends(q)'
  <2>1. phase'[q] \in {"off", "acquire"} BY <1>1, <1>2, <1>3
  <2>. QED BY <2>1 DEF Serves, Ends, Preparing
<1>4. DividedIsFenced' BY DEF DividedIsFenced, Divided, host
<1>. QED BY <1>3, <1>4 DEF FInv

LEMMA AbandonFenced ==
  ASSUME ProcsAssumption, BoundsAssumption, AInv, FInv, NEW p \in Procs, NEW reason \in Reasons,
         Abandon(p, reason), UNCHANGED host,
         reason = "host" \/ phase[p] = "target"
  PROVE  FInv'
<1>1. Aside(p) /\ (reason = "host" => escalation'.class = "host")
      /\ lock' = IF lock = p THEN Free ELSE lock
  BY Types, AbandonStep
<1>2. phase' = [phase EXCEPT ![p] = "off"] BY DEF Abandon, Exit, Go
<1>3. CASE phase[p] \in Entered
  <2>1. phase[p] = "target" => ~Divided BY DEF FInv, Serves
  <2>. QED BY <1>1, <1>2, <1>3, <2>1, FencedLeave
<1>4. CASE phase[p] \notin Entered
  <2>1. reason = "host" BY <1>4 DEF Entered
  <2>. QED BY <1>1, <1>2, <1>4, <2>1, FencedStay, StageSets
<1>. QED BY <1>3, <1>4

\* Whoever leaves before the marker, or where no failure is open.
LEMMA DepartFenced ==
  ASSUME ProcsAssumption, AInv, FInv, NEW p \in Procs, Exit(p), Forget(p), UNCHANGED host,
         escalation'.class = escalation.class,
         phase[p] \in {"acquire", "check", "renotify", "supersede", "target", "finish"}
  PROVE  FInv'
<1>1. /\ phase' = [phase EXCEPT ![p] = "off"] /\ job' = [job EXCEPT ![p] = NoJob]
      /\ lock' = IF lock = p THEN Free ELSE lock
  BY DEF Exit, Go, Forget
<1>2. Aside(p) BY <1>1, Types, OneJob, NoJobType, StageSets
<1>3. CASE phase[p] \in Entered
  <2>1. phase[p] \in {"supersede", "target", "finish"} BY <1>3, StageSets
  <2>2. ~Divided \/ HostFenced BY <2>1 DEF FInv, Serves, Ends
  <2>. QED BY <1>1, <1>3, <2>2, FencedLeave DEF HostFenced
<1>4. CASE phase[p] \notin Entered
  <2>1. lock = Dead => lock' = Dead BY <1>1
  <2>. QED BY <1>1, <1>2, <1>4, <2>1, FencedStay, StageSets DEF HostFenced
<1>. QED BY <1>3, <1>4

LEMMA LatchFenced ==
  ASSUME ProcsAssumption, AInv, FInv, NEW p \in Procs,
         phase[p] \in {"check", "renotify"}, Latch(p), UNCHANGED host,
         escalation'.class = escalation.class
  PROVE  FInv'
<1>1. CASE escalation.class = "commit"
  <2>1. phase' = [phase EXCEPT ![p] = "supersede"] /\ job' = [job EXCEPT ![p] = job[p]] /\ job[p] \in Jobs
    BY <1>1, Types DEF Latch, Go
  <2>2. Aside(p) BY <2>1, Types, OneJob, StageSets DEF AttemptStages
  <2>. QED BY <1>1, <2>1, <2>2, FencedEnter DEF HostFenced
<1>2. CASE escalation.class # "commit" BY <1>2, DepartFenced DEF Latch
<1>. QED BY <1>1, <1>2

LEMMA InvokeFenced ==
  ASSUME ProcsAssumption, BoundsAssumption, AInv, FInv, NEW p \in Procs, Invoke(p)
  PROVE  FInv'
<1>1. CASE Launch(p)
  <2>1. phase[p] = "off" /\ UNCHANGED host BY <1>1 DEF Launch
  <2>2. CASE Abandon(p, "host") BY <2>1, <2>2, AbandonFenced DEF Reasons
  <2>3. CASE /\ \E auto \in BOOLEAN : job' = [job EXCEPT ![p].auto = auto]
             /\ Go(p, "acquire") /\ UNCHANGED <<escalation, lock>>
    <3>1. PICK auto \in BOOLEAN : job' = [job EXCEPT ![p].auto = auto] BY <2>3
    <3>2. phase' = [phase EXCEPT ![p] = "acquire"] BY <2>3 DEF Go
    <3>. DEFINE j == [job[p] EXCEPT !.auto = auto]
    <3>3. j \in Jobs BY Types DEF Jobs
    <3>4. job' = [job EXCEPT ![p] = j] BY <3>1
    <3>. HIDE DEF j
    <3>5. Aside(p) BY <2>3, <3>2, <3>3, <3>4, Types, OneJob, StageSets
    <3>. QED BY <2>1, <2>3, <3>2, <3>5, FencedStay, StageSets DEF HostFenced
  <2>. QED BY <1>1, <2>2, <2>3 DEF Launch
<1>2. CASE TryLock(p)
  <2>1. phase[p] = "acquire" /\ UNCHANGED <<host, escalation>> BY <1>2 DEF TryLock
  <2>2. CASE Exit(p) /\ job' = [job EXCEPT ![p] = NoJob] BY <2>1, <2>2, DepartFenced DEF Forget
  <2>3. ASSUME NEW w \in {"check", "reclaim"}, Go(p, w), job' = job,
               lock = Free \/ lock' = lock
        PROVE  FInv'
    <3>1. phase' = [phase EXCEPT ![p] = w] /\ job' = [job EXCEPT ![p] = job[p]] /\ job[p] \in Jobs
      BY <2>3, Types DEF Go
    <3>2. Aside(p) BY <2>1, <3>1, Types, OneJob, StageSets
    <3>3. lock = Dead => lock' = Dead BY <2>3, ProcsAssumption DEF ProcsAssumption
    <3>. QED BY <2>1, <3>1, <3>2, <3>3, FencedStay, StageSets DEF HostFenced
  <2>. QED BY <1>2, <2>2, <2>3 DEF TryLock
<1>3. CASE Reclaim(p)
  <2>1. phase[p] = "reclaim" /\ UNCHANGED host BY <1>3 DEF Reclaim
  <2>2. CASE lock = Free
    <3>1. phase' = [phase EXCEPT ![p] = "check"] /\ job' = [job EXCEPT ![p] = job[p]] /\ job[p] \in Jobs
          /\ escalation' = escalation
      BY <1>3, <2>2, Types DEF Go, Reclaim
    <3>2. Aside(p) BY <3>1, Types, OneJob, StageSets
    <3>3. lock # Dead BY <2>2, ProcsAssumption DEF ProcsAssumption
    <3>. QED BY <2>1, <3>1, <3>2, <3>3, FencedStay, StageSets DEF HostFenced
  <2>3. CASE lock # Free
    <3>. DEFINE jobs == [job EXCEPT ![p] = NoJob]
    <3>1. PICK told \in BOOLEAN : escalation' = Escalated("host", Unknown, TRUE, told)
      BY <1>3, <2>3 DEF Reclaim
    <3>2. phase' = [phase EXCEPT ![p] = "off"] /\ job' = Replaced(jobs)
      BY <1>3, <2>3 DEF Reclaim, Go
    <3>3. jobs \in [Procs -> Jobs] /\ \A q \in Procs : q # p => jobs[q] = job[q]
      BY NoJobType, Types
    <3>. HIDE DEF jobs
    <3>4. Scope("host", Unknown, TRUE) = "host" BY DEF Scope
    <3>5. escalation'.class = "host" BY <3>1, <3>4, EscalatedType, Types
    <3>6. Aside(p) BY <3>2, <3>3, ReplacedType, Types DEF Aside
    <3>. QED BY <2>1, <3>2, <3>5, <3>6, FencedStay, StageSets
  <2>. QED BY <2>2, <2>3
<1>4. CASE Check(p)
  <2>1. phase[p] = "check" /\ UNCHANGED <<host, escalation>> BY <1>4 DEF Check
  <2>2. CASE Latch(p) BY <2>1, <2>2, LatchFenced
  <2>3. ASSUME NEW j \in Jobs, job' = [job EXCEPT ![p] = j], ~HostFenced, Go(p, "target") PROVE FInv'
    <3>1. phase' = [phase EXCEPT ![p] = "target"] BY <2>3 DEF Go
    <3>2. Aside(p) BY <2>1, <2>3, <3>1, Types, OneJob, StageSets DEF AttemptStages
    <3>. QED BY <2>1, <2>3, <3>1, <3>2, FencedEnter
  <2>4. CASE ~Marked /\ Go(p, "target") /\ UNCHANGED <<lock, job>>
    <3>1. job' = [job EXCEPT ![p] = job[p]] /\ job[p] \in Jobs BY <2>4, Types
    <3>. QED BY <2>3, <2>4, <3>1 DEF HostFenced, Marked
  <2>5. CASE /\ MayRetry /\ Go(p, "target")
             /\ job' = [job EXCEPT ![p].seen = "same", ![p].retry = TRUE]
    <3>1. [job[p] EXCEPT !.seen = "same", !.retry = TRUE] \in Jobs BY Types DEF Jobs
    <3>. QED BY <2>3, <2>5, <3>1 DEF HostFenced, MayRetry
  <2>6. CASE /\ Marked /\ Go(p, "renotify") /\ UNCHANGED lock
             /\ job' = [job EXCEPT ![p].seen = "same", ![p].retry = MayRetry]
    <3>0. MayRetry \in BOOLEAN
      <4>1. escalation.due \in BOOLEAN BY <2>6, Types, MarkedRecord
      <4>. QED BY <4>1 DEF MayRetry
    <3>. DEFINE j == [job[p] EXCEPT !.seen = "same", !.retry = MayRetry]
    <3>1. j \in Jobs BY <3>0, Types DEF Jobs
    <3>2. job' = [job EXCEPT ![p] = j] BY <2>6
    <3>. HIDE DEF j
    <3>3. phase' = [phase EXCEPT ![p] = "renotify"] BY <2>6 DEF Go
    <3>4. Aside(p) BY <2>1, <3>1, <3>2, <3>3, Types, OneJob, StageSets
    <3>. QED BY <2>1, <2>6, <3>3, <3>4, FencedStay, StageSets DEF HostFenced
  <2>. QED BY <1>4, <2>2, <2>4, <2>5, <2>6 DEF Check
<1>5. CASE Retry(p)
  <2>1. phase[p] = "renotify" /\ job[p].retry /\ UNCHANGED host BY <1>5 DEF Retry
  <2>3. ASSUME NEW j \in Jobs, job' = [job EXCEPT ![p] = j], ~HostFenced, Go(p, "target"),
               escalation'.class = escalation.class
        PROVE FInv'
    <3>1. phase' = [phase EXCEPT ![p] = "target"] BY <2>3 DEF Go
    <3>2. Aside(p) BY <2>1, <2>3, <3>1, Types, OneJob, StageSets DEF AttemptStages
    <3>. QED BY <2>1, <2>3, <3>1, <3>2, FencedEnter
  <2>4. CASE ~Marked
    <3>1. Go(p, "target") /\ job' = [job EXCEPT ![p].retry = FALSE, ![p].seen = "none"]
          /\ escalation' = escalation
      BY <1>5, <2>4 DEF Retry
    <3>2. [job[p] EXCEPT !.retry = FALSE, !.seen = "none"] \in Jobs BY Types DEF Jobs
    <3>. QED BY <2>3, <2>4, <3>1, <3>2 DEF HostFenced, Marked
  <2>5. CASE Marked
    <3>1. PICK told \in BOOLEAN : escalation' = [escalation EXCEPT !.told = @ \/ told]
      BY <1>5, <2>5 DEF Retry
    <3>2. escalation'.class = escalation.class BY <2>5, <3>1, Types, TellTypes
    <3>3. CASE job[p].seen = "same"
      <4>1. Go(p, "target") /\ job' = job BY <1>5, <2>5, <3>3 DEF Retry
      <4>2. job' = [job EXCEPT ![p] = job[p]] /\ job[p] \in Jobs BY <4>1, Types
      <4>3. ~HostFenced BY <2>1, <3>3, Types DEF Waits, HostFenced
      <4>. QED BY <2>3, <3>2, <4>1, <4>2, <4>3
    <3>4. CASE job[p].seen # "same"
      <4>1. Exit(p) /\ Forget(p) BY <1>5, <2>5, <3>4 DEF Retry
      <4>. QED BY <2>1, <3>2, <4>1, DepartFenced
    <3>. QED BY <3>3, <3>4
  <2>. QED BY <2>4, <2>5
<1>6. CASE Latched(p)
  <2>1. phase[p] = "renotify" /\ UNCHANGED host BY <1>6 DEF Latched
  <2>2. CASE Abandon(p, "host") BY <2>1, <2>2, AbandonFenced DEF Reasons
  <2>3. CASE /\ Marked
             /\ escalation' = [escalation EXCEPT !.told = TRUE]
             /\ IF job[p].seen = "same" THEN Latch(p) ELSE Exit(p) /\ Forget(p)
    <3>1. escalation'.class = escalation.class BY <2>3, Types, TellTypes
    <3>. QED BY <2>1, <2>3, <3>1, LatchFenced, DepartFenced
  <2>. QED BY <1>6, <2>2, <2>3 DEF Latched
<1>7. CASE Supersede(p)
  <2>1. phase[p] = "supersede" /\ UNCHANGED <<host, escalation>> BY <1>7 DEF Supersede
  <2>2. CASE Exit(p) /\ Forget(p) BY <2>1, <2>2, DepartFenced
  <2>3. CASE Go(p, "prefix")
    <3>1. phase' = [phase EXCEPT ![p] = "prefix"] /\ phase[p] \in Entered /\ "prefix" \in Entered
      BY <2>1, <2>3 DEF Go, Entered, Pipeline, Preparing
    <3>2. ~Divided' BY <2>1 DEF FInv, Serves, Divided, host
    <3>3. phase'[p] = "prefix" BY <3>1, Types
    <3>4. Serves(p)' /\ Ends(p)' BY <3>2, <3>3 DEF Serves, Ends
    <3>. QED BY <3>1, <3>4, FencedInner
  <2>. QED BY <1>7, <2>2, <2>3 DEF Supersede
<1>8. CASE ReadTarget(p)
  <2>1. phase[p] = "target" /\ UNCHANGED host BY <1>8 DEF ReadTarget
  <2>2. CASE \E reason \in {"transient", "host"} : Abandon(p, reason)
    <3>1. PICK reason \in {"transient", "host"} : Abandon(p, reason) BY <2>2
    <3>. QED BY <2>1, <3>1, AbandonFenced DEF Reasons
  <2>3. CASE Exit(p) /\ Forget(p) /\ UNCHANGED escalation BY <2>1, <2>3, DepartFenced
  <2>4. CASE Go(p, "prefix")
    <3>1. phase' = [phase EXCEPT ![p] = "prefix"] /\ phase[p] \in Entered /\ "prefix" \in Entered
      BY <2>1, <2>4 DEF Go, Entered, Pipeline, Preparing
    <3>2. ~Divided' BY <2>1 DEF FInv, Serves, Divided, host
    <3>3. phase'[p] = "prefix" BY <3>1, Types
    <3>4. Serves(p)' /\ Ends(p)' BY <3>2, <3>3 DEF Serves, Ends
    <3>. QED BY <3>1, <3>4, FencedInner
  <2>. QED BY <1>8, <2>2, <2>3, <2>4 DEF ReadTarget
<1>. QED BY <1>1, <1>2, <1>3, <1>4, <1>5, <1>6, <1>7, <1>8 DEF Invoke

\* A move within the attempt on a host that is not divided and stays so.
LEMMA WholeMove ==
  ASSUME AInv, NEW p \in Procs, phase[p] \in Entered, NEW w \in Entered, Go(p, w),
         ~Divided', w \notin {"restart", "restore"},
         w \in {"verify", "announce"} => "deployed" \in job'[p].facts
  PROVE  FInv'
<1>1. phase' = [phase EXCEPT ![p] = w] /\ phase'[p] = w BY Types DEF Go
<1>2. Serves(p)' /\ Ends(p)' BY <1>1 DEF Serves, Ends
<1>. QED BY <1>1, <1>2, FencedInner

LEMMA UpgradeFenced ==
  ASSUME BoundsAssumption, AInv, FInv, NEW p \in Procs, Upgrade(p)
  PROVE  FInv'
<1>0. Serves(p) BY DEF FInv
<1>1. CASE ReadRevisions(p)
  <2>. DEFINE w == IF current = job[p].target THEN "selfclear" ELSE "artifact"
  <2>1. phase[p] = "prefix" /\ Go(p, w) /\ UNCHANGED host /\ w \in {"selfclear", "artifact"}
    BY <1>1 DEF ReadRevisions
  <2>. HIDE DEF w
  <2>2. phase[p] \in Entered /\ w \in Entered BY <2>1 DEF Entered, Pipeline, Preparing
  <2>3. ~Divided' BY <1>0, <2>1 DEF Serves, Preparing, Divided, host
  <2>. QED BY <2>1, <2>2, <2>3, WholeMove
<1>2. CASE BuildArtifact(p)
  <2>1. phase[p] = "artifact" /\ Go(p, "window") /\ UNCHANGED host BY <1>2 DEF BuildArtifact
  <2>2. phase[p] \in Entered /\ "window" \in Entered BY <2>1 DEF Entered, Pipeline, Preparing
  <2>3. ~Divided' BY <1>0, <2>1 DEF Serves, Preparing, Divided, host
  <2>. QED BY <2>1, <2>2, <2>3, WholeMove
<1>3. CASE AcquireWindow(p)
  <2>1. PICK w \in {"backup", "release"} : Go(p, w) BY <1>3 DEF AcquireWindow
  <2>2. phase[p] \in Entered /\ w \in Entered BY <1>3, <2>1 DEF AcquireWindow, Entered, Pipeline, Preparing
  <2>3. ~Divided' BY <1>0, <1>3 DEF AcquireWindow, Serves, Preparing, Divided, host
  <2>. QED BY <2>1, <2>2, <2>3, WholeMove
<1>4. CASE Backup(p)
  <2>1. phase[p] = "backup" /\ Go(p, "migrate") /\ UNCHANGED host BY <1>4 DEF Backup
  <2>2. phase[p] \in Entered /\ "migrate" \in Entered BY <2>1 DEF Entered, Pipeline, Preparing
  <2>3. ~Divided' BY <1>0, <2>1 DEF Serves, Preparing, Divided, host
  <2>. QED BY <2>1, <2>2, <2>3, WholeMove
<1>5. CASE Migrate(p)
  <2>1. phase[p] = "migrate" /\ Go(p, "quiet") /\ UNCHANGED <<current, serving>> BY <1>5 DEF Migrate
  <2>2. phase[p] \in Entered /\ "quiet" \in Entered BY <2>1 DEF Entered, Pipeline, Preparing
  <2>3. ~Divided' BY <1>0, <2>1 DEF Serves, Preparing, Divided
  <2>. QED BY <2>1, <2>2, <2>3, WholeMove
<1>6. CASE AssertStillQuiet(p)
  <2>1. phase[p] = "quiet" /\ Go(p, "publish") /\ UNCHANGED host BY <1>6 DEF AssertStillQuiet
  <2>2. phase[p] \in Entered /\ "publish" \in Entered BY <2>1 DEF Entered, Pipeline, Preparing, Activating
  <2>3. ~Divided' BY <1>0, <2>1 DEF Serves, Preparing, Divided, host
  <2>. QED BY <2>1, <2>2, <2>3, WholeMove
<1>7. CASE Publish(p)
  <2>1. phase[p] \in Entered /\ "restart" \in Entered /\ phase' = [phase EXCEPT ![p] = "restart"]
    BY <1>7 DEF Publish, Go, Entered, Pipeline, Activating
  <2>2. phase'[p] = "restart" BY <2>1, Types
  <2>3. job' = [job EXCEPT ![p] = [job[p] EXCEPT !.facts = @ \cup {"activated", "proven", "deployed"},
                                                !.todo = Units]]
    BY <1>7 DEF Publish
  <2>4. job'[p].todo = Units /\ "deployed" \in job'[p].facts BY <2>3, Types DEF Jobs
  <2>5. Serves(p)' /\ Ends(p)' BY <2>2, <2>4 DEF Serves, Ends, Preparing
  <2>. QED BY <2>1, <2>5, FencedInner
<1>8. CASE RestartUnit(p)
  <2>1. phase[p] \in {"restart", "restore"} /\ phase[p] \in Entered /\ phase' = phase
        /\ current' = current
    BY <1>8 DEF RestartUnit, Entered, Pipeline, Activating, Recovering
  <2>2. phase' = [phase EXCEPT ![p] = phase[p]] BY <2>1, Types
  <2>3. PICK u \in job[p].todo : /\ serving' = [serving EXCEPT ![u] = current]
                                /\ job' = [job EXCEPT ![p] = [job[p] EXCEPT !.todo = @ \ {u}]]
    BY <1>8 DEF RestartUnit
  <2>4. job'[p].todo = job[p].todo \ {u} /\ job'[p].facts = job[p].facts BY <2>3, Types DEF Jobs
  <2>5. \A v \in Units : v \notin job'[p].todo => serving'[v] = current'
    <3>. SUFFICES ASSUME NEW v \in Units, v \notin job'[p].todo PROVE serving'[v] = current
      BY <2>1
    <3>1. CASE v = u BY <2>3, <3>1, Types
    <3>2. CASE v # u BY <1>0, <2>1, <2>3, <2>4, <3>2, Types DEF Serves
    <3>. QED BY <3>1, <3>2
  <2>6. Serves(p)' /\ Ends(p)' BY <1>0, <2>1, <2>4, <2>5 DEF Serves, Ends, Preparing
  <2>. QED BY <2>1, <2>2, <2>6, FencedInner
<1>9. CASE RestartsDone(p)
  <2>. DEFINE w == IF phase[p] = "restart" THEN "verify" ELSE "settle"
  <2>1. /\ phase[p] \in {"restart", "restore"} /\ Go(p, w) /\ UNCHANGED <<host, job>>
        /\ job[p].todo = {} /\ w \in {"verify", "settle"} /\ (w = "verify" => phase[p] = "restart")
    BY <1>9 DEF RestartsDone
  <2>. HIDE DEF w
  <2>2. phase[p] \in Entered /\ w \in Entered
    BY <2>1 DEF Entered, Pipeline, Activating, Recovering
  <2>3. ~Divided' BY <1>0, <2>1 DEF Serves, Divided, host
  <2>4. w \in {"verify", "announce"} => "deployed" \in job'[p].facts BY <1>0, <2>1 DEF Serves
  <2>5. w \notin {"restart", "restore"} BY <2>1
  <2>. QED BY <2>1, <2>2, <2>3, <2>4, <2>5, WholeMove
<1>10. CASE VerifyServices(p)
  <2>1. phase[p] = "verify" /\ Go(p, "announce") /\ UNCHANGED <<host, job>> BY <1>10 DEF VerifyServices
  <2>2. phase[p] \in Entered /\ "announce" \in Entered BY <2>1 DEF Entered, Pipeline, Activating
  <2>3. ~Divided' /\ "deployed" \in job'[p].facts BY <1>0, <2>1 DEF Serves, Divided, host
  <2>. QED BY <2>1, <2>2, <2>3, WholeMove
<1>11. CASE Announce(p)
  <2>1. phase[p] = "announce" /\ Go(p, "selfclear") /\ UNCHANGED host BY <1>11 DEF Announce
  <2>2. phase[p] \in Entered /\ "selfclear" \in Entered BY <2>1 DEF Entered, Pipeline, Activating
  <2>3. ~Divided' BY <1>0, <2>1 DEF Serves, Divided, host
  <2>. QED BY <2>1, <2>2, <2>3, WholeMove
<1>12. CASE SelfClear(p)
  <2>1. phase[p] = "selfclear" /\ Go(p, "release") /\ UNCHANGED host BY <1>12 DEF SelfClear
  <2>2. phase[p] \in Entered /\ "release" \in Entered BY <2>1 DEF Entered
  <2>3. ~Divided' BY <1>0, <2>1 DEF Serves, Divided, host
  <2>. QED BY <2>1, <2>2, <2>3, WholeMove
<1>. QED BY <1>1, <1>2, <1>3, <1>4, <1>5, <1>6, <1>7, <1>8, <1>9, <1>10, <1>11, <1>12 DEF Upgrade

LEMMA RecoverFenced ==
  ASSUME ProcsAssumption, BoundsAssumption, FailsTwice = FALSE, AInv, FInv, NEW p \in Procs, Recover(p)
  PROVE  FInv'
<1>0. Serves(p) /\ Ends(p) BY DEF FInv
<1>1. CASE PublishFails(p)
  <2>1. phase[p] = "publish" /\ phase' = [phase EXCEPT ![p] = "failed"] /\ serving' = serving
    BY <1>1 DEF PublishFails, Go
  <2>2. phase[p] \in Entered /\ "failed" \in Entered /\ phase'[p] = "failed"
    BY <2>1, Types DEF Entered, Pipeline, Activating, Recovering
  <2>3. Divided' => job'[p].reason = "host"
    <3>1. CASE job' = [job EXCEPT ![p].facts = @ \cup {"activated", "proven"}, ![p].reason = "host"]
      BY <3>1, Types DEF Jobs
    <3>2. CASE UNCHANGED <<current, previous>> BY <1>0, <2>1, <3>2 DEF Serves, Divided
    <3>. QED BY <1>1, <3>1, <3>2 DEF PublishFails
  <2>4. Serves(p)' /\ Ends(p)' BY <2>2, <2>3 DEF Serves, Ends, Preparing
  <2>. QED BY <2>1, <2>2, <2>4, FencedInner
<1>2. CASE PhaseFails(p)
  <2>. DEFINE w == IF "deployed" \in job[p].facts THEN "rollback" ELSE "failed"
  <2>1. /\ phase[p] \in Preparing \cup {"restart", "verify", "announce"}
        /\ phase' = [phase EXCEPT ![p] = w] /\ UNCHANGED host
    BY <1>2 DEF PhaseFails, FailsWith, Go, Preparing
  <2>2. phase[p] \in Entered /\ w \in Entered
    BY <2>1 DEF Entered, Pipeline, Activating, Recovering
  <2>3. w = "rollback" \/ (w = "failed" /\ ~Divided')
    <3>1. phase[p] \in Preparing => ~Divided' BY <1>0, <2>1 DEF Serves, Divided, host
    <3>2. phase[p] \notin Preparing => "deployed" \in job[p].facts BY <1>0, <2>1 DEF Serves
    <3>. QED BY <3>1, <3>2
  <2>. HIDE DEF w
  <2>4. phase'[p] = w BY <2>1, Types
  <2>5. Serves(p)' /\ Ends(p)' BY <2>3, <2>4 DEF Serves, Ends, Preparing
  <2>. QED BY <2>1, <2>2, <2>5, FencedInner
<1>3. CASE MigrationFails(p)
  <2>1. phase[p] = "migrate" /\ Go(p, "failed") /\ UNCHANGED <<current, serving>> BY <1>3 DEF MigrationFails
  <2>2. phase[p] \in Entered /\ "failed" \in Entered BY <2>1 DEF Entered, Pipeline, Preparing, Recovering
  <2>3. ~Divided' BY <1>0, <2>1 DEF Serves, Preparing, Divided
  <2>. QED BY <2>1, <2>2, <2>3, WholeMove
<1>4. CASE Rollback(p)
  <2>1. phase[p] \in Entered /\ "restore" \in Entered /\ phase' = [phase EXCEPT ![p] = "restore"]
        /\ job' = [job EXCEPT ![p].todo = Units]
    BY <1>4 DEF Rollback, Go, Entered, Pipeline, Recovering
  <2>2. phase'[p] = "restore" /\ job'[p].todo = Units BY <2>1, Types DEF Jobs
  <2>3. Serves(p)' /\ Ends(p)' BY <2>2 DEF Serves, Ends, Preparing
  <2>. QED BY <2>1, <2>3, FencedInner
<1>5. CASE RecoveryFails(p)
  <2>1. phase[p] \in {"rollback", "restore", "settle"} /\ phase' = [phase EXCEPT ![p] = "failed"]
        /\ job' = [job EXCEPT ![p].reason = "host", ![p].facts = @ \ {"proven"}, ![p].todo = {}]
    BY <1>5 DEF RecoveryFails, Unproven, Go
  <2>2. phase[p] \in Entered /\ "failed" \in Entered BY <2>1 DEF Entered, Pipeline, Recovering
  <2>3. phase'[p] = "failed" /\ job'[p].reason = "host" BY <2>1, Types DEF Jobs
  <2>4. Serves(p)' /\ Ends(p)' BY <2>3 DEF Serves, Ends, Preparing
  <2>. QED BY <2>1, <2>2, <2>4, FencedInner
<1>6. CASE Settle(p)
  <2>1. phase[p] = "settle" /\ Go(p, "failed") /\ UNCHANGED host BY <1>6 DEF Settle
  <2>2. phase[p] \in Entered /\ "failed" \in Entered BY <2>1 DEF Entered, Pipeline, Recovering
  <2>3. ~Divided' BY <1>0, <2>1 DEF Serves, Divided, host
  <2>. QED BY <2>1, <2>2, <2>3, WholeMove
<1>7. CASE Failed(p)
  <2>1. phase[p] = "failed" /\ phase' = [phase EXCEPT ![p] = "release"] /\ UNCHANGED host
        /\ Record(p, job[p].reason)
    BY <1>7 DEF Failed, Go
  <2>2. phase[p] \in Entered /\ "release" \in Entered /\ phase'[p] = "release"
    BY <2>1, Types DEF Entered, Pipeline, Recovering
  <2>3. Divided => escalation'.class = "host"
    <3>. SUFFICES ASSUME Divided PROVE escalation'.class = "host" OBVIOUS
    <3>1. job[p].reason = "host" BY <1>0, <2>1 DEF Serves
    <3>2. escalation'.class = Scope("host", job[p].target, Proven(p))
      BY <2>1, <3>1, RecordStep DEF Reasons
    <3>3. Scope("host", job[p].target, Proven(p)) = "host" BY DEF Scope
    <3>. QED BY <3>2, <3>3
  <2>4. Divided' = Divided BY <2>1 DEF Divided, host
  <2>5. Serves(p)' /\ Ends(p)' BY <2>2, <2>3, <2>4 DEF Serves, Ends, Preparing, HostFenced
  <2>. QED BY <2>1, <2>2, <2>5, FencedInner
<1>8. CASE Release(p)
  <2>1. phase[p] = "release" /\ phase' = [phase EXCEPT ![p] = "finish"] /\ UNCHANGED host
    BY <1>8 DEF Release, Go
  <2>2. phase[p] \in Entered /\ "finish" \in Entered /\ phase'[p] = "finish" BY <2>1, Types DEF Entered
  <2>3. Divided' = Divided BY <2>1 DEF Divided, host
  <2>4. ~Divided \/ escalation'.class = "host"
    <3>1. ~Divided \/ HostFenced BY <1>0, <2>1 DEF Ends
    <3>. QED BY <1>8, <3>1 DEF Release, HostFenced
  <2>5. Serves(p)' /\ Ends(p)' BY <2>2, <2>3, <2>4 DEF Serves, Ends, Preparing, HostFenced
  <2>. QED BY <2>1, <2>2, <2>5, FencedInner
<1>9. CASE Finish(p) BY <1>9, DepartFenced DEF Finish
<1>. QED BY <1>1, <1>2, <1>3, <1>4, <1>5, <1>6, <1>7, <1>8, <1>9 DEF Recover

LEMMA CrashFenced ==
  ASSUME ProcsAssumption, AInv, FInv, NEW p \in Procs, ProcessCrashes(p)
  PROVE  FInv'
<1>1. /\ phase' = [phase EXCEPT ![p] = "off"] /\ job' = [job EXCEPT ![p] = NoJob]
      /\ lock' = (IF lock = p THEN Dead ELSE lock) /\ UNCHANGED <<host, escalation>>
  BY DEF ProcessCrashes, Go, Forget
<1>2. Aside(p) BY <1>1, Types, OneJob, NoJobType, StageSets
<1>3. CASE phase[p] \in Entered
  <2>1. lock' = Dead BY <1>1, <1>3, Types DEF Alone
  <2>. QED BY <1>1, <1>3, <2>1, FencedLeave
<1>4. CASE phase[p] \notin Entered
  BY <1>1, <1>2, <1>4, FencedStay, StageSets DEF HostFenced
<1>. QED BY <1>3, <1>4

LEMMA OperatorFenced ==
  ASSUME AInv, FInv, OperatorClears
  PROVE  FInv'
<1>1. /\ job' = Replaced(job) /\ UNCHANGED <<current, lock, phase>> BY DEF OperatorClears
<1>2. \A q \in Procs : job'[q].todo = job[q].todo /\ job'[q].facts = job[q].facts
                       /\ job'[q].reason = job[q].reason
  BY <1>1, Types, ReplacedType
<1>3. CASE HostFenced
  <2>1. /\ \A q \in Procs : phase[q] = "off"
        /\ serving' = [u \in Units |-> current]
    BY <1>3 DEF OperatorClears, HostFenced
  <2>2. ~Divided' BY <1>1, <2>1 DEF Divided
  <2>3. \A q \in Procs : Serves(q)' /\ Ends(q)' BY <1>1, <2>1, <2>2 DEF Serves, Ends, Preparing
  <2>. QED BY <2>2, <2>3 DEF FInv, DividedIsFenced
<1>4. CASE ~HostFenced
  <2>1. serving' = serving BY <1>4 DEF OperatorClears, HostFenced
  <2>2. Divided' = Divided BY <1>1, <2>1 DEF Divided
  <2>3. ASSUME NEW q \in Procs PROVE Serves(q)' /\ Ends(q)'
    <3>1. Serves(q) /\ Ends(q) BY DEF FInv
    <3>2. Serves(q)' BY <1>1, <1>2, <2>1, <2>2, <3>1 DEF Serves
    <3>3. Ends(q)' BY <1>1, <1>4, <2>2, <3>1 DEF Ends
    <3>. QED BY <3>2, <3>3
  <2>4. DividedIsFenced' BY <1>1, <1>4, <2>2 DEF FInv, DividedIsFenced, HostFenced
  <2>. QED BY <2>3, <2>4 DEF FInv
<1>. QED BY <1>3, <1>4

LEMMA FencedStart ==
  ASSUME AttemptInit
  PROVE  FInv
<1>1. ~Divided
  <2>1. current = 1 /\ serving = [u \in Units |-> 1] BY DEF AttemptInit
  <2>. QED BY <2>1 DEF Divided
<1>2. \A q \in Procs : phase[q] = "off" BY DEF AttemptInit
<1>. QED BY <1>1, <1>2 DEF FInv, DividedIsFenced, Serves, Ends, Preparing

LEMMA FencedStep ==
  ASSUME ProcsAssumption, BoundsAssumption, FailsTwice = FALSE, AInv, FInv, [AttemptNext]_attemptVars
  PROVE  FInv'
<1>1. ASSUME NEW p \in Procs, Process(p) PROVE FInv'
  BY <1>1, InvokeFenced, UpgradeFenced, RecoverFenced DEF Process
<1>2. ASSUME NEW p \in Procs, ProcessCrashes(p) PROVE FInv' BY <1>2, CrashFenced
<1>3. CASE OperatorClears BY <1>3, OperatorFenced
<1>4. CASE MainMoves \/ IntervalPasses \/ BackoffExpires \/ UNCHANGED attemptVars
  <2>1. UNCHANGED <<current, serving, lock, phase, job>>
    BY <1>4 DEF MainMoves, IntervalPasses, BackoffExpires, attemptVars, host
  <2>2. escalation'.class = escalation.class
    <3>1. CASE BackoffExpires
      <4>1. Marked BY <3>1 DEF BackoffExpires, Marked
      <4>2. escalation' = [escalation EXCEPT !.due = TRUE] BY <3>1 DEF BackoffExpires
      <4>. QED BY <4>1, <4>2, Types, MarkedRecord
    <3>2. CASE MainMoves \/ IntervalPasses \/ UNCHANGED attemptVars
      BY <3>2 DEF MainMoves, IntervalPasses, attemptVars
    <3>. QED BY <1>4, <3>1, <3>2
  <2>. QED BY <2>1, <2>2 DEF FInv, DividedIsFenced, Divided, Serves, Ends, HostFenced
<1>. QED BY <1>1, <1>2, <1>3, <1>4 DEF AttemptNext

-----------------------------------------------------------------------------

(* AInv holds in every reachable state, however often a release fails.     *)
THEOREM AttemptInvariant == AttemptSpec => []AInv
<1>1. AttemptInit => AInv BY AttemptStart, ProcsAssumption, BoundsAssumption
<1>2. AInv /\ [AttemptNext]_attemptVars => AInv'
  BY AttemptStep, ProcsAssumption, BoundsAssumption
<1>. QED BY <1>1, <1>2, PTL DEF AttemptSpec

(* The variables of the deploy attempts have their types.                  *)
THEOREM AttemptTypeCorrect == AttemptSpec => []AttemptTypeOK
<1>1. AInv => AttemptTypeOK BY DEF AInv
<1>. QED BY <1>1, AttemptInvariant, PTL

(* The host is in a state its processes can read: no service runs, and no  *)
(* pointer names, a release newer than the migrations in the database.     *)
THEOREM HostStaysOK == AttemptSpec => []HostOK
<1>1. AInv => HostOK BY DEF AInv, SchemaOK, HostOK
<1>. QED BY <1>1, AttemptInvariant, PTL

(* Two deploys never overlap, for any number of processes and any takeover *)
(* of the process lock.                                                    *)
THEOREM DeploysStayApart == AttemptSpec => []DeploysDoNotOverlap
<1>1. AInv => DeploysDoNotOverlap
  BY DEF AInv, ProcOK, Alone, DeploysDoNotOverlap, Entered, Pipeline, Preparing, Activating, Recovering
<1>. QED BY <1>1, AttemptInvariant, PTL

(* FInv holds too, when no second failure replaces a host-scoped marker.   *)
THEOREM FencedInvariant ==
  ASSUME FailsTwice = FALSE
  PROVE  AttemptSpec => [](AInv /\ FInv)
<1>1. AttemptInit => AInv /\ FInv BY AttemptStart, FencedStart, ProcsAssumption, BoundsAssumption
<1>2. AInv /\ FInv /\ [AttemptNext]_attemptVars => AInv' /\ FInv'
  BY AttemptStep, FencedStep, ProcsAssumption, BoundsAssumption
<1>. QED BY <1>1, <1>2, PTL DEF AttemptSpec

(* Whatever is killed, fails or loses the lock, a host whose services do    *)
(* not all run what the pointer says is at work on, has a dead owner or is *)
(* fenced by a host-scoped marker.                                         *)
THEOREM DividedStaysFenced ==
  ASSUME FailsTwice = FALSE
  PROVE  AttemptSpec => []DividedIsFenced
<1>1. AInv /\ FInv => DividedIsFenced BY DEF FInv
<1>. QED BY <1>1, FencedInvariant, PTL

(* No attempt prepares an upgrade on a divided host, and none goes for the  *)
(* commit that latched, also when main moves under it: every target of an  *)
(* attempt is newer than the commit of the marker.                         *)
THEOREM LatchesHold ==
  ASSUME FailsTwice = FALSE
  PROVE  AttemptSpec => []NoLatchIsPassed
<1>1. AInv /\ FInv => NoLatchIsPassed
  <2>. SUFFICES ASSUME AInv, FInv PROVE NoLatchIsPassed OBVIOUS
  <2>1. StartsFromProvenState BY DEF FInv, Serves, StartsFromProvenState
  <2>2. LatchedCommitIsLeftAlone
    <3>. SUFFICES ASSUME NEW q \in Procs, phase[q] \in Preparing \cup Activating,
                         escalation.class = "commit"
                  PROVE  job[q].target # escalation.to
      BY DEF LatchedCommitIsLeftAlone
    <3>1. Marked BY DEF Marked
    <3>2. escalation.to \in Nat BY <3>1, Types, MarkedRecord, CommitFacts, BoundsAssumption
    <3>3. escalation.to < job[q].target BY Types DEF Passes
    <3>. QED BY <3>2, <3>3, SchemaNumbers, BoundsAssumption
  <2>. QED BY <2>1, <2>2 DEF NoLatchIsPassed
<1>. QED BY <1>1, FencedInvariant, PTL
=============================================================================
