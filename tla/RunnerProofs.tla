---------------------------- MODULE RunnerProofs ----------------------------
(***************************************************************************)
(* Theorems about the runner: RunnerLease, for every number of claims and  *)
(* relaunches, and SessionEventQueue, for every bound and every size.      *)
(*                                                                         *)
(* IInv says of each claim what the awaits of its main flow rely on: while *)
(* the authority is lost and the provider may run, or may still come, a    *)
(* stop is pending (StopIsPending); past the execution no provider runs    *)
(* (PastIsOver); a cancellation is acknowledged after its stop             *)
(* (StoppedFirst).                                                         *)
(*                                                                         *)
(* QInv says that each sequence number is answered for once: entries that  *)
(* came from events the provider pushed account for themselves             *)
(* (OwnAccount), the request in flight is the head of the queue as it was  *)
(* claimed (Carried), the API has nothing newer than what waits (Sorted),  *)
(* and accounts and rows are disjoint while no answer was lost (Apart).    *)
(***************************************************************************)
EXTENDS RunnerLease, SessionEventQueue, FiniteSetTheorems, WellFoundedInduction, TLAPS

Early == {"off", "provision", "preflight", "gate", "credentials"}
Past == {"exited", "renewing", "relaunching", "wrapup", "remediating",
         "entering", "draining", "lost", "delivering", "reclaiming", "disposing",
         "finishing", "closing", "closed", "done"}

Unstarted(c) == pc[c] \in Early \/ slot[c] = "open" => provider[c] = "none"
StartingAlone(c) ==
    /\ pc[c] = "starting" => slot[c] = "started"
    /\ slot[c] = "started" => provider[c] # "running"
StopIsPending(c) ==
    (provider[c] = "running" \/ slot[c] # "gone") /\ ~Held(c) =>
        revoking[c] \/ cancelling[c] = "stopping"
LaunchRefused(c) == pc[c] = "unlaunched" => ~Held(c)
PastIsOver(c) == pc[c] \in Past => provider[c] # "running"
StoppedFirst(c) ==
    cancelling[c] \in {"acking", "done"} => provider[c] # "running" /\ slot[c] = "gone"
CancelledOnly(c) == cancelling[c] # "none" => authority[c] = "cancelled"
NotYetClaimed(c) == c > gen => pc[c] = "off"
RelaunchAllowed(c) ==
    pc[c] \in {"renewing", "relaunching"} => relaunches[c] < MaxRelaunches
AckedFirst == acked # 0 => cancelling[acked] = "done"

ClaimOK(c) ==
    /\ Unstarted(c) /\ StartingAlone(c) /\ StopIsPending(c) /\ LaunchRefused(c)
    /\ PastIsOver(c) /\ StoppedFirst(c) /\ CancelledOnly(c) /\ NotYetClaimed(c)
    /\ RelaunchAllowed(c)

IInv == TypeOK /\ AckedFirst /\ \A c \in Claims : ClaimOK(c)

-----------------------------------------------------------------------------
(***************************************************************************)
(* Types.                                                                  *)
(***************************************************************************)
LEMMA GoesTo ==
    ASSUME TypeOK, NEW c \in Claims, NEW p \in Places, Goes(c, p)
    PROVE  pc' \in [Claims -> Places]
BY DEF TypeOK, Goes

LEMMA AdoptTypes ==
    ASSUME TypeOK, NEW c \in Claims, NEW v \in Authority, Adopt(c, v)
    PROVE  /\ authority' \in [Claims -> Authority]
           /\ revoking' \in [Claims -> BOOLEAN]
           /\ cancelling' \in [Claims -> {"none", "stopping", "acking", "done"}]
<1>1. CASE v = "held" \/ authority[c] = "cancelled" BY <1>1 DEF TypeOK, Adopt
<1>2. CASE v = "cancelled" /\ authority[c] # "cancelled" BY <1>2 DEF TypeOK, Adopt
<1>3. CASE v \notin {"held", "cancelled"} /\ authority[c] # "cancelled"
  <2>1. PICK w \in Authority : authority' = [authority EXCEPT ![c] = w]
    BY <1>3 DEF TypeOK, Adopt
  <2>2. authority' \in [Claims -> Authority] BY <2>1 DEF TypeOK
  <2>. QED BY <1>3, <2>2 DEF TypeOK, Adopt
<1>. QED BY <1>1, <1>2, <1>3

LEMMA TypeNext ==
    ASSUME RunnerAssumption, TypeOK, [Next]_vars,
           \A c \in Claims : NotYetClaimed(c) /\ RelaunchAllowed(c)
    PROVE  TypeOK'
<1>. USE DEF RunnerAssumption, TypeOK, Claims, Statuses, Authority, Places, Closed,
             Remediated, Goes, Held, run, lease, flow, NotYetClaimed, RelaunchAllowed
<1>1. CASE Suspend BY <1>1 DEF Suspend, Live
<1>2. CASE Answered BY <1>2 DEF Answered
<1>3. CASE RequestCancel BY <1>3 DEF RequestCancel, Owned, Live
<1>4. CASE Dismiss \/ Lapse \/ Expire
  <2>1. status' \in Statuses BY <1>4 DEF Dismiss, Lapse, Expire
  <2>2. cancelled' \in BOOLEAN /\ lapsed' \in BOOLEAN
    <3>1. CASE Dismiss BY <3>1, Zenon DEF Dismiss
    <3>2. CASE Lapse \/ Expire BY <3>2, Zenon DEF Lapse, Expire
    <3>. QED BY <1>4, <3>1, <3>2
  <2>3. UNCHANGED <<gen, acked, workspace, lease, flow>> BY <1>4 DEF Dismiss, Lapse, Expire
  <2>. QED BY <2>1, <2>2, <2>3
<1>5. ASSUME NEW c \in Claims, Claim(c) PROVE TypeOK'
  <2>1. status' \in Statuses BY <1>5 DEF Claim
  <2>2. gen' \in 0..MaxClaims BY <1>5 DEF Claim
  <2>3. pc' \in [Claims -> Places] BY <1>5 DEF Claim
  <2>4. \A d \in Claims : slot'[d] = "started" => pc'[d] = "starting"
    BY <1>5 DEF Claim
  <2>. QED BY <1>5, <2>1, <2>2, <2>3, <2>4 DEF Claim
<1>6. ASSUME NEW c \in Claims, Tick(c) PROVE TypeOK' BY <1>6 DEF Tick, Renewing
<1>7. ASSUME NEW c \in Claims, FlushRefused(c) PROVE TypeOK'
  <2>1. \E v \in Authority : Adopt(c, v)
    BY <1>7 DEF FlushRefused, HeartbeatVerdict, CallVerdict
  <2>2. authority' \in [Claims -> Authority] BY <2>1, AdoptTypes
  <2>3. revoking' \in [Claims -> BOOLEAN] BY <2>1, AdoptTypes
  <2>4. cancelling' \in [Claims -> {"none", "stopping", "acking", "done"}]
    BY <2>1, AdoptTypes
  <2>. QED BY <1>7, <2>1, <2>2, <2>3, <2>4 DEF FlushRefused
<1>8. ASSUME NEW c \in Claims, ProviderExits(c) PROVE TypeOK' BY <1>8 DEF ProviderExits
<1>9. ASSUME NEW c \in Claims, RenewalAnswered(c) PROVE TypeOK'
  <2>1. \E v \in Authority : Adopt(c, v)
    BY <1>9 DEF RenewalAnswered, HeartbeatVerdict, CallVerdict
  <2>2. authority' \in [Claims -> Authority] BY <2>1, AdoptTypes
  <2>3. revoking' \in [Claims -> BOOLEAN] BY <2>1, AdoptTypes
  <2>4. cancelling' \in [Claims -> {"none", "stopping", "acking", "done"}]
    BY <2>1, AdoptTypes
  <2>5. renewal' \in [Claims -> {"none", "sent", "adopting"}]
    BY <1>9 DEF RenewalAnswered, Adopt, HeartbeatVerdict, CallVerdict, Live, Owned
  <2>6. heard' \in [Claims -> BOOLEAN]
    BY <1>9 DEF RenewalAnswered, Adopt, HeartbeatVerdict, CallVerdict, Live, Owned
  <2>. QED BY <1>9, <2>1, <2>2, <2>3, <2>4, <2>5, <2>6 DEF RenewalAnswered
<1>10. ASSUME NEW c \in Claims, RenewalFails(c) PROVE TypeOK' BY <1>10 DEF RenewalFails
<1>11. ASSUME NEW c \in Claims, RenewalSettles(c) PROVE TypeOK' BY <1>11 DEF RenewalSettles
<1>12. ASSUME NEW c \in Claims, RevocationStops(c) PROVE TypeOK'
  BY <1>12 DEF RevocationStops, Stopped, LaunchSettled
<1>13. ASSUME NEW c \in Claims, CancellationStops(c) PROVE TypeOK'
  BY <1>13 DEF CancellationStops, Stopped, LaunchSettled
<1>14. ASSUME NEW c \in Claims, Acknowledge(c) PROVE TypeOK'
  <2>1. /\ status' \in Statuses /\ acked' \in 0..MaxClaims
        /\ lapsed' = FALSE \/ UNCHANGED lapsed
    BY <1>14 DEF Acknowledge, Owned
  <2>2. lapsed' \in BOOLEAN BY <2>1, Zenon
  <2>3. cancelling' \in [Claims -> {"none", "stopping", "acking", "done"}]
    BY <1>14 DEF Acknowledge
  <2>. QED BY <1>14, <2>1, <2>2, <2>3 DEF Acknowledge
<1>15. ASSUME NEW c \in Claims, Provision(c) PROVE TypeOK'
  <2>1. workspace' \in BOOLEAN BY <1>15 DEF Provision
  <2>2. \E p \in Places : Goes(c, p) BY <1>15 DEF Provision
  <2>3. pc' \in [Claims -> Places] BY <2>2, GoesTo
  <2>4. \A d \in Claims : slot'[d] = "started" => pc'[d] = "starting"
    BY <1>15 DEF Provision
  <2>. QED BY <1>15, <2>1, <2>2, <2>3, <2>4 DEF Provision
<1>16. ASSUME NEW c \in Claims, Preflight(c) PROVE TypeOK'
  <2>1. \E p \in Places : Goes(c, p) BY <1>16 DEF Preflight
  <2>2. pc' \in [Claims -> Places] BY <2>1, GoesTo
  <2>3. slot' \in [Claims -> {"open", "started", "gone"}] BY <1>16 DEF Preflight, Abandon
  <2>4. \A d \in Claims : slot'[d] = "started" => pc'[d] = "starting"
    BY <1>16 DEF Preflight, Abandon
  <2>. QED BY <1>16, <2>1, <2>2, <2>3, <2>4 DEF Preflight, Abandon
<1>17. ASSUME NEW c \in Claims, Gate(c) PROVE TypeOK' BY <1>17 DEF Gate, Checkpoint, Pending
<1>18. ASSUME NEW c \in Claims, Credentials(c) PROVE TypeOK'
  <2>1. \E p \in Places : Goes(c, p) BY <1>18 DEF Credentials, Launching
  <2>2. pc' \in [Claims -> Places] BY <2>1, GoesTo
  <2>3. slot' \in [Claims -> {"open", "started", "gone"}]
    BY <1>18 DEF Credentials, Launching, Abandon
  <2>4. \A d \in Claims : slot'[d] = "started" => pc'[d] = "starting"
    BY <1>18 DEF Credentials, Launching, Abandon
  <2>. QED BY <1>18, <2>1, <2>2, <2>3, <2>4 DEF Credentials, Launching, Abandon
<1>19. ASSUME NEW c \in Claims, Unlaunched(c) PROVE TypeOK'
  BY <1>19 DEF Unlaunched, Checkpoint, Pending
<1>20. ASSUME NEW c \in Claims, Started(c) PROVE TypeOK' BY <1>20 DEF Started
<1>21. ASSUME NEW c \in Claims, Running(c) PROVE TypeOK'
  <2>1. \E p \in Places : Goes(c, p) BY <1>21 DEF Running
  <2>2. pc' \in [Claims -> Places] BY <2>1, GoesTo
  <2>3. \A d \in Claims : slot'[d] = "started" => pc'[d] = "starting"
    BY <1>21 DEF Running
  <2>. QED BY <1>21, <2>1, <2>2, <2>3 DEF Running
<1>22. ASSUME NEW c \in Claims, Exited(c) PROVE TypeOK'
  <2>1. \E p \in Places : Goes(c, p) BY <1>22 DEF Exited
  <2>2. pc' \in [Claims -> Places] BY <2>1, GoesTo
  <2>3. \A d \in Claims : slot'[d] = "started" => pc'[d] = "starting"
    BY <1>22 DEF Exited
  <2>. QED BY <1>22, <2>1, <2>2, <2>3 DEF Exited
<1>23. ASSUME NEW c \in Claims, RenewNow(c) PROVE TypeOK' BY <1>23 DEF RenewNow, Renewing
<1>24. ASSUME NEW c \in Claims, Relaunch(c) PROVE TypeOK'
  <2>1. \E p \in Places : Goes(c, p) BY <1>24 DEF Relaunch, Launching
  <2>2. pc' \in [Claims -> Places] BY <2>1, GoesTo
  <2>3. slot' \in [Claims -> {"open", "started", "gone"}]
    BY <1>24 DEF Relaunch, Launching, Checkpoint, Pending
  <2>4. relaunches' \in [Claims -> 0..Remediated]
    <3>1. \/ relaunches' = [relaunches EXCEPT ![c] = @ + 1]
          \/ relaunches' = relaunches
      BY <1>24 DEF Relaunch
    <3>2. relaunches[c] < MaxRelaunches BY <1>24 DEF Relaunch
    <3>3. relaunches[c] + 1 \in 0..Remediated BY <3>2
    <3>. QED BY <3>1, <3>3
  <2>5. heard' \in [Claims -> BOOLEAN] BY <1>24 DEF Relaunch, Launching, Checkpoint, Pending
  <2>6. \A d \in Claims : slot'[d] = "started" => pc'[d] = "starting"
    BY <1>24 DEF Relaunch, Launching, Checkpoint, Pending
  <2>. QED
    BY <1>24, <2>1, <2>2, <2>3, <2>4, <2>5, <2>6 DEF Relaunch, Launching, Checkpoint, Pending
<1>25. ASSUME NEW c \in Claims, Unsatisfied(c) PROVE TypeOK'
  <2>1. \E p \in Places : Goes(c, p) BY <1>25 DEF Unsatisfied
  <2>2. pc' \in [Claims -> Places] BY <2>1, GoesTo
  <2>3. \A d \in Claims : slot'[d] = "started" => pc'[d] = "starting"
    BY <1>25 DEF Unsatisfied, Remediated
  <2>. QED BY <1>25, <2>1, <2>2, <2>3 DEF Unsatisfied, Remediated
<1>26. ASSUME NEW c \in Claims, Remediate(c) PROVE TypeOK'
  <2>1. \E p \in Places : Goes(c, p) BY <1>26 DEF Remediate, Launching
  <2>2. pc' \in [Claims -> Places] BY <2>1, GoesTo
  <2>3. slot' \in [Claims -> {"open", "started", "gone"}]
    BY <1>26 DEF Remediate, Launching, Remediated
  <2>4. relaunches' \in [Claims -> 0..Remediated]
    BY <1>26 DEF Remediate, Launching, Remediated
  <2>5. \A d \in Claims : slot'[d] = "started" => pc'[d] = "starting"
    BY <1>26 DEF Remediate, Launching, Remediated
  <2>. QED BY <1>26, <2>1, <2>2, <2>3, <2>4, <2>5 DEF Remediate, Launching, Remediated
<1>27. ASSUME NEW c \in Claims, Wrapup(c) PROVE TypeOK'
  <2>1. \E p \in Places : Goes(c, p) BY <1>27 DEF Wrapup
  <2>2. pc' \in [Claims -> Places] BY <2>1, GoesTo
  <2>3. renewal' \in [Claims -> {"none", "sent", "adopting"}]
    BY <1>27 DEF Wrapup, Renewing, Checkpoint, Pending
  <2>4. \A d \in Claims : slot'[d] = "started" => pc'[d] = "starting"
    BY <1>27 DEF Wrapup, Renewing, Checkpoint, Pending
  <2>. QED BY <1>27, <2>1, <2>2, <2>3, <2>4 DEF Wrapup, Renewing, Checkpoint, Pending
<1>28. ASSUME NEW c \in Claims, EnterDelivery(c) PROVE TypeOK' BY <1>28 DEF EnterDelivery
<1>29. ASSUME NEW c \in Claims, Drained(c) PROVE TypeOK'
  <2>1. \E p \in Places : Goes(c, p) BY <1>29 DEF Drained
  <2>2. pc' \in [Claims -> Places] BY <2>1, GoesTo
  <2>3. \A d \in Claims : slot'[d] = "started" => pc'[d] = "starting"
    BY <1>29 DEF Drained
  <2>. QED BY <1>29, <2>1, <2>2, <2>3 DEF Drained
<1>30. ASSUME NEW c \in Claims, Lost(c) PROVE TypeOK' BY <1>30 DEF Lost, Checkpoint, Pending
<1>31. ASSUME NEW c \in Claims, Deliver(c) PROVE TypeOK' BY <1>31 DEF Deliver
<1>32. ASSUME NEW c \in Claims, Dispose(c) PROVE TypeOK' BY <1>32 DEF Dispose
<1>33. ASSUME NEW c \in Claims, Finish(c) PROVE TypeOK'
  <2>1. status' \in Statuses BY <1>33 DEF Finish
  <2>2. \E p \in Places : Goes(c, p) BY <1>33 DEF Finish
  <2>3. pc' \in [Claims -> Places] BY <2>2, GoesTo
  <2>4. \A e \in Claims : slot'[e] = "started" => pc'[e] = "starting"
    BY <1>33 DEF Finish
  <2>. QED BY <1>33, <2>1, <2>3, <2>4 DEF Finish
<1>34. ASSUME NEW c \in Claims, Caught(c) PROVE TypeOK'
  <2>1. \E p \in Places : Goes(c, p) BY <1>34 DEF Caught
  <2>2. pc' \in [Claims -> Places] BY <2>1, GoesTo
  <2>3. slot' \in [Claims -> {"open", "started", "gone"}]
    BY <1>34 DEF Caught, Abandon, Adopt, CallVerdict, Live
  <2>4. \E v \in Authority : Adopt(c, v)
    BY <1>34 DEF Caught, HeartbeatVerdict, CallVerdict
  <2>5. authority' \in [Claims -> Authority] BY <2>4, AdoptTypes
  <2>6. revoking' \in [Claims -> BOOLEAN] BY <2>4, AdoptTypes
  <2>7. cancelling' \in [Claims -> {"none", "stopping", "acking", "done"}]
    BY <2>4, AdoptTypes
  <2>8. threw' \in [Claims -> BOOLEAN]
    BY <1>34 DEF Caught, Abandon, Adopt, CallVerdict, Live
  <2>9. \A d \in Claims : slot'[d] = "started" => pc'[d] = "starting"
    BY <1>34 DEF Caught, Abandon, Adopt, CallVerdict, Live
  <2>. QED BY <1>34, <2>1, <2>2, <2>3, <2>4, <2>5, <2>6, <2>7, <2>8, <2>9 DEF Caught
<1>35. ASSUME NEW c \in Claims, Settling(c) PROVE TypeOK'
  BY <1>35 DEF Settling, Stopped, Checkpoint, Pending
<1>36. ASSUME NEW c \in Claims, Finally(c) PROVE TypeOK' BY <1>36 DEF Finally, Abandon
<1>37. ASSUME NEW c \in Claims, Close(c) PROVE TypeOK' BY <1>37 DEF Close
<1>38. CASE UNCHANGED vars BY <1>38 DEF vars
<1>. HIDE DEF TypeOK, Claims, Statuses, Authority, Places
<1>. QED
 
    BY <1>1, <1>2, <1>3, <1>4, <1>5, <1>6, <1>7, <1>8, <1>9, <1>10, <1>11, <1>12, <1>13, <1>14, <1>15, <1>16, <1>17, <1>18, <1>19, <1>20, <1>21, <1>22, <1>23, <1>24, <1>25, <1>26, <1>27, <1>28, <1>29, <1>30, <1>31, <1>32, <1>33, <1>34, <1>35, <1>36, <1>37, <1>38
  DEF Next, Control, Tasks, Main

(***************************************************************************)
(* The claims.                                                             *)
(***************************************************************************)
LEMMA ClaimNext ==
    ASSUME RunnerAssumption, IInv, [Next]_vars, NEW d \in Claims
    PROVE  ClaimOK(d)'
<1>. USE DEF RunnerAssumption, IInv, TypeOK, Claims, Statuses, Authority, Places,
             Closed, Remediated, Goes, Held, run, lease, flow, ClaimOK, Unstarted,
             StartingAlone, StopIsPending, LaunchRefused, PastIsOver, StoppedFirst,
             CancelledOnly, NotYetClaimed, RelaunchAllowed, Early, Past
<1>1. CASE Suspend BY <1>1 DEF Suspend, Live
<1>2. CASE Answered BY <1>2 DEF Answered
<1>3. CASE RequestCancel BY <1>3 DEF RequestCancel, Owned, Live
<1>4. CASE Dismiss \/ Lapse \/ Expire
  <2>1. UNCHANGED <<gen, acked, workspace, lease, flow>> BY <1>4 DEF Dismiss, Lapse, Expire
  <2>. QED BY <2>1
<1>5. ASSUME NEW c \in Claims, Claim(c) PROVE ClaimOK(d)' BY <1>5 DEF Claim
<1>6. ASSUME NEW c \in Claims, Tick(c) PROVE ClaimOK(d)' BY <1>6 DEF Tick, Renewing
<1>7. ASSUME NEW c \in Claims, FlushRefused(c) PROVE ClaimOK(d)'
  BY <1>7 DEF FlushRefused, Adopt, CallVerdict, Live
<1>8. ASSUME NEW c \in Claims, ProviderExits(c) PROVE ClaimOK(d)' BY <1>8 DEF ProviderExits
<1>9. ASSUME NEW c \in Claims, RenewalAnswered(c) PROVE ClaimOK(d)'
  BY <1>9 DEF RenewalAnswered, Adopt, HeartbeatVerdict, CallVerdict, Live, Owned
<1>10. ASSUME NEW c \in Claims, RenewalFails(c) PROVE ClaimOK(d)' BY <1>10 DEF RenewalFails
<1>11. ASSUME NEW c \in Claims, RenewalSettles(c) PROVE ClaimOK(d)'
  BY <1>11 DEF RenewalSettles
<1>12. ASSUME NEW c \in Claims, RevocationStops(c) PROVE ClaimOK(d)'
  BY <1>12 DEF RevocationStops, Stopped, LaunchSettled
<1>13. ASSUME NEW c \in Claims, CancellationStops(c) PROVE ClaimOK(d)'
  BY <1>13 DEF CancellationStops, Stopped, LaunchSettled
<1>14. ASSUME NEW c \in Claims, Acknowledge(c) PROVE ClaimOK(d)'
  BY <1>14 DEF Acknowledge, Owned
<1>15. ASSUME NEW c \in Claims, Provision(c) PROVE ClaimOK(d)' BY <1>15 DEF Provision
<1>16. ASSUME NEW c \in Claims, Preflight(c) PROVE ClaimOK(d)'
  BY <1>16 DEF Preflight, Abandon
<1>17. ASSUME NEW c \in Claims, Gate(c) PROVE ClaimOK(d)'
  BY <1>17 DEF Gate, Checkpoint, Pending
<1>18. ASSUME NEW c \in Claims, Credentials(c) PROVE ClaimOK(d)'
  BY <1>18 DEF Credentials, Launching, Abandon
<1>19. ASSUME NEW c \in Claims, Unlaunched(c) PROVE ClaimOK(d)'
  BY <1>19 DEF Unlaunched, Checkpoint, Pending
<1>20. ASSUME NEW c \in Claims, Started(c) PROVE ClaimOK(d)' BY <1>20 DEF Started
<1>21. ASSUME NEW c \in Claims, Running(c) PROVE ClaimOK(d)' BY <1>21 DEF Running
<1>22. ASSUME NEW c \in Claims, Exited(c) PROVE ClaimOK(d)' BY <1>22 DEF Exited
<1>23. ASSUME NEW c \in Claims, RenewNow(c) PROVE ClaimOK(d)'
  BY <1>23 DEF RenewNow, Renewing
<1>24. ASSUME NEW c \in Claims, Relaunch(c) PROVE ClaimOK(d)'
  BY <1>24 DEF Relaunch, Launching, Checkpoint, Pending
<1>25. ASSUME NEW c \in Claims, Unsatisfied(c) PROVE ClaimOK(d)'
  BY <1>25 DEF Unsatisfied, Remediated
<1>26. ASSUME NEW c \in Claims, Remediate(c) PROVE ClaimOK(d)'
  BY <1>26 DEF Remediate, Launching, Remediated
<1>27. ASSUME NEW c \in Claims, Wrapup(c) PROVE ClaimOK(d)'
  BY <1>27 DEF Wrapup, Renewing, Checkpoint, Pending
<1>28. ASSUME NEW c \in Claims, EnterDelivery(c) PROVE ClaimOK(d)'
  BY <1>28 DEF EnterDelivery
<1>29. ASSUME NEW c \in Claims, Drained(c) PROVE ClaimOK(d)' BY <1>29 DEF Drained
<1>30. ASSUME NEW c \in Claims, Lost(c) PROVE ClaimOK(d)'
  BY <1>30 DEF Lost, Checkpoint, Pending
<1>31. ASSUME NEW c \in Claims, Deliver(c) PROVE ClaimOK(d)' BY <1>31 DEF Deliver
<1>32. ASSUME NEW c \in Claims, Dispose(c) PROVE ClaimOK(d)' BY <1>32 DEF Dispose
<1>33. ASSUME NEW c \in Claims, Finish(c) PROVE ClaimOK(d)' BY <1>33 DEF Finish, Live
<1>34. ASSUME NEW c \in Claims, Caught(c) PROVE ClaimOK(d)'
  BY <1>34 DEF Caught, Abandon, Adopt, CallVerdict, Live
<1>35. ASSUME NEW c \in Claims, Settling(c) PROVE ClaimOK(d)'
  BY <1>35 DEF Settling, Stopped, Checkpoint, Pending
<1>36. ASSUME NEW c \in Claims, Finally(c) PROVE ClaimOK(d)' BY <1>36 DEF Finally, Abandon
<1>37. ASSUME NEW c \in Claims, Close(c) PROVE ClaimOK(d)' BY <1>37 DEF Close
<1>38. CASE UNCHANGED vars BY <1>38 DEF vars
<1>. HIDE DEF IInv, ClaimOK, Claims
<1>. QED
 
    BY <1>1, <1>2, <1>3, <1>4, <1>5, <1>6, <1>7, <1>8, <1>9, <1>10, <1>11, <1>12, <1>13, <1>14, <1>15, <1>16, <1>17, <1>18, <1>19, <1>20, <1>21, <1>22, <1>23, <1>24, <1>25, <1>26, <1>27, <1>28, <1>29, <1>30, <1>31, <1>32, <1>33, <1>34, <1>35, <1>36, <1>37, <1>38
  DEF Next, Control, Tasks, Main

\* Only Acknowledge writes acked, and what it finishes stays finished.
LEMMA AckedNext ==
    ASSUME RunnerAssumption, IInv, [Next]_vars
    PROVE  AckedFirst'
<1>. USE DEF IInv, AckedFirst, TypeOK, Claims
<1>1. ASSUME NEW c \in Claims, Acknowledge(c) PROVE AckedFirst' BY <1>1 DEF Acknowledge
<1>2. ASSUME NEW c \in Claims, CancellationStops(c) PROVE AckedFirst'
  BY <1>2 DEF CancellationStops, run
<1>3. ASSUME NEW c \in Claims, RenewalAnswered(c) \/ Caught(c) \/ FlushRefused(c) PROVE AckedFirst'
  <2>1. acked # 0 => authority[acked] = "cancelled" BY DEF ClaimOK, CancelledOnly
  <2>2. acked' = acked BY <1>3 DEF RenewalAnswered, Caught, FlushRefused, run
  <2>3. ASSUME NEW v, Adopt(c, v) PROVE AckedFirst' BY <2>1, <2>2, <2>3 DEF Adopt
  <2>. QED BY <1>3, <2>3 DEF RenewalAnswered, Caught, FlushRefused
<1>4. ASSUME UNCHANGED <<acked, cancelling>> PROVE AckedFirst' BY <1>4
<1>. QED
  BY <1>1, <1>2, <1>3, <1>4
  DEF Next, vars, Control, Suspend, Answered, RequestCancel, Dismiss, Lapse, Expire, Claim, Tick,
      ProviderExits, Tasks, RenewalFails, RenewalSettles, RevocationStops, Main,
      Provision, Preflight, Gate, Credentials, Unlaunched, Started, Running, Exited,
      RenewNow, Relaunch, Unsatisfied, Remediate, Wrapup, EnterDelivery, Drained, Lost,
      Deliver, Dispose, Finish, Settling, Finally, Close, run, lease, flow

-----------------------------------------------------------------------------
\* What the awaits of every claim rely on.
THEOREM Invariance == Spec => []IInv
<1>1. Init => IInv
  <2>. SUFFICES ASSUME Init PROVE IInv OBVIOUS
  <2>1. relaunches \in [Claims -> 0..Remediated]
    BY RunnerAssumption DEF RunnerAssumption, Init, Remediated
  <2>2. 0 \in 0..MaxClaims BY RunnerAssumption DEF RunnerAssumption
  <2>3. TypeOK BY <2>1, <2>2 DEF Init, TypeOK, Statuses, Authority, Places, Closed
  <2>4. AckedFirst BY DEF Init, AckedFirst
  <2>5. ASSUME NEW c \in Claims PROVE ClaimOK(c)
   
      BY DEF Init, ClaimOK, Unstarted, StartingAlone, StopIsPending, LaunchRefused, PastIsOver,
       StoppedFirst, CancelledOnly, NotYetClaimed, RelaunchAllowed, Past, Held
  <2>. QED BY <2>3, <2>4, <2>5 DEF IInv
<1>2. IInv /\ [Next]_vars => IInv'
  <2>. SUFFICES ASSUME IInv, [Next]_vars PROVE IInv' OBVIOUS
  <2>1. TypeOK' BY TypeNext, RunnerAssumption DEF IInv, ClaimOK
  <2>2. AckedFirst' BY AckedNext, RunnerAssumption
  <2>3. \A d \in Claims : ClaimOK(d)' BY ClaimNext, RunnerAssumption
  <2>. QED BY <2>1, <2>2, <2>3 DEF IInv, Claims
<1>. QED BY <1>1, <1>2, PTL DEF Spec

\* The states of a claim and of the Run keep their types, and a launch under way
\* is always one the main flow awaits.
THEOREM TypeCorrect == Spec => []TypeOK
<1>1. IInv => TypeOK BY DEF IInv
<1>. QED BY <1>1, Invariance, PTL

\* However executeClaim ends, for any number of claims and of relaunches, its
\* provider does not outlive it.
THEOREM NoProviderIsOrphaned == Spec => []NoOrphanProvider
<1>1. IInv => NoOrphanProvider BY DEF IInv, ClaimOK, PastIsOver, Past, NoOrphanProvider
<1>. QED BY <1>1, Invariance, PTL

\* An acknowledged cancellation is the truth: the provider is gone and none comes.
THEOREM AcknowledgedIsStopped == Spec => []AcknowledgedMeansStopped
<1>1. IInv => AcknowledgedMeansStopped
  BY DEF IInv, TypeOK, Claims, AckedFirst, ClaimOK, StoppedFirst, AcknowledgedMeansStopped
<1>. QED BY <1>1, Invariance, PTL

-----------------------------------------------------------------------------
(***************************************************************************)
(* The row of the Run and RunInterface.                                    *)
(***************************************************************************)
LapsedIsClaimed == lapsed => status = "CLAIMED"

\* The steps that write the row.
WritesRow ==
    \/ Control
    \/ \E c \in Claims : Claim(c) \/ Acknowledge(c) \/ Finish(c)

LEMMA OthersLeaveTheRow ==
    ASSUME [Next]_vars, ~WritesRow
    PROVE  UNCHANGED <<status, gen, cancelled, lapsed>>
BY DEF WritesRow, Next, vars, Tick, FlushRefused, ProviderExits, Tasks, RenewalAnswered,
       RenewalFails, RenewalSettles, RevocationStops, CancellationStops, Main,
       Provision, Preflight, Gate, Credentials, Unlaunched, Started, Running, Exited,
       RenewNow, Relaunch, Unsatisfied, Remediate, Wrapup, EnterDelivery, Drained, Lost,
       Deliver, Dispose, Caught, Settling, Finally, Close, run

\* What writes the row is a step of the interface, and the lease of a Run that is
\* settled, suspended or queued is not one that ran out.
LEMMA RowStep ==
    ASSUME TypeOK, LapsedIsClaimed, [Next]_vars
    PROVE  LapsedIsClaimed' /\ [Seen!RowNext]_(Seen!rowVars)
<1>. USE DEF LapsedIsClaimed, Seen!RowNext, Seen!rowVars
<1>0. lapsed \in BOOLEAN /\ cancelled \in BOOLEAN BY DEF TypeOK
<1>1. CASE Suspend
  BY <1>0, <1>1 DEF Suspend, Live, Seen!RunnerMoves, Seen!Suspended, Seen!Writable, Seen!Moves
<1>2. CASE Answered
  <2>1. status = "WAITING_INBOX" /\ ~lapsed BY <1>2 DEF Answered
  <2>2. CASE status' = "QUEUED"
    BY <1>0, <1>2, <2>1, <2>2 DEF Answered, Seen!OthersMove, Seen!Answered, Seen!Moves
  <2>3. CASE status' = "ENDED"
    BY <1>0, <1>2, <2>1, <2>3 DEF Answered, Seen!OthersMove, Seen!Unanswered, Seen!Moves
  <2>. QED BY <1>2, <2>2, <2>3 DEF Answered
<1>3. CASE RequestCancel
  BY <1>3 DEF RequestCancel, Owned, Seen!OthersMove, Seen!CancelRequested
<1>4. CASE Dismiss BY <1>4 DEF Dismiss, Seen!OthersMove, Seen!Dismissed
<1>5. CASE Lapse BY <1>5 DEF Lapse, Seen!OthersMove, Seen!LeaseLapsed
<1>6. CASE Expire BY <1>6 DEF Expire, Seen!OthersMove, Seen!Revoked, Seen!Moves
<1>7. ASSUME NEW c \in Claims, Claim(c)
      PROVE  LapsedIsClaimed' /\ [Seen!RowNext]_(Seen!rowVars)
  BY <1>0, <1>7 DEF Claim, Seen!RunnerMoves, Seen!Claimed
<1>8. ASSUME NEW c \in Claims, Acknowledge(c)
      PROVE  LapsedIsClaimed' /\ [Seen!RowNext]_(Seen!rowVars)
  <2>1. CASE UNCHANGED <<status, lapsed>> BY <1>8, <2>1 DEF Acknowledge
  <2>2. CASE Owned(c) /\ cancelled /\ status' = "ENDED" /\ lapsed' = FALSE
    BY <1>8, <2>2 DEF Acknowledge, Owned, Seen!RunnerMoves, Seen!Acknowledged, Seen!Moves
  <2>. QED BY <1>8, <2>1, <2>2 DEF Acknowledge
<1>9. ASSUME NEW c \in Claims, Finish(c)
      PROVE  LapsedIsClaimed' /\ [Seen!RowNext]_(Seen!rowVars)
  <2>1. CASE UNCHANGED status BY <1>9, <2>1 DEF Finish
  <2>2. CASE Live(c) /\ status' = "COMPLETED"
    BY <1>0, <1>9, <2>2
    DEF Finish, Live, Seen!RunnerMoves, Seen!Completed, Seen!Writable, Seen!Moves
  <2>. QED BY <1>9, <2>1, <2>2 DEF Finish
<1>10. CASE ~WritesRow BY <1>10, OthersLeaveTheRow
<1>. QED
  BY <1>1, <1>2, <1>3, <1>4, <1>5, <1>6, <1>7, <1>8, <1>9, <1>10 DEF WritesRow, Control

\* For any number of claims and relaunches, the claims of a Run and what the
\* control plane is assumed to do to it follow RunInterface.
THEOREM RunnerKeepsInterface == Spec => RowIsKept
<1>1. Init => Seen!RowInit /\ LapsedIsClaimed
  BY DEF Init, Seen!RowInit, LapsedIsClaimed
<1>2. TypeOK /\ LapsedIsClaimed /\ [Next]_vars => LapsedIsClaimed' /\ [Seen!RowNext]_(Seen!rowVars)
  BY RowStep
<1>. QED BY <1>1, <1>2, TypeCorrect, PTL DEF Spec, RowIsKept, Seen!RowSpec

\* Control leaves nothing out: whatever RunInterface lets befall the row, at any
\* moment of any claim, is a step of RunnerLease.  With InterfaceKept of
\* RunLifecycle, the theorems about the runner hold on the real control plane.
THEOREM ControlIsComplete ==
    ASSUME TypeOK, LapsedIsClaimed, Seen!OthersMove, UNCHANGED <<acked, workspace, lease, flow>>
    PROVE  Control
<1>. USE DEF Control
<1>1. CASE Seen!Answered
  BY <1>1 DEF TypeOK, LapsedIsClaimed, Seen!Answered, Seen!Moves, Answered
<1>2. CASE Seen!Unanswered
  BY <1>2 DEF TypeOK, LapsedIsClaimed, Seen!Unanswered, Seen!Moves, Answered
<1>3. CASE Seen!CancelRequested BY <1>3 DEF Seen!CancelRequested, RequestCancel, Owned
<1>4. CASE Seen!LeaseLapsed BY <1>4 DEF Seen!LeaseLapsed, Lapse
<1>5. CASE Seen!Revoked BY <1>5 DEF Seen!Revoked, Seen!Moves, Expire
<1>6. CASE Seen!Dismissed BY <1>6 DEF Seen!Dismissed, Dismiss
<1>. QED BY <1>1, <1>2, <1>3, <1>4, <1>5, <1>6 DEF Seen!OthersMove

-----------------------------------------------------------------------------
(***************************************************************************)
(* The queue of session events.                                            *)
(***************************************************************************)
\* The sequence numbers an entry answers for: its own, and its account.
AnswersFor(s) == AccountOf(q[s]) \union {s}

OwnAccount == \A s \in DOMAIN q : q[s].type \in Pushable => AccountOf(q[s]) = {s}
Issued ==
    /\ \A s \in DOMAIN q : AnswersFor(s) \subseteq 0..seq-1
    /\ \A s \in DOMAIN rows : rows[s] \subseteq 0..seq-1
    /\ lost \in Nat
Carried ==
    /\ \A s \in DOMAIN flight :
        s \in DOMAIN q /\ q[s].claimed /\ flight[s] = AccountOf(q[s])
    /\ \A s \in DOMAIN flight, t \in DOMAIN q \ DOMAIN flight : s < t
Sorted == \A s \in DOMAIN q \ DOMAIN rows, t \in DOMAIN rows : t < s
Apart ==
    lost = 0 =>
        /\ \A s, t \in DOMAIN q : s # t => AnswersFor(s) \intersect AnswersFor(t) = {}
        /\ \A s \in DOMAIN q : AnswersFor(s) \intersect (DOMAIN rows \union Known(rows)) = {}
        /\ \A s, t \in DOMAIN rows : s # t => rows[s] \intersect rows[t] = {}

QInv ==
    QueueTypeOK /\ OwnAccount /\ Issued /\ Carried /\ Sorted /\ Apart /\ Accounted

LEMMA Widen == \A m, n \in Nat : m <= n => 0..m-1 \subseteq 0..n-1
OBVIOUS

LEMMA OldestIs ==
    ASSUME NEW S \in SUBSET Nat, S # {}
    PROVE  Oldest(S) \in S /\ \A t \in S : Oldest(S) <= t
<1>. DEFINE less == OpToRel(<, Nat)
<1>1. IsWellFoundedOn(less, Nat) BY NatLessThanWellFounded
<1>2. \A x, y \in Nat : x < y => <<x, y>> \in less BY DEF OpToRel
<1>. HIDE DEF less
<1>3. PICK x \in S : \A y \in S : ~ (<<y, x>> \in less) BY <1>1, WFMin, Zenon
<1>4. ASSUME NEW y \in S PROVE x <= y
  <2>1. x \in Nat /\ y \in Nat OBVIOUS
  <2>2. ~(y < x) BY <1>2, <1>3, <2>1
  <2>. QED BY <2>1, <2>2
<1>. QED BY <1>3, <1>4 DEF Oldest

LEMMA WithoutIs ==
    ASSUME NEW S
    PROVE  /\ DOMAIN Without(S) = DOMAIN q \ S
           /\ \A t \in DOMAIN q \ S : Without(S)[t] = q[t]
BY DEF Without, Restrict

LEMMA QueuedIs ==
    ASSUME NEW s \in Nat, NEW type \in Pushable \union Records, NEW size \in Nat
    PROVE  /\ Queued(s, type, size) \in Entry
           /\ Queued(s, type, size).type = type
           /\ AccountOf(Queued(s, type, size)) = {s}
           /\ ~Queued(s, type, size).claimed
BY DEF Queued, Entry, AccountOf, Pushable, Records

-----------------------------------------------------------------------------
(***************************************************************************)
(* What each step does to the queue.                                       *)
(***************************************************************************)

\* Each new entry answers for what its sources answered for: the entry `par'
\* names, and what par[u] gave up; a sequence number is new at the tail only.
Rewrites(par) ==
    /\ DOMAIN q' \subseteq DOMAIN q \union {seq}
    /\ seq' = (IF seq \in DOMAIN q' THEN seq + 1 ELSE seq)
    /\ \A u \in DOMAIN q' :
        /\ q'[u] \in Entry
        /\ q'[u].type \in Pushable => AccountOf(q'[u]) = {u}
        /\ par[u] \subseteq DOMAIN q
        /\ u = seq \/ u \in par[u]
        /\ \A x \in AccountOf(q'[u]) :
            (x = seq /\ u = seq) \/ \E v \in par[u] : x \in AnswersFor(v)
    /\ \A u, v \in DOMAIN q' : u # v => par[u] \intersect par[v] = {}

LEMMA RewrittenIssued ==
    ASSUME QueueTypeOK, Issued, NEW par, Rewrites(par), UNCHANGED <<rows, lost>>
    PROVE  /\ seq' \in Nat /\ seq <= seq'
           /\ \A s \in DOMAIN q' : q'[s] \in Entry
           /\ DOMAIN q' \subseteq 0..seq'-1
           /\ OwnAccount' /\ Issued'
<1>1. seq \in Nat /\ DOMAIN q \subseteq 0..seq-1 BY DEF QueueTypeOK
<1>2. seq' \in Nat /\ seq <= seq' BY <1>1 DEF Rewrites
<1>3. 0..seq-1 \subseteq 0..seq'-1 BY <1>1, <1>2, Widen
<1>4. DOMAIN q' \subseteq 0..seq'-1 BY <1>1, <1>2, <1>3 DEF Rewrites
<1>5. OwnAccount' BY DEF Rewrites, OwnAccount
<1>6. Issued'
  <2>1. ASSUME NEW s \in DOMAIN q', NEW x \in AnswersFor(s)' PROVE x \in 0..seq'-1
    <3>1. CASE x = s BY <3>1, <1>4
    <3>2. CASE x \in AccountOf(q'[s])
      <4>1. CASE x = seq /\ s = seq BY <4>1, <1>4
      <4>2. CASE \E v \in par[s] : x \in AnswersFor(v)
        <5>1. PICK v \in par[s] : x \in AnswersFor(v) BY <4>2
        <5>2. v \in DOMAIN q BY <5>1 DEF Rewrites
        <5>. QED BY <5>1, <5>2, <1>3 DEF Issued
      <4>. QED BY <3>2, <4>1, <4>2 DEF Rewrites
    <3>. QED BY <2>1, <3>1, <3>2 DEF AnswersFor, AccountOf
  <2>. QED BY <2>1, <1>3 DEF Issued
<1>. QED BY <1>2, <1>4, <1>5, <1>6 DEF Rewrites

LEMMA RewrittenSorted ==
    ASSUME QueueTypeOK, Sorted, NEW par, Rewrites(par), UNCHANGED rows
    PROVE  Sorted'
<1>. SUFFICES ASSUME NEW s \in DOMAIN q' \ DOMAIN rows, NEW t \in DOMAIN rows
     PROVE t < s
  BY DEF Sorted
<1>1. s \in DOMAIN q \/ s = seq BY DEF Rewrites
<1>2. t \in 0..seq-1 /\ seq \in Nat BY DEF QueueTypeOK
<1>. QED BY <1>1, <1>2 DEF Sorted

LEMMA RewrittenApart ==
    ASSUME QueueTypeOK, Issued, Apart, NEW par, Rewrites(par), UNCHANGED <<rows, lost>>
    PROVE  Apart'
<1>. SUFFICES ASSUME lost = 0
     PROVE  /\ \A s, t \in DOMAIN q' : s # t => AnswersFor(s)' \intersect AnswersFor(t)' = {}
            /\ \A s \in DOMAIN q' :
                 AnswersFor(s)' \intersect (DOMAIN rows \union Known(rows)) = {}
  <2>1. Known(rows)' = Known(rows) BY DEF Known
  <2>. QED BY <2>1 DEF Apart
<1>1. seq \in Nat /\ DOMAIN q \subseteq 0..seq-1 /\ seq \notin 0..seq-1 BY DEF QueueTypeOK
<1>2. ASSUME NEW s \in DOMAIN q', NEW x \in AnswersFor(s)'
      PROVE  (x = seq /\ s = seq) \/ \E v \in par[s] : x \in AnswersFor(v)
  <2>1. CASE x = s BY <2>1 DEF Rewrites, AnswersFor
  <2>2. CASE x \in AccountOf(q'[s]) BY <2>2 DEF Rewrites
  <2>. QED BY <1>2, <2>1, <2>2 DEF AnswersFor, AccountOf
<1>3. ASSUME NEW s \in DOMAIN q', NEW v \in par[s] PROVE v \in DOMAIN q /\ seq \notin AnswersFor(v)
  BY <1>1 DEF Rewrites, Issued
<1>4. ASSUME NEW s \in DOMAIN q', NEW t \in DOMAIN q', s # t,
             NEW x \in AnswersFor(s)', x \in AnswersFor(t)'
      PROVE  FALSE
  <2>1. CASE x = seq
    <3>1. s = seq BY <2>1, <1>2, <1>3
    <3>2. t = seq BY <1>4, <2>1, <1>2, <1>3
    <3>. QED BY <3>1, <3>2, <1>4
  <2>2. CASE x # seq
    <3>1. PICK v \in par[s] : x \in AnswersFor(v) BY <2>2, <1>2
    <3>2. PICK w \in par[t] : x \in AnswersFor(w) BY <1>4, <2>2, <1>2
    <3>3. v # w BY <1>4 DEF Rewrites
    <3>. QED BY <1>3, <3>1, <3>2, <3>3 DEF Apart
  <2>. QED BY <2>1, <2>2
<1>5. ASSUME NEW s \in DOMAIN q', NEW x \in AnswersFor(s)', x \in DOMAIN rows \union Known(rows)
      PROVE  FALSE
  <2>1. x # seq
    <3>1. DOMAIN rows \subseteq 0..seq-1 BY DEF QueueTypeOK
    <3>2. Known(rows) \subseteq 0..seq-1 BY DEF Issued, Known
    <3>. QED BY <1>5, <3>1, <3>2, <1>1
  <2>2. PICK v \in par[s] : x \in AnswersFor(v) BY <2>1, <1>2
  <2>. QED BY <1>3, <1>5, <2>2 DEF Apart
<1>. QED BY <1>4, <1>5

\* Entries that stay, with their type and account.
Same(S) ==
    \A u \in S :
        /\ u \in DOMAIN q /\ q'[u] \in Entry
        /\ q'[u].type = q[u].type /\ AccountOf(q'[u]) = AccountOf(q[u])

LEMMA OnlyKeeps ==
    ASSUME QueueTypeOK, OwnAccount, Same(DOMAIN q'), seq' = seq
    PROVE  \E par : Rewrites(par)
<1>. DEFINE par == [u \in DOMAIN q' |-> {u}]
<1>1. DOMAIN q' \subseteq DOMAIN q /\ seq \notin DOMAIN q BY DEF Same, QueueTypeOK
<1>2. ASSUME NEW u \in DOMAIN q'
      PROVE  /\ q'[u] \in Entry
             /\ q'[u].type \in Pushable => AccountOf(q'[u]) = {u}
             /\ par[u] \subseteq DOMAIN q
             /\ u \in par[u]
             /\ \A x \in AccountOf(q'[u]) : \E v \in par[u] : x \in AnswersFor(v)
  BY <1>1 DEF Same, OwnAccount, AnswersFor
<1>3. \A u, v \in DOMAIN q' : u # v => par[u] \intersect par[v] = {} OBVIOUS
<1>. HIDE DEF par
<1>4. Rewrites(par) BY <1>1, <1>2, <1>3 DEF Rewrites
<1>. QED BY <1>4

LEMMA Replaces ==
    ASSUME QueueTypeOK, OwnAccount, NEW S \in SUBSET DOMAIN q, NEW e \in Entry,
           e.type \in Pushable => AccountOf(e) = {seq},
           \A x \in AccountOf(e) : x = seq \/ \E v \in S : x \in AnswersFor(v),
           DOMAIN q' = (DOMAIN q \ S) \union {seq}, q'[seq] = e,
           Same(DOMAIN q \ S), seq' = seq + 1
    PROVE  \E par : Rewrites(par)
<1>. DEFINE par == [u \in DOMAIN q' |-> IF u = seq THEN S ELSE {u}]
<1>1. seq \notin DOMAIN q BY DEF QueueTypeOK
<1>2. ASSUME NEW u \in DOMAIN q'
      PROVE  /\ q'[u] \in Entry
             /\ q'[u].type \in Pushable => AccountOf(q'[u]) = {u}
             /\ par[u] \subseteq DOMAIN q
             /\ u = seq \/ u \in par[u]
             /\ \A x \in AccountOf(q'[u]) :
                  (x = seq /\ u = seq) \/ \E v \in par[u] : x \in AnswersFor(v)
  <2>1. CASE u = seq BY <2>1
  <2>2. CASE u # seq
    <3>1. u \in DOMAIN q \ S BY <2>2
    <3>. QED BY <2>2, <3>1 DEF Same, OwnAccount, AnswersFor
  <2>. QED BY <2>1, <2>2
<1>3. \A u, v \in DOMAIN q' : u # v => par[u] \intersect par[v] = {} BY <1>1
<1>. HIDE DEF par
<1>4. Rewrites(par) BY <1>2, <1>3 DEF Rewrites
<1>. QED BY <1>4

LEMMA Absorbs ==
    ASSUME QueueTypeOK, OwnAccount, NEW s \in DOMAIN q, NEW t \in DOMAIN q, s # t,
           DOMAIN q' = DOMAIN q \ {t},
           q'[s] \in Entry, q'[s].type \notin Pushable,
           AccountOf(q'[s]) \subseteq AnswersFor(s) \union AnswersFor(t),
           Same(DOMAIN q \ {s, t}), seq' = seq
    PROVE  \E par : Rewrites(par)
<1>. DEFINE par == [u \in DOMAIN q' |-> IF u = s THEN {s, t} ELSE {u}]
<1>1. seq \notin DOMAIN q BY DEF QueueTypeOK
<1>2. ASSUME NEW u \in DOMAIN q'
      PROVE  /\ q'[u] \in Entry
             /\ q'[u].type \in Pushable => AccountOf(q'[u]) = {u}
             /\ par[u] \subseteq DOMAIN q
             /\ u \in par[u]
             /\ \A x \in AccountOf(q'[u]) : \E v \in par[u] : x \in AnswersFor(v)
  <2>1. CASE u = s BY <2>1
  <2>2. CASE u # s
    <3>1. u \in DOMAIN q \ {s, t} BY <2>2
    <3>. QED BY <2>2, <3>1 DEF Same, OwnAccount, AnswersFor
  <2>. QED BY <2>1, <2>2
<1>3. \A u, v \in DOMAIN q' : u # v => par[u] \intersect par[v] = {} OBVIOUS
<1>. HIDE DEF par
<1>4. Rewrites(par) BY <1>1, <1>2, <1>3 DEF Rewrites
<1>. QED BY <1>4

LEMMA HeldBackKept ==
    ASSUME \A s \in DOMAIN q : \E u \in DOMAIN q' : AccountOf(q[s]) \subseteq AccountOf(q'[u])
    PROVE  HeldBack \subseteq HeldBack'
<1>. SUFFICES ASSUME NEW s \in DOMAIN q, NEW x \in AccountOf(q[s]) PROVE x \in HeldBack'
  BY DEF HeldBack
<1>1. PICK u \in DOMAIN q' : AccountOf(q[s]) \subseteq AccountOf(q'[u]) OBVIOUS
<1>. QED BY <1>1 DEF HeldBack, AccountOf

\* What the reported events have paid for: the sequence numbers given out, and
\* the records that what is in the queue may still cost.
Costly == {s \in DOMAIN q : q[s].type \notin {"EVENTS_DROPPED", "EVENT_REJECTED"}}
Spent == seq + Cardinality(DOMAIN q) + Cardinality(Costly)

LEMMA Finite ==
    ASSUME QueueTypeOK, NEW S, S \subseteq 0..seq-1
    PROVE  IsFiniteSet(S) /\ Cardinality(S) \in Nat
<1>1. seq \in Nat BY DEF QueueTypeOK
<1>2. IsFiniteSet(0..seq-1) BY <1>1, FS_Interval
<1>3. IsFiniteSet(S) BY <1>2, FS_Subset
<1>. QED BY <1>3, FS_CardinalityType

LEMMA Spending ==
    ASSUME QueueTypeOK
    PROVE  /\ IsFiniteSet(DOMAIN q) /\ Cardinality(DOMAIN q) \in Nat
           /\ IsFiniteSet(Costly) /\ Cardinality(Costly) \in Nat
           /\ seq \in Nat /\ seq \notin DOMAIN q /\ Spent \in Nat
<1>1. DOMAIN q \subseteq 0..seq-1 /\ Costly \subseteq 0..seq-1 BY DEF QueueTypeOK, Costly
<1>2. /\ IsFiniteSet(DOMAIN q) /\ Cardinality(DOMAIN q) \in Nat
      /\ IsFiniteSet(Costly) /\ Cardinality(Costly) \in Nat
  BY <1>1, Finite
<1>3. seq \in Nat /\ seq \notin DOMAIN q BY DEF QueueTypeOK
<1>. QED BY <1>2, <1>3 DEF Spent

\* A record takes the place of an entry that may cost one.
LEMMA RecordIsPaid ==
    ASSUME QueueTypeOK, NEW s \in Costly,
           DOMAIN q' = (DOMAIN q \ {s}) \union {seq}, seq' = seq + 1,
           q'[seq].type \in {"EVENTS_DROPPED", "EVENT_REJECTED"},
           \A u \in DOMAIN q \ {s} : q'[u].type = q[u].type
    PROVE  Spent' <= Spent
<1>1. /\ IsFiniteSet(DOMAIN q) /\ Cardinality(DOMAIN q) \in Nat
      /\ IsFiniteSet(Costly) /\ Cardinality(Costly) \in Nat
      /\ seq \in Nat /\ seq \notin DOMAIN q
  BY Spending
<1>2. s \in DOMAIN q BY DEF Costly
<1>3. IsFiniteSet(DOMAIN q \ {s}) /\ Cardinality(DOMAIN q \ {s}) = Cardinality(DOMAIN q) - 1
  BY <1>1, <1>2, FS_RemoveElement
<1>4. Cardinality((DOMAIN q \ {s}) \union {seq}) = Cardinality(DOMAIN q)
  <2>. DEFINE S == DOMAIN q \ {s}
  <2>1. IsFiniteSet(S) /\ seq \notin S /\ Cardinality(S) = Cardinality(DOMAIN q) - 1
    BY <1>1, <1>3
  <2>. HIDE DEF S
  <2>2. Cardinality(S \union {seq}) = Cardinality(S) + 1 BY <2>1, FS_AddElement
  <2>3. Cardinality(S \union {seq}) = Cardinality(DOMAIN q) BY <1>1, <2>1, <2>2
  <2>. QED BY <2>3 DEF S
<1>5. Cardinality(DOMAIN q') = Cardinality(DOMAIN q) BY <1>4
<1>6. Costly' = Costly \ {s} BY <1>1 DEF Costly
<1>7. Cardinality(Costly \ {s}) = Cardinality(Costly) - 1 BY <1>1, FS_RemoveElement
<1>8. Cardinality(Costly)' = Cardinality(Costly) - 1 BY <1>6, <1>7
<1>9. Spent' = seq' + Cardinality(DOMAIN q') + Cardinality(Costly)' BY DEF Spent
<1>. QED BY <1>1, <1>5, <1>8, <1>9 DEF Spent

\* Two entries become one, whatever its type.
LEMMA MergeIsPaid ==
    ASSUME QueueTypeOK, NEW s \in DOMAIN q, NEW t \in DOMAIN q, s # t,
           DOMAIN q' = DOMAIN q \ {t}, seq' = seq,
           \A u \in DOMAIN q \ {s, t} : q'[u].type = q[u].type
    PROVE  Spent' <= Spent
<1>1. /\ IsFiniteSet(DOMAIN q) /\ Cardinality(DOMAIN q) \in Nat
      /\ IsFiniteSet(Costly) /\ Cardinality(Costly) \in Nat /\ seq \in Nat
  BY Spending
<1>2. Cardinality(DOMAIN q \ {t}) = Cardinality(DOMAIN q) - 1 BY <1>1, FS_RemoveElement
<1>3. Cardinality(DOMAIN q') = Cardinality(DOMAIN q) - 1 BY <1>2
<1>4. Costly' \subseteq Costly \union {s} BY DEF Costly
<1>5. IsFiniteSet(Costly \union {s}) /\ Cardinality(Costly \union {s}) <= Cardinality(Costly) + 1
      /\ Cardinality(Costly \union {s}) \in Nat
  <2>1. CASE s \in Costly BY <1>1, <2>1, FS_AddElement
  <2>2. CASE s \notin Costly BY <1>1, <2>2, FS_AddElement
  <2>. QED BY <2>1, <2>2
<1>6. Cardinality(Costly') <= Cardinality(Costly \union {s}) /\ IsFiniteSet(Costly')
  BY <1>4, <1>5, FS_Subset
<1>7. Cardinality(Costly') \in Nat BY <1>6, FS_CardinalityType
<1>8. Cardinality(Costly') <= Cardinality(Costly) + 1 BY <1>1, <1>5, <1>6, <1>7
<1>9. Spent' = seq' + Cardinality(DOMAIN q') + Cardinality(Costly') BY DEF Spent
<1>. QED BY <1>1, <1>3, <1>7, <1>8, <1>9 DEF Spent

LEMMA NoRecordNoCost ==
    ASSUME QueueTypeOK, DOMAIN q' \subseteq DOMAIN q, seq' = seq,
           \A u \in DOMAIN q' : q'[u].type = q[u].type
    PROVE  Spent' <= Spent
<1>1. /\ IsFiniteSet(DOMAIN q) /\ Cardinality(DOMAIN q) \in Nat
      /\ IsFiniteSet(Costly) /\ Cardinality(Costly) \in Nat /\ seq \in Nat
  BY Spending
<1>2. Cardinality(DOMAIN q') <= Cardinality(DOMAIN q) /\ IsFiniteSet(DOMAIN q')
  BY <1>1, FS_Subset
<1>3. Costly' \subseteq Costly BY DEF Costly
<1>4. Cardinality(Costly') <= Cardinality(Costly) /\ IsFiniteSet(Costly')
  BY <1>1, <1>3, FS_Subset
<1>5. Cardinality(Costly') \in Nat /\ Cardinality(DOMAIN q') \in Nat
  BY <1>2, <1>4, FS_CardinalityType
<1>6. Spent' = seq' + Cardinality(DOMAIN q') + Cardinality(Costly') BY DEF Spent
<1>. QED BY <1>1, <1>2, <1>4, <1>5, <1>6 DEF Spent

\* What a push or a step of the bounding loop does: accounts move, none is lost,
\* and what a request carries is left alone.
DropOK == drop = NoRecord \/ (drop \in DOMAIN q /\ q[drop].type = "EVENTS_DROPPED")
Bounding ==
    /\ \E par : Rewrites(par)
    /\ DropOK'
    /\ HeldBack \subseteq HeldBack'
    /\ \A u \in DOMAIN q : q[u].claimed => u \in DOMAIN q' /\ q'[u] = q[u]
    /\ \A u \in DOMAIN q' : q'[u].claimed => u \in DOMAIN q /\ q[u].claimed

LEMMA PushStep ==
    ASSUME QueueTypeOK, OwnAccount, NEW type \in Pushable, NEW size \in Sizes, Push(type, size)
    PROVE  Bounding /\ seq \in HeldBack' /\ Spent' <= Spent + 3
<1>. DEFINE e == Queued(seq, type, size)
<1>1. seq \in Nat /\ seq \notin DOMAIN q BY DEF QueueTypeOK
<1>2. e \in Entry /\ e.type = type /\ AccountOf(e) = {seq} /\ ~e.claimed
  BY <1>1, QueuedIs, QueueAssumption
<1>. HIDE DEF e
<1>3. q' = Appended(q, seq, e) /\ seq' = seq + 1 /\ drop' = drop BY DEF Push, e
<1>4. DOMAIN q' = DOMAIN q \union {seq} /\ q'[seq] = e /\ \A u \in DOMAIN q : q'[u] = q[u]
  BY <1>1, <1>3 DEF Appended
<1>5. Same(DOMAIN q \ {}) BY <1>4 DEF Same, QueueTypeOK
<1>6. \E par : Rewrites(par)
  <2>. DEFINE S == {}
  <2>1. S \in SUBSET DOMAIN q /\ DOMAIN q' = (DOMAIN q \ S) \union {seq} BY <1>4
  <2>2. Same(DOMAIN q \ S) BY <1>5
  <2>. HIDE DEF S
  <2>. QED BY <1>2, <1>3, <1>4, <2>1, <2>2, Replaces
<1>7. DropOK' BY <1>3, <1>4 DEF DropOK, QueueTypeOK
<1>8. HeldBack \subseteq HeldBack' BY <1>4, HeldBackKept
<1>9. seq \in HeldBack' BY <1>2, <1>4 DEF HeldBack, AccountOf
<1>10. Spent' <= Spent + 3
  <2>1. /\ IsFiniteSet(DOMAIN q) /\ Cardinality(DOMAIN q) \in Nat
        /\ IsFiniteSet(Costly) /\ Cardinality(Costly) \in Nat /\ seq \in Nat
    BY Spending
  <2>2. Cardinality(DOMAIN q \union {seq}) = Cardinality(DOMAIN q) + 1
    BY <1>1, <2>1, FS_AddElement
  <2>3. Cardinality(DOMAIN q') = Cardinality(DOMAIN q) + 1 BY <1>4, <2>2
  <2>4. Costly' = Costly \union {seq} /\ seq \notin Costly
    BY <1>1, <1>2, <1>4 DEF Costly, Pushable
  <2>5. Cardinality(Costly \union {seq}) = Cardinality(Costly) + 1
    BY <2>1, <2>4, FS_AddElement
  <2>6. Cardinality(Costly') = Cardinality(Costly) + 1 BY <2>4, <2>5
  <2>7. Spent' = seq' + Cardinality(DOMAIN q') + Cardinality(Costly') BY DEF Spent
  <2>. QED BY <1>3, <2>1, <2>3, <2>6, <2>7 DEF Spent
<1>. QED BY <1>2, <1>4, <1>6, <1>7, <1>8, <1>9, <1>10 DEF Bounding

LEMMA DropStep ==
    ASSUME QueueTypeOK, OwnAccount, DropOldest
    PROVE  Bounding /\ Spent' <= Spent
<1>1. seq \in Nat /\ DOMAIN q \subseteq Nat /\ seq \notin DOMAIN q BY DEF QueueTypeOK
<1>. DEFINE s == Oldest(Droppable)
<1>2. s \in Droppable BY <1>1, OldestIs DEF Droppable, DropOldest
<1>3. s \in DOMAIN q /\ q[s].type = "liveness" /\ ~q[s].claimed BY <1>2 DEF Droppable
<1>4. AccountOf(q[s]) = {s} BY <1>3 DEF OwnAccount, Pushable
<1>5. CASE DropRecordOpen
  <2>1. /\ q' = [Without({s}) EXCEPT ![drop].dropped = @ \union {s}]
        /\ seq' = seq /\ drop' = drop
    BY <1>5 DEF DropOldest
  <2>2. drop \in DOMAIN q /\ q[drop].type = "EVENTS_DROPPED" /\ ~q[drop].claimed
    BY <1>5 DEF DropRecordOpen, QueueTypeOK
  <2>3. drop # s BY <1>3, <2>2
  <2>. HIDE DEF s
  <2>. DEFINE e == [q[drop] EXCEPT !.dropped = @ \union {s}]
  <2>4. q[drop] \in Entry BY <2>2 DEF QueueTypeOK
  <2>5. /\ e \in Entry /\ e.type = "EVENTS_DROPPED" /\ ~e.claimed
        /\ AccountOf(e) = AccountOf(q[drop]) \union {s}
    BY <1>1, <1>3, <2>2, <2>4 DEF Entry, AccountOf
  <2>6. DOMAIN q' = DOMAIN q \ {s} /\ q'[drop] = e BY <2>1, <2>2, <2>3, WithoutIs
  <2>7. \A u \in DOMAIN q \ {s, drop} : q'[u] = q[u] BY <2>1, WithoutIs
  <2>. HIDE DEF e
  <2>8. Same(DOMAIN q \ {drop, s}) BY <2>7 DEF Same, QueueTypeOK
  <2>9. q'[drop] \in Entry /\ q'[drop].type \notin Pushable BY <2>5, <2>6 DEF Pushable
  <2>10. AccountOf(q'[drop]) \subseteq AnswersFor(drop) \union AnswersFor(s) BY <2>5, <2>6 DEF AnswersFor
  <2>11. \E par : Rewrites(par)
    BY <1>3, <2>1, <2>2, <2>3, <2>6, <2>8, <2>9, <2>10, Absorbs
  <2>12. HeldBack \subseteq HeldBack'
    <3>1. ASSUME NEW u \in DOMAIN q
          PROVE \E v \in DOMAIN q' : AccountOf(q[u]) \subseteq AccountOf(q'[v])
      <4>1. CASE u \in {s, drop} BY <4>1, <1>4, <2>2, <2>3, <2>5, <2>6
      <4>2. CASE u \notin {s, drop} BY <4>2, <2>6, <2>7
      <4>. QED BY <4>1, <4>2
    <3>. QED BY <3>1, HeldBackKept
  <2>13. DropOK' BY <2>1, <2>2, <2>3, <2>5, <2>6 DEF DropOK
  <2>14. Spent' <= Spent BY <1>3, <2>1, <2>2, <2>3, <2>6, <2>7, MergeIsPaid
  <2>15. \A u \in DOMAIN q' : q'[u].claimed => u \in DOMAIN q /\ q[u].claimed
    BY <2>5, <2>6, <2>7
  <2>. QED BY <1>3, <2>2, <2>6, <2>7, <2>11, <2>12, <2>13, <2>14, <2>15 DEF Bounding
<1>6. CASE ~DropRecordOpen
  <2>. DEFINE e == [Queued(seq, "EVENTS_DROPPED", Marker) EXCEPT !.dropped = {s}]
  <2>1. q' = Appended(Without({s}), seq, e) /\ seq' = seq + 1 /\ drop' = seq
    BY <1>6 DEF DropOldest
  <2>. HIDE DEF s
  <2>2. e \in Entry /\ e.type = "EVENTS_DROPPED" /\ AccountOf(e) = {seq, s} /\ ~e.claimed
    BY <1>1, <1>3, QueueAssumption DEF Queued, Entry, AccountOf, Pushable, Records
  <2>. HIDE DEF e
  <2>3. /\ DOMAIN q' = (DOMAIN q \ {s}) \union {seq} /\ q'[seq] = e
        /\ \A u \in DOMAIN q \ {s} : q'[u] = q[u]
    BY <1>1, <2>1, WithoutIs DEF Appended
  <2>4. Same(DOMAIN q \ {s}) BY <2>3 DEF Same, QueueTypeOK
  <2>5. \A x \in AccountOf(e) : x = seq \/ \E v \in {s} : x \in AnswersFor(v) BY <2>2 DEF AnswersFor
  <2>6. e.type \notin Pushable BY <2>2 DEF Pushable
  <2>7. {s} \in SUBSET DOMAIN q BY <1>3
  <2>8. \E par : Rewrites(par) BY <2>1, <2>2, <2>3, <2>4, <2>5, <2>6, <2>7, Replaces
  <2>9. HeldBack \subseteq HeldBack'
    <3>1. ASSUME NEW u \in DOMAIN q
          PROVE \E v \in DOMAIN q' : AccountOf(q[u]) \subseteq AccountOf(q'[v])
      <4>1. CASE u = s BY <4>1, <1>4, <2>2, <2>3
      <4>2. CASE u # s BY <4>2, <2>3
      <4>. QED BY <4>1, <4>2
    <3>. QED BY <3>1, HeldBackKept
  <2>10. DropOK' BY <2>1, <2>2, <2>3 DEF DropOK
  <2>11. Spent' <= Spent
    <3>1. s \in Costly BY <1>3 DEF Costly
    <3>. QED BY <2>1, <2>2, <2>3, <3>1, RecordIsPaid
  <2>12. \A u \in DOMAIN q' : q'[u].claimed => u \in DOMAIN q /\ q[u].claimed
    BY <2>2, <2>3
  <2>. QED BY <1>3, <2>3, <2>8, <2>9, <2>10, <2>11, <2>12 DEF Bounding
<1>. QED BY <1>5, <1>6

LEMMA DegradeStep ==
    ASSUME QueueTypeOK, OwnAccount, DegradeOldest
    PROVE  Bounding /\ Spent' <= Spent
<1>1. seq \in Nat /\ DOMAIN q \subseteq Nat /\ seq \notin DOMAIN q BY DEF QueueTypeOK
<1>. DEFINE s == Oldest(Degradable)
<1>2. s \in Degradable BY <1>1, OldestIs DEF Degradable, DegradeOldest
<1>3. s \in DOMAIN q /\ ~q[s].claimed /\ q[s] \in Entry BY <1>2 DEF Degradable, QueueTypeOK
<1>4. /\ q' = [q EXCEPT ![s].degraded = TRUE,
                        ![s].size = IF Marker < @ THEN Marker ELSE @]
      /\ seq' = seq /\ drop' = drop
  BY DEF DegradeOldest
<1>. HIDE DEF s
<1>. DEFINE e == [q[s] EXCEPT !.degraded = TRUE,
                              !.size = IF Marker < @ THEN Marker ELSE @]
<1>5. /\ e \in Entry /\ e.type = q[s].type /\ AccountOf(e) = AccountOf(q[s])
      /\ ~e.claimed
  BY <1>3, QueueAssumption DEF Entry, AccountOf
<1>6. /\ DOMAIN q' = DOMAIN q /\ q'[s] = e
      /\ \A u \in DOMAIN q \ {s} : q'[u] = q[u]
  BY <1>3, <1>4
<1>. HIDE DEF e
<1>7. Same(DOMAIN q') BY <1>5, <1>6 DEF Same, QueueTypeOK
<1>8. \E par : Rewrites(par) BY <1>4, <1>7, OnlyKeeps
<1>9. HeldBack \subseteq HeldBack' BY <1>6, <1>7, HeldBackKept DEF Same
<1>10. DropOK' BY <1>4, <1>6, <1>7 DEF DropOK, Same, QueueTypeOK
<1>11. Spent' <= Spent BY <1>4, <1>6, <1>7, NoRecordNoCost DEF Same
<1>12. \A u \in DOMAIN q' : q'[u].claimed => u \in DOMAIN q /\ q[u].claimed
  BY <1>5, <1>6
<1>. QED BY <1>3, <1>6, <1>8, <1>9, <1>10, <1>11, <1>12 DEF Bounding

LEMMA CoalesceStep ==
    ASSUME QueueTypeOK, OwnAccount, CoalesceOldestPair
    PROVE  Bounding /\ Spent' <= Spent
<1>1. seq \in Nat /\ DOMAIN q \subseteq Nat /\ seq \notin DOMAIN q BY DEF QueueTypeOK
<1>. DEFINE s == Oldest(Mergeable)
            t == Oldest({u \in DOMAIN q : u > s})
<1>2. s \in Mergeable BY <1>1, OldestIs DEF Mergeable, CoalesceOldestPair
<1>3. PICK w \in DOMAIN q : Adjacent(s, w) /\ ~q[s].claimed /\ ~q[w].claimed
  BY <1>2 DEF Mergeable
<1>4. s \in DOMAIN q BY <1>2 DEF Mergeable
<1>5. /\ q' = [Without({t}) EXCEPT ![s] = Merged(q[s], q[t])]
      /\ drop' = Forget({s, t}) /\ seq' = seq
  BY DEF CoalesceOldestPair
<1>. HIDE DEF s
<1>6. t \in DOMAIN q /\ t > s /\ t <= w
  <2>. DEFINE S == {u \in DOMAIN q : u > s}
  <2>1. w \in S BY <1>1, <1>3, <1>4 DEF Adjacent
  <2>2. S \in SUBSET Nat BY <1>1
  <2>. HIDE DEF S
  <2>3. Oldest(S) \in S /\ Oldest(S) <= w BY <2>1, <2>2, OldestIs
  <2>. QED BY <2>3 DEF S
<1>. HIDE DEF t
<1>7. t = w BY <1>1, <1>3, <1>4, <1>6 DEF Adjacent
<1>8. s # t /\ ~q[s].claimed /\ ~q[t].claimed BY <1>1, <1>3, <1>4, <1>6, <1>7
<1>9. q[s] \in Entry /\ q[t] \in Entry BY <1>4, <1>6 DEF QueueTypeOK
<1>. DEFINE e == Merged(q[s], q[t])
<1>10. /\ e \in Entry /\ e.type = "EVENTS_COALESCED" /\ ~e.claimed
       /\ AccountOf(e) = AccountOf(q[s]) \union AccountOf(q[t])
  BY <1>9, QueueAssumption DEF Merged, Entry, AccountOf, Records
<1>11. /\ DOMAIN q' = DOMAIN q \ {t} /\ q'[s] = e
       /\ \A u \in DOMAIN q \ {s, t} : q'[u] = q[u]
  BY <1>4, <1>5, <1>8, WithoutIs
<1>. HIDE DEF e
<1>12. Same(DOMAIN q \ {s, t}) BY <1>11 DEF Same, QueueTypeOK
<1>13. q'[s] \in Entry /\ q'[s].type \notin Pushable BY <1>10, <1>11 DEF Pushable
<1>14. AccountOf(q'[s]) \subseteq AnswersFor(s) \union AnswersFor(t) BY <1>10, <1>11 DEF AnswersFor
<1>15. \E par : Rewrites(par)
  BY <1>4, <1>5, <1>6, <1>8, <1>11, <1>12, <1>13, <1>14, Absorbs
<1>16. HeldBack \subseteq HeldBack'
  <2>1. ASSUME NEW u \in DOMAIN q
        PROVE \E v \in DOMAIN q' : AccountOf(q[u]) \subseteq AccountOf(q'[v])
    <3>1. CASE u \in {s, t} BY <3>1, <1>4, <1>8, <1>10, <1>11
    <3>2. CASE u \notin {s, t} BY <3>2, <1>11
    <3>. QED BY <3>1, <3>2
  <2>. QED BY <2>1, HeldBackKept
<1>17. DropOK'
  <2>1. CASE drop \in {s, t} BY <2>1, <1>5 DEF Forget, DropOK
  <2>2. CASE drop \notin {s, t} BY <2>2, <1>5, <1>11 DEF Forget, DropOK, QueueTypeOK
  <2>. QED BY <2>1, <2>2
<1>18. Spent' <= Spent BY <1>4, <1>5, <1>6, <1>8, <1>11, MergeIsPaid
<1>19. \A u \in DOMAIN q' : q'[u].claimed => u \in DOMAIN q /\ q[u].claimed
  BY <1>10, <1>11
<1>. QED BY <1>8, <1>11, <1>15, <1>16, <1>17, <1>18, <1>19 DEF Bounding

LEMMA BoundingKeeps ==
    ASSUME QInv, Bounding, bounding' \in BOOLEAN,
           UNCHANGED <<batchMax, worker, flight, held, rows, lost, refused, shadowed>>,
           pushed' = pushed \/ (pushed' = pushed \union {seq} /\ seq \in HeldBack' /\ seq' = seq + 1)
    PROVE  QInv'
<1>. USE DEF QInv
<1>1. PICK par : Rewrites(par) BY DEF Bounding
<1>2. /\ seq' \in Nat /\ seq \in Nat /\ seq <= seq'
      /\ \A s \in DOMAIN q' : q'[s] \in Entry
      /\ DOMAIN q' \subseteq 0..seq'-1
      /\ OwnAccount' /\ Issued'
  BY <1>1, RewrittenIssued DEF QueueTypeOK
<1>3. Sorted' /\ Apart' BY <1>1, RewrittenSorted, RewrittenApart
<1>4. 0..seq-1 \subseteq 0..seq'-1 BY <1>2, Widen
<1>5. pushed' \subseteq 0..seq'-1
  <2>1. CASE pushed' = pushed BY <2>1, <1>4 DEF QueueTypeOK
  <2>2. CASE pushed' = pushed \union {seq} /\ seq' = seq + 1
    <3>1. seq \in 0..seq'-1 BY <1>2, <2>2
    <3>. QED BY <2>2, <3>1, <1>4 DEF QueueTypeOK
  <2>. QED BY <2>1, <2>2
<1>6. QueueTypeOK' BY <1>2, <1>4, <1>5 DEF QueueTypeOK, Bounding, DropOK
<1>7. Carried'
  <2>1. \A s \in DOMAIN flight :
            s \in DOMAIN q' /\ q'[s].claimed /\ flight[s] = AccountOf(q'[s])
    BY DEF Carried, Bounding
  <2>2. ASSUME NEW s \in DOMAIN flight, NEW t \in DOMAIN q' \ DOMAIN flight PROVE s < t
    <3>1. CASE t \in DOMAIN q BY <3>1 DEF Carried
    <3>2. CASE t = seq BY <3>2, <1>2 DEF QueueTypeOK
    <3>. QED BY <3>1, <3>2, <1>1 DEF Rewrites
  <2>. QED BY <2>1, <2>2 DEF Carried, AccountOf
<1>8. Accounted'
  <2>1. Known(rows)' = Known(rows) BY DEF Known
  <2>2. pushed' \subseteq pushed \union HeldBack' OBVIOUS
  <2>. QED BY <2>1, <2>2 DEF Accounted, Bounding
<1>. QED BY <1>2, <1>3, <1>6, <1>7, <1>8

\* Claiming, unclaiming and releasing entries moves no account.
LEMMA OnlyKeepsInv ==
    ASSUME QInv, Same(DOMAIN q'), UNCHANGED <<seq, rows, lost>>
    PROVE  /\ seq' \in Nat /\ \A s \in DOMAIN q' : q'[s] \in Entry
           /\ DOMAIN q' \subseteq 0..seq'-1
           /\ OwnAccount' /\ Issued' /\ Sorted' /\ Apart'
<1>. USE DEF QInv
<1>1. PICK par : Rewrites(par) BY OnlyKeeps
<1>. QED BY <1>1, RewrittenIssued, RewrittenSorted, RewrittenApart

LEMMA SendKeeps ==
    ASSUME QInv, SendBatch
    PROVE  QInv' /\ Spent' <= Spent
<1>. USE DEF QInv
<1>1. /\ q' = [s \in DOMAIN q |-> [q[s] EXCEPT !.claimed = s \in Batch]]
      /\ flight' = [s \in Batch |-> AccountOf(q[s])]
      /\ worker' = "sending"
      /\ UNCHANGED <<seq, drop, bounding, batchMax, held, pushed, refused>>
      /\ UNCHANGED <<rows, failures, lost, shadowed>>
  BY DEF SendBatch, api
<1>2. Batch \subseteq DOMAIN q /\ DOMAIN q \subseteq 0..seq-1 BY DEF Batch, QueueTypeOK
<1>3. ASSUME NEW s \in DOMAIN q
      PROVE  /\ q'[s] = [q[s] EXCEPT !.claimed = s \in Batch]
             /\ q'[s] \in Entry /\ q'[s].type = q[s].type
             /\ AccountOf(q'[s]) = AccountOf(q[s])
             /\ q'[s].claimed = (s \in Batch)
  <2>1. q[s] \in Entry BY DEF QueueTypeOK
  <2>2. (s \in Batch) \in BOOLEAN OBVIOUS
  <2>3. q'[s] = [q[s] EXCEPT !.claimed = s \in Batch] BY <1>1
  <2>. HIDE <1>1
  <2>. QED BY <2>1, <2>2, <2>3 DEF Entry, AccountOf
<1>4. DOMAIN q' = DOMAIN q /\ Same(DOMAIN q') BY <1>1, <1>3 DEF Same
<1>5. /\ seq' \in Nat /\ \A s \in DOMAIN q' : q'[s] \in Entry
      /\ DOMAIN q' \subseteq 0..seq'-1
      /\ OwnAccount' /\ Issued' /\ Sorted' /\ Apart'
  BY <1>1, <1>4, OnlyKeepsInv
<1>6. QueueTypeOK'
  <2>1. DOMAIN flight' \subseteq 0..seq-1 BY <1>1, <1>2
  <2>. QED BY <2>1, <1>1, <1>3, <1>4, <1>5 DEF QueueTypeOK
<1>7. Carried'
  <2>1. \A s \in DOMAIN flight' :
            s \in DOMAIN q' /\ q'[s].claimed /\ flight'[s] = AccountOf(q'[s])
    BY <1>1, <1>2, <1>3, <1>4
  <2>2. ASSUME NEW s \in Batch, NEW t \in DOMAIN q \ Batch PROVE s < t
    <3>1. s \in Nat /\ t \in Nat BY <1>2
    <3>2. SUFFICES ASSUME t <= s PROVE FALSE BY <3>1
    <3>3. Head(t) \subseteq Head(s) BY <1>2, <3>1, <3>2 DEF Head
    <3>. QED BY <3>3 DEF Batch
  <2>. QED BY <2>1, <2>2, <1>1, <1>4 DEF Carried, AccountOf
<1>8. Accounted'
  <2>1. Known(rows)' = Known(rows) BY <1>1 DEF Known
  <2>2. HeldBack \subseteq HeldBack' BY <1>3, <1>4, HeldBackKept
  <2>. QED BY <2>1, <2>2, <1>1 DEF Accounted
<1>9. Spent' <= Spent BY <1>1, <1>3, <1>4, NoRecordNoCost
<1>. QED BY <1>5, <1>6, <1>7, <1>8, <1>9

LEMMA AppendedRows ==
    ASSUME QInv, Append
    PROVE  /\ DOMAIN rows' = DOMAIN rows \union DOMAIN flight
           /\ \A s \in DOMAIN rows : rows'[s] = rows[s]
           /\ \A s \in DOMAIN flight \ DOMAIN rows : rows'[s] = AccountOf(q[s])
           /\ \A s \in DOMAIN rows' : s \in 0..seq-1 /\ rows'[s] \subseteq 0..seq-1
           /\ Known(rows) \union Known(flight) \subseteq Known(rows)' \union shadowed'
<1>. USE DEF QInv
<1>1. /\ DOMAIN rows' = DOMAIN rows \union DOMAIN flight
      /\ \A s \in DOMAIN rows' : rows'[s] = IF s \in DOMAIN rows THEN rows[s] ELSE flight[s]
  BY DEF Append
<1>2. \A s \in DOMAIN flight : s \in DOMAIN q /\ flight[s] = AccountOf(q[s]) BY DEF Carried
<1>3. \A s \in DOMAIN rows' : s \in 0..seq-1 /\ rows'[s] \subseteq 0..seq-1
  BY <1>1, <1>2 DEF QueueTypeOK, Issued, AnswersFor
<1>4. Known(rows) \subseteq Known(rows)' BY <1>1 DEF Known
<1>5. Known(flight) \subseteq Known(rows)' \union shadowed'
  <2>1. Known(rows)' = Known(rows') BY DEF Known
  <2>2. shadowed' = shadowed \union (Known(flight) \ Known(rows')) BY DEF Append
  <2>. QED BY <2>1, <2>2
<1>. QED BY <1>1, <1>2, <1>3, <1>4, <1>5

\* A row is stored for each event in flight; it is counted once as long as the
\* runner learns of it.
LEMMA AcceptedKeeps ==
    ASSUME QInv, Accepted
    PROVE  QInv' /\ Spent' <= Spent
<1>. USE DEF QInv
<1>1. /\ Append /\ q' = Without(DOMAIN flight) /\ drop' = Forget(DOMAIN flight)
      /\ flight' = Nothing /\ worker' = "looping"
      /\ UNCHANGED <<seq, bounding, batchMax, held, failures, lost, pushed, refused>>
  BY DEF Accepted
<1>2. /\ DOMAIN rows' = DOMAIN rows \union DOMAIN flight
      /\ \A s \in DOMAIN rows : rows'[s] = rows[s]
      /\ \A s \in DOMAIN flight \ DOMAIN rows : rows'[s] = AccountOf(q[s])
      /\ \A s \in DOMAIN rows' : s \in 0..seq-1 /\ rows'[s] \subseteq 0..seq-1
      /\ Known(rows) \union Known(flight) \subseteq Known(rows)' \union shadowed'
  BY <1>1, AppendedRows
<1>3. /\ DOMAIN q' = DOMAIN q \ DOMAIN flight
      /\ \A s \in DOMAIN q' : s \in DOMAIN q /\ q'[s] = q[s]
  BY <1>1, WithoutIs
<1>4. \A s \in DOMAIN flight : s \in DOMAIN q /\ flight[s] = AccountOf(q[s]) BY DEF Carried
<1>5. DOMAIN flight' = {} BY <1>1 DEF Nothing
<1>6. QueueTypeOK'
  <2>1. drop' = NoRecord \/ (drop' \in DOMAIN q' /\ q'[drop'].type = "EVENTS_DROPPED")
    <3>1. CASE drop \in DOMAIN flight BY <3>1, <1>1 DEF Forget
    <3>2. CASE drop \notin DOMAIN flight BY <3>2, <1>1, <1>3 DEF Forget, QueueTypeOK
    <3>. QED BY <3>1, <3>2
  <2>2. \A s \in DOMAIN rows' : rows'[s] \subseteq Nat BY <1>2 DEF QueueTypeOK
  <2>. QED BY <1>1, <1>2, <1>3, <1>5, <2>1, <2>2 DEF QueueTypeOK
<1>7. OwnAccount' BY <1>3 DEF OwnAccount, AccountOf
<1>8. Issued' BY <1>1, <1>2, <1>3 DEF Issued, AnswersFor, AccountOf
<1>9. Carried' BY <1>5 DEF Carried
<1>10. Sorted' BY <1>2, <1>3 DEF Sorted, Carried
<1>11. Accounted'
  <2>1. ASSUME NEW x \in HeldBack PROVE x \in HeldBack' \union Known(flight)
    <3>1. PICK s \in DOMAIN q : x \in AccountOf(q[s]) BY <2>1 DEF HeldBack
    <3>2. CASE s \in DOMAIN flight BY <3>1, <3>2, <1>4 DEF Known
    <3>3. CASE s \notin DOMAIN flight BY <3>1, <3>3, <1>3 DEF HeldBack, AccountOf
    <3>. QED BY <3>2, <3>3
  <2>2. shadowed \subseteq shadowed' BY <1>1 DEF Append
  <2>. QED BY <2>1, <2>2, <1>1, <1>2 DEF Accounted
<1>12. Apart'
  <2>. SUFFICES ASSUME lost = 0
       PROVE  /\ \A s, t \in DOMAIN q' : s # t => AnswersFor(s)' \intersect AnswersFor(t)' = {}
              /\ \A s \in DOMAIN q' :
                   AnswersFor(s)' \intersect (DOMAIN rows' \union Known(rows)') = {}
              /\ \A s, t \in DOMAIN rows' : s # t => rows'[s] \intersect rows'[t] = {}
    BY <1>1 DEF Apart
  <2>1. \A s \in DOMAIN q' : AnswersFor(s)' = AnswersFor(s) BY <1>3 DEF AnswersFor, AccountOf
  <2>2. \A s \in DOMAIN flight : rows'[s] = AccountOf(q[s]) /\ s \notin DOMAIN rows
    BY <1>2, <1>4 DEF Apart, AnswersFor
  <2>3. ASSUME NEW s \in DOMAIN q', NEW x \in AnswersFor(s), x \in DOMAIN rows' \union Known(rows)'
        PROVE  FALSE
    <3>1. PICK t \in DOMAIN rows' : x \in rows'[t] \union {t} BY <2>3 DEF Known
    <3>2. CASE t \in DOMAIN rows
      <4>1. x \in DOMAIN rows \union Known(rows) BY <3>1, <3>2, <1>2 DEF Known
      <4>. QED BY <4>1, <1>3 DEF Apart
    <3>3. CASE t \in DOMAIN flight
      <4>1. x \in AnswersFor(t) /\ t \in DOMAIN q /\ t # s BY <3>1, <3>3, <2>2, <1>3, <1>4 DEF AnswersFor
      <4>. QED BY <4>1, <1>3 DEF Apart
    <3>. QED BY <3>2, <3>3, <1>2
  <2>4. ASSUME NEW s \in DOMAIN rows', NEW t \in DOMAIN rows', s # t,
               NEW x \in rows'[s], x \in rows'[t]
        PROVE  FALSE
    <3>1. CASE s \in DOMAIN rows /\ t \in DOMAIN rows BY <3>1, <2>4, <1>2 DEF Apart
    <3>2. ASSUME NEW u \in DOMAIN flight, NEW w \in DOMAIN rows, x \in rows'[u], x \in rows'[w]
          PROVE  FALSE
      <4>1. x \in AnswersFor(u) /\ x \in Known(rows) /\ u \in DOMAIN q
        BY <3>2, <2>2, <1>2, <1>4 DEF AnswersFor, Known
      <4>. QED BY <4>1 DEF Apart
    <3>3. CASE s \in DOMAIN flight /\ t \in DOMAIN flight
      BY <3>3, <2>2, <2>4, <1>4 DEF Apart, AnswersFor
    <3>. QED BY <3>1, <3>2, <3>3, <2>4, <1>2
  <2>5. \A x, y \in DOMAIN q' : x # y => AnswersFor(x)' \intersect AnswersFor(y)' = {}
    BY <2>1, <1>3 DEF Apart
  <2>6. \A x \in DOMAIN q' : AnswersFor(x)' \intersect (DOMAIN rows' \union Known(rows)') = {}
    BY <2>1, <2>3
  <2>7. \A x, y \in DOMAIN rows' : x # y => rows'[x] \intersect rows'[y] = {}
    BY <2>4
  <2>. QED BY <2>5, <2>6, <2>7
<1>13. Spent' <= Spent BY <1>1, <1>3, NoRecordNoCost
<1>. QED BY <1>6, <1>7, <1>8, <1>9, <1>10, <1>11, <1>12, <1>13

\* The rows are stored and the entries stay: nothing vanishes, but from now on
\* they may be counted twice.
LEMMA AnswerLostKeeps ==
    ASSUME QInv, AnswerLost
    PROVE  QInv'
<1>. USE DEF QInv
<1>1. /\ Append /\ lost' = lost + 1 /\ flight' = Nothing /\ worker' = "idle"
      /\ UNCHANGED <<seq, q, drop, bounding, batchMax, held, failures, pushed, refused>>
  BY DEF AnswerLost, queue
<1>2. /\ DOMAIN rows' = DOMAIN rows \union DOMAIN flight
      /\ \A s \in DOMAIN rows' : s \in 0..seq-1 /\ rows'[s] \subseteq 0..seq-1
      /\ Known(rows) \union Known(flight) \subseteq Known(rows)' \union shadowed'
  BY <1>1, AppendedRows
<1>3. DOMAIN flight' = {} BY <1>1 DEF Nothing
<1>4. QueueTypeOK'
  <2>1. \A s \in DOMAIN rows' : rows'[s] \subseteq Nat BY <1>2 DEF QueueTypeOK
  <2>. QED BY <1>1, <1>2, <1>3, <2>1 DEF QueueTypeOK
<1>5. OwnAccount' BY <1>1 DEF OwnAccount, AccountOf
<1>6. Issued' BY <1>1, <1>2 DEF Issued, AnswersFor, AccountOf
<1>7. Carried' BY <1>3 DEF Carried
<1>8. Sorted' BY <1>1, <1>2 DEF Sorted, Carried
<1>9. Apart'
  <2>1. lost' # 0 BY <1>1 DEF Issued
  <2>. QED BY <2>1 DEF Apart
<1>10. Accounted'
  <2>1. HeldBack' = HeldBack BY <1>1 DEF HeldBack, AccountOf
  <2>2. shadowed \subseteq shadowed' BY <1>1 DEF Append
  <2>. QED BY <2>1, <2>2, <1>1, <1>2 DEF Accounted
<1>. QED BY <1>4, <1>5, <1>6, <1>7, <1>8, <1>9, <1>10

\* The queue is left alone, and no request is in flight any more.
LEMMA QuietKeeps ==
    ASSUME QInv, UNCHANGED <<seq, q, drop, rows, lost, pushed, refused, shadowed>>,
           bounding' \in BOOLEAN, flight' = flight \/ flight' = Nothing,
           batchMax' \in [events: Nat \ {0}, bytes: Nat \ {0}],
           worker' \in {"idle", "sending", "looping"}, held' \in BOOLEAN
    PROVE  QInv'
<1>. USE DEF QInv
<1>1. DOMAIN flight' \subseteq DOMAIN flight /\ \A s \in DOMAIN flight' : flight' = flight
  BY DEF Nothing
<1>2. QueueTypeOK' BY <1>1 DEF QueueTypeOK
<1>3. OwnAccount' /\ Issued' /\ Sorted'
  BY DEF OwnAccount, Issued, Sorted, AnswersFor, AccountOf
<1>4. Carried'
  <2>1. CASE flight' = flight BY <2>1 DEF Carried, AccountOf
  <2>2. CASE flight' = Nothing BY <2>2 DEF Nothing, Carried
  <2>. QED BY <2>1, <2>2
<1>5. Apart' BY DEF Apart, AnswersFor, AccountOf, Known
<1>6. Accounted' BY DEF Accounted, HeldBack, AccountOf, Known
<1>. QED BY <1>2, <1>3, <1>4, <1>5, <1>6

LEMMA RejectKeeps ==
    ASSUME QInv, NEW s, Reject(s), flight' = Nothing,
           worker' = "looping", UNCHANGED <<held, pushed, api>>
    PROVE  QInv' /\ Spent' <= Spent /\ bounding' /\ \A u \in DOMAIN q' : ~q'[u].claimed
<1>. USE DEF QInv
<1>1. /\ s \in DOMAIN q /\ drop' = Forget({s}) /\ bounding' = TRUE
      /\ UNCHANGED <<batchMax, rows, failures, lost, shadowed>>
  BY DEF Reject, api
<1>2. seq \in Nat /\ DOMAIN q \subseteq 0..seq-1 /\ seq \notin DOMAIN q /\ q[s] \in Entry
  BY <1>1 DEF QueueTypeOK
<1>. DEFINE f == Unclaimed(Without({s}))
<1>3. /\ DOMAIN f = DOMAIN q \ {s}
      /\ \A u \in DOMAIN q \ {s} :
            /\ f[u] \in Entry /\ f[u].type = q[u].type /\ AccountOf(f[u]) = AccountOf(q[u])
            /\ ~f[u].claimed
  <2>1. DOMAIN f = DOMAIN q \ {s} BY WithoutIs DEF Unclaimed
  <2>2. ASSUME NEW u \in DOMAIN q \ {s}
        PROVE  /\ f[u] \in Entry /\ f[u].type = q[u].type /\ AccountOf(f[u]) = AccountOf(q[u])
               /\ ~f[u].claimed
    <3>1. f[u] = [q[u] EXCEPT !.claimed = FALSE] BY WithoutIs DEF Unclaimed
    <3>2. q[u] \in Entry BY DEF QueueTypeOK
    <3>. HIDE DEF f
    <3>. QED BY <3>1, <3>2 DEF Entry, AccountOf
  <2>. HIDE DEF f
  <2>. QED BY <2>1, <2>2
<1>. HIDE DEF f
<1>. DEFINE new == q[s].type \notin {"EVENT_REJECTED", "EVENTS_DROPPED"}
            e == [RecordOf(seq, q[s]) EXCEPT !.rejected = q[s].rejected \union {s}]
<1>4. ASSUME ~new
      PROVE  /\ \E par : Rewrites(par)
             /\ HeldBack \subseteq HeldBack' \union refused'
             /\ refused \subseteq refused' /\ DropOK' /\ Spent' <= Spent
             /\ \A u \in DOMAIN q' : ~q'[u].claimed
  <2>1. q' = f /\ refused' = refused \union AccountOf(q[s]) /\ seq' = seq
    BY <1>4 DEF Reject, f
  <2>2. Same(DOMAIN q') BY <1>3, <2>1 DEF Same
  <2>3. \E par : Rewrites(par) BY <2>1, <2>2, OnlyKeeps
  <2>4. HeldBack \subseteq HeldBack' \union refused'
    <3>. SUFFICES ASSUME NEW u \in DOMAIN q, NEW x \in AccountOf(q[u])
         PROVE x \in HeldBack' \union refused'
      BY DEF HeldBack
    <3>1. CASE u = s BY <3>1, <2>1
    <3>2. CASE u # s BY <3>2, <2>1, <1>3 DEF HeldBack, AccountOf
    <3>. QED BY <3>1, <3>2
  <2>5. DropOK'
    <3>1. CASE drop = s BY <3>1, <1>1 DEF Forget, DropOK
    <3>2. CASE drop # s BY <3>2, <1>1, <1>3, <2>1 DEF Forget, DropOK, QueueTypeOK
    <3>. QED BY <3>1, <3>2
  <2>6. Spent' <= Spent BY <2>1, <2>2, NoRecordNoCost DEF Same
  <2>7. \A u \in DOMAIN q' : ~q'[u].claimed BY <1>3, <2>1
  <2>. QED BY <2>1, <2>3, <2>4, <2>5, <2>6, <2>7
<1>5. ASSUME new
      PROVE  /\ \E par : Rewrites(par)
             /\ HeldBack \subseteq HeldBack' \union refused'
             /\ refused \subseteq refused' /\ DropOK' /\ Spent' <= Spent
             /\ \A u \in DOMAIN q' : ~q'[u].claimed
  <2>1. q' = Appended(f, seq, e) /\ seq' = seq + 1 /\ refused' = refused
    BY <1>5 DEF Reject, f
  <2>2. e \in Entry /\ e.type = "EVENT_REJECTED" /\ ~e.claimed /\ AccountOf(e) \subseteq {seq} \union AnswersFor(s)
    <3>1. CASE q[s].type = "EVENTS_COALESCED"
      <4>. DEFINE r == [Queued(seq, "EVENT_REJECTED", Marker) EXCEPT
                          !.stands = q[s].stands, !.dropped = q[s].dropped,
                          !.first = q[s].first, !.last = q[s].last]
      <4>1. r \in Entry /\ r.type = "EVENT_REJECTED" /\ ~r.claimed /\ r.rejected = {}
            /\ r.stands = q[s].stands /\ r.dropped = q[s].dropped
        BY <1>2, QueueAssumption DEF Queued, Entry, Records, Pushable
      <4>2. e = [r EXCEPT !.rejected = q[s].rejected \union {s}] BY <3>1 DEF RecordOf
      <4>3. q[s].rejected \union {s} \in SUBSET Nat BY <1>1, <1>2 DEF Entry
      <4>. HIDE DEF r, e
      <4>4. e \in Entry /\ e.type = "EVENT_REJECTED" /\ ~e.claimed BY <4>1, <4>2, <4>3 DEF Entry
      <4>5. /\ e.stands = q[s].stands /\ e.dropped = q[s].dropped
            /\ e.rejected = q[s].rejected \union {s}
        BY <4>1, <4>2 DEF Entry
      <4>. QED BY <4>4, <4>5 DEF AccountOf, AnswersFor
    <3>2. CASE q[s].type # "EVENTS_COALESCED"
      <4>. DEFINE r == Queued(seq, "EVENT_REJECTED", Marker)
      <4>1. r \in Entry /\ r.type = "EVENT_REJECTED" /\ ~r.claimed /\ r.stands = {seq} /\ r.dropped = {}
        BY <1>2, QueueAssumption DEF Queued, Entry, Records, Pushable
      <4>2. e = [r EXCEPT !.rejected = q[s].rejected \union {s}] BY <3>2 DEF RecordOf
      <4>3. q[s].rejected \union {s} \in SUBSET Nat BY <1>1, <1>2 DEF Entry
      <4>. HIDE DEF r, e
      <4>4. e \in Entry /\ e.type = "EVENT_REJECTED" /\ ~e.claimed BY <4>1, <4>2, <4>3 DEF Entry
      <4>5. /\ e.stands = {seq} /\ e.dropped = {}
            /\ e.rejected = q[s].rejected \union {s}
        BY <4>1, <4>2 DEF Entry
      <4>. QED BY <4>4, <4>5 DEF AccountOf, AnswersFor
    <3>. QED BY <3>1, <3>2
  <2>3. AccountOf(q[s]) \subseteq AccountOf(e)
    <3>1. CASE q[s].type \in Pushable
      BY <3>1, <1>1 DEF OwnAccount, RecordOf, Queued, AccountOf
    <3>2. CASE q[s].type = "EVENTS_COALESCED"
      BY <3>2 DEF RecordOf, Queued, AccountOf
    <3>. QED BY <3>1, <3>2, <1>2, <1>5 DEF Entry, Records
  <2>. HIDE DEF e
  <2>4. /\ DOMAIN q' = (DOMAIN q \ {s}) \union {seq} /\ q'[seq] = e
        /\ \A u \in DOMAIN q \ {s} : q'[u] = f[u]
    BY <1>2, <1>3, <2>1 DEF Appended
  <2>5. Same(DOMAIN q \ {s}) BY <1>3, <2>4 DEF Same
  <2>6. \E par : Rewrites(par)
    <3>1. {s} \in SUBSET DOMAIN q BY <1>1
    <3>2. \A x \in AccountOf(e) : x = seq \/ \E v \in {s} : x \in AnswersFor(v) BY <2>2
    <3>3. e.type \notin Pushable BY <2>2 DEF Pushable
    <3>. QED BY <2>1, <2>2, <2>4, <2>5, <3>1, <3>2, <3>3, Replaces
  <2>7. HeldBack \subseteq HeldBack'
    <3>1. ASSUME NEW u \in DOMAIN q
          PROVE \E v \in DOMAIN q' : AccountOf(q[u]) \subseteq AccountOf(q'[v])
      <4>1. CASE u = s BY <4>1, <2>3, <2>4
      <4>2. CASE u # s BY <4>2, <2>4, <2>5 DEF Same
      <4>. QED BY <4>1, <4>2
    <3>. QED BY <3>1, HeldBackKept
  <2>8. DropOK'
    <3>1. CASE drop = s BY <3>1, <1>1 DEF Forget, DropOK
    <3>2. CASE drop # s BY <3>2, <1>1, <1>3, <2>4 DEF Forget, DropOK, QueueTypeOK
    <3>. QED BY <3>1, <3>2
  <2>9. Spent' <= Spent
    <3>1. s \in Costly BY <1>1, <1>5 DEF Costly
    <3>2. \A u \in DOMAIN q \ {s} : q'[u].type = q[u].type BY <2>5 DEF Same
    <3>. QED BY <2>1, <2>2, <2>4, <3>1, <3>2, RecordIsPaid
  <2>10. \A u \in DOMAIN q' : ~q'[u].claimed BY <1>3, <2>2, <2>4
  <2>. QED BY <2>1, <2>6, <2>7, <2>8, <2>9, <2>10
<1>6. /\ \E par : Rewrites(par)
      /\ HeldBack \subseteq HeldBack' \union refused'
      /\ refused \subseteq refused' /\ DropOK' /\ Spent' <= Spent
      /\ \A u \in DOMAIN q' : ~q'[u].claimed
  BY <1>4, <1>5
<1>7. PICK par : Rewrites(par) BY <1>6
<1>8. /\ seq' \in Nat /\ seq <= seq'
      /\ \A u \in DOMAIN q' : q'[u] \in Entry
      /\ DOMAIN q' \subseteq 0..seq'-1
      /\ OwnAccount' /\ Issued'
  BY <1>1, <1>7, RewrittenIssued
<1>9. Sorted' /\ Apart' BY <1>1, <1>7, RewrittenSorted, RewrittenApart
<1>10. 0..seq-1 \subseteq 0..seq'-1 BY <1>2, <1>8, Widen
<1>11. DOMAIN flight' = {} BY DEF Nothing
<1>12. QueueTypeOK' BY <1>1, <1>6, <1>8, <1>10, <1>11 DEF QueueTypeOK, DropOK
<1>13. Carried' BY <1>11 DEF Carried
<1>14. Accounted'
  <2>1. Known(rows)' = Known(rows) BY <1>1 DEF Known
  <2>. QED BY <2>1, <1>1, <1>6 DEF Accounted
<1>. QED BY <1>1, <1>6, <1>8, <1>9, <1>12, <1>13, <1>14

-----------------------------------------------------------------------------
Few == Spent <= 3 * Cardinality(pushed)

LEMMA QueueStep ==
    ASSUME QInv, [QueueNext]_queueVars
    PROVE  QInv' /\ (Spent' <= Spent \/ \E type \in Pushable, size \in Sizes : Push(type, size))
<1>0. QueueTypeOK /\ OwnAccount BY DEF QInv
<1>1. ASSUME NEW type \in Pushable, NEW size \in Sizes, Push(type, size) PROVE QInv'
  <2>1. Bounding /\ seq \in HeldBack' BY <1>0, <1>1, PushStep
  <2>2. /\ bounding' = TRUE /\ pushed' = pushed \union {seq} /\ seq' = seq + 1
        /\ UNCHANGED <<batchMax, worker, flight, held, rows, lost, refused, shadowed>>
    BY <1>1 DEF Push, api
  <2>. QED BY <2>1, <2>2, BoundingKeeps
<1>2. CASE DropOldest \/ DegradeOldest \/ CoalesceOldestPair
  <2>1. Bounding /\ Spent' <= Spent BY <1>0, <1>2, DropStep, DegradeStep, CoalesceStep
  <2>2. /\ bounding' = bounding /\ pushed' = pushed
        /\ UNCHANGED <<batchMax, worker, flight, held, rows, lost, refused, shadowed>>
    BY <1>2 DEF DropOldest, DegradeOldest, CoalesceOldestPair, api
  <2>3. bounding' \in BOOLEAN BY <1>0, <2>2 DEF QueueTypeOK
  <2>. QED BY <2>1, <2>2, <2>3, BoundingKeeps
<1>3. ASSUME UNCHANGED <<seq, q, drop, rows, lost, pushed, refused, shadowed>>,
             flight' = flight \/ flight' = Nothing, bounding' \in BOOLEAN,
             batchMax' \in [events: Nat \ {0}, bytes: Nat \ {0}],
             worker' \in {"idle", "sending", "looping"}, held' \in BOOLEAN
      PROVE  QInv' /\ Spent' <= Spent
  <2>1. QInv' BY <1>3, QuietKeeps
  <2>2. Spent' <= Spent BY <1>0, <1>3, NoRecordNoCost
  <2>. QED BY <2>1, <2>2
<1>4. CASE Bounded \/ Rest \/ LoseLease \/ Failed \/ UNCHANGED queueVars
  <2>1. UNCHANGED <<seq, q, drop, rows, lost, pushed, refused, shadowed, batchMax>>
    BY <1>4 DEF Bounded, Rest, LoseLease, Failed, queueVars, queue, api
  <2>2. flight' = flight \/ flight' = Nothing
    BY <1>4 DEF Bounded, Rest, LoseLease, Failed, queueVars
  <2>3. bounding' \in BOOLEAN /\ held' \in BOOLEAN
    BY <1>4 DEF Bounded, Rest, LoseLease, Failed, queueVars, queue, QInv, QueueTypeOK
  <2>4. worker' \in {"idle", "sending", "looping"}
    BY <1>4 DEF Bounded, Rest, LoseLease, Failed, queueVars, queue, QInv, QueueTypeOK
  <2>5. batchMax' \in [events: Nat \ {0}, bytes: Nat \ {0}] BY <1>0, <2>1 DEF QueueTypeOK
  <2>. QED BY <2>1, <2>2, <2>3, <2>4, <2>5, <1>3
<1>5. CASE SendBatch BY <1>5, SendKeeps
<1>6. CASE Accepted BY <1>6, AcceptedKeeps
<1>7. CASE AnswerLost
  <2>1. Spent' <= Spent BY <1>0, <1>7, NoRecordNoCost DEF AnswerLost, queue
  <2>. QED BY <2>1, <1>7, AnswerLostKeeps
<1>8. ASSUME NEW s \in DOMAIN flight, EventRefused(s) PROVE QInv' /\ Spent' <= Spent
  BY <1>8, RejectKeeps DEF EventRefused
<1>9. CASE RequestRefused
  <2>1. CASE CanReduce
    <3>1. /\ batchMax' = [events |-> Halved(batchMax.events), bytes |-> Halved(batchMax.bytes)]
          /\ UNCHANGED <<seq, q, drop, bounding, refused, held, pushed>>
          /\ UNCHANGED <<rows, failures, lost, shadowed>>
          /\ flight' = Nothing /\ worker' = "looping"
      BY <1>9, <2>1 DEF RequestRefused, queue, api
    <3>2. ASSUME NEW n \in Nat \ {0} PROVE Halved(n) \in Nat \ {0} BY DEF Halved
    <3>3. batchMax' \in [events: Nat \ {0}, bytes: Nat \ {0}] BY <1>0, <3>1, <3>2 DEF QueueTypeOK
    <3>4. bounding' \in BOOLEAN /\ held' \in BOOLEAN BY <1>0, <3>1 DEF QueueTypeOK
    <3>. QED BY <3>1, <3>3, <3>4, <1>3
  <2>2. CASE ~CanReduce
    <3>1. Reject(Oldest(DOMAIN flight)) /\ flight' = Nothing /\ worker' = "looping"
          /\ UNCHANGED <<held, pushed, api>>
      BY <1>9, <2>2 DEF RequestRefused
    <3>. QED BY <3>1, RejectKeeps
  <2>. QED BY <2>1, <2>2
<1>. QED BY <1>1, <1>2, <1>4, <1>5, <1>6, <1>7, <1>8, <1>9 DEF QueueNext, EnforceBound, Answer

LEMMA QueueStarts == QueueInit => QInv /\ Few
<1>. SUFFICES ASSUME QueueInit PROVE QInv /\ Few OBVIOUS
<1>1. /\ seq = 0 /\ DOMAIN q = {} /\ DOMAIN flight = {} /\ DOMAIN rows = {} /\ pushed = {}
      /\ drop = NoRecord /\ bounding = FALSE /\ lost = 0 /\ worker = "idle" /\ held = TRUE
      /\ batchMax = [events |-> BatchEvents, bytes |-> BatchBytes]
  BY DEF QueueInit, Nothing
<1>2. QueueTypeOK BY <1>1, QueueAssumption DEF QueueTypeOK
<1>3. OwnAccount /\ Issued /\ Carried /\ Sorted
  BY <1>1 DEF OwnAccount, Issued, Carried, Sorted
<1>4. Apart /\ Accounted BY <1>1 DEF Apart, Accounted
<1>5. Few
  <2>1. Costly = {} BY <1>1 DEF Costly
  <2>. QED BY <1>1, <2>1, FS_EmptySet DEF Few, Spent
<1>. QED BY <1>2, <1>3, <1>4, <1>5 DEF QInv

LEMMA SpentIsNat == QueueTypeOK => Spent \in Nat /\ Cardinality(pushed) \in Nat
BY Spending, Finite DEF QueueTypeOK

LEMMA FewStep ==
    ASSUME QInv, Few, [QueueNext]_queueVars
    PROVE  Few'
<1>1. QueueTypeOK /\ QueueTypeOK' /\ OwnAccount BY QueueStep DEF QInv
<1>2. Spent \in Nat /\ Cardinality(pushed) \in Nat BY <1>1, SpentIsNat
<1>3. QueueTypeOK' => (Spent \in Nat /\ Cardinality(pushed) \in Nat)' BY SpentIsNat, PTL
<1>4. Spent' \in Nat /\ Cardinality(pushed)' \in Nat BY <1>1, <1>3
<1>5. ASSUME NEW type \in Pushable, NEW size \in Sizes, Push(type, size) PROVE Few'
  <2>1. Spent' <= Spent + 3 BY <1>1, <1>5, PushStep
  <2>2. pushed' = pushed \union {seq} BY <1>5 DEF Push
  <2>3. seq \in Nat /\ pushed \subseteq 0..seq-1 BY <1>1 DEF QueueTypeOK
  <2>6. IsFiniteSet(pushed) /\ seq \notin pushed
    <3>1. IsFiniteSet(pushed) BY <1>1, <2>3, Finite
    <3>2. seq \notin pushed BY ONLY <2>3
    <3>. QED BY <3>1, <3>2
  <2>4. Cardinality(pushed \union {seq}) = Cardinality(pushed) + 1 BY <2>6, FS_AddElement
  <2>5. Cardinality(pushed)' = Cardinality(pushed) + 1 BY <2>2, <2>4
  <2>. QED BY <1>2, <1>4, <2>1, <2>5 DEF Few
<1>6. CASE ~ \E type \in Pushable, size \in Sizes : Push(type, size)
  <2>1. Spent' <= Spent BY <1>6, QueueStep
  <2>2. pushed' = pushed
    BY <1>6 DEF QueueNext, EnforceBound, DropOldest, DegradeOldest, CoalesceOldestPair, Bounded,
       SendBatch, Rest, LoseLease, Answer, Accepted, AnswerLost, Failed, EventRefused,
       RequestRefused, queueVars
  <2>3. Cardinality(pushed)' = Cardinality(pushed) BY <2>2
  <2>. QED BY <1>2, <1>4, <2>1, <2>3 DEF Few
<1>. QED BY <1>5, <1>6

\* The queue, the request in flight and the rows of the API always fit together.
THEOREM QueueInvariant == QueueSpec => [](QInv /\ Few)
<1>1. QInv /\ Few /\ [QueueNext]_queueVars => (QInv /\ Few)' BY QueueStep, FewStep
<1>. QED BY <1>1, QueueStarts, PTL DEF QueueSpec

\* Whatever the provider reports and however the API answers, no event vanishes,
\* and none is counted twice while every answer arrives.
THEOREM AccountsBalance == QueueSpec => []AccountBalances
<1>1. QInv => AccountBalances
  <2>. SUFFICES ASSUME QInv PROVE CountedOnce BY DEF QInv, AccountBalances
  <2>. SUFFICES ASSUME lost = 0
       PROVE  /\ DOMAIN q \intersect DOMAIN rows = {}
              /\ Known(rows) \intersect HeldBack = {}
              /\ \A s, t \in DOMAIN q : s # t => AccountOf(q[s]) \intersect AccountOf(q[t]) = {}
              /\ \A s, t \in DOMAIN rows : s # t => rows[s] \intersect rows[t] = {}
    BY DEF CountedOnce
  <2>1. Apart BY DEF QInv
  <2>2. \A s \in DOMAIN q : AnswersFor(s) \intersect (DOMAIN rows \union Known(rows)) = {}
    BY <2>1 DEF Apart
  <2>3. DOMAIN q \intersect DOMAIN rows = {} BY <2>2 DEF AnswersFor
  <2>4. Known(rows) \intersect HeldBack = {} BY <2>2 DEF AnswersFor, HeldBack
  <2>5. \A s, t \in DOMAIN q : s # t => AccountOf(q[s]) \intersect AccountOf(q[t]) = {}
    BY <2>1 DEF Apart, AnswersFor
  <2>. QED BY <2>1, <2>3, <2>4, <2>5 DEF Apart
<1>. QED BY <1>1, QueueInvariant, PTL

\* At most three sequence numbers for each event of the provider, whatever the
\* API refuses.
THEOREM RecordsStayFew == QueueSpec => []RecordsAreFew
<1>1. QInv /\ Few => RecordsAreFew
  <2>. SUFFICES ASSUME QInv, Few PROVE RecordsAreFew OBVIOUS
  <2>1. QueueTypeOK BY DEF QInv
  <2>2. /\ Cardinality(DOMAIN q) \in Nat /\ Cardinality(Costly) \in Nat /\ seq \in Nat
        /\ Cardinality(pushed) \in Nat
    BY <2>1, Spending, SpentIsNat
  <2>. QED BY <2>2 DEF Few, Spent, RecordsAreFew
<1>. QED BY <1>1, QueueInvariant, PTL

\* The rows of a Run grow in the order of its sequence numbers.
THEOREM RowsComeInOrder == QueueSpec => InOrder
<1>1. QInv /\ [QueueNext]_queueVars =>
        [\A s \in DOMAIN rows' \ DOMAIN rows : \A t \in DOMAIN rows : t < s]_queueVars
  <2>. SUFFICES ASSUME QInv, QueueNext, NEW s \in DOMAIN rows' \ DOMAIN rows, NEW t \in DOMAIN rows
       PROVE  t < s
    OBVIOUS
  <2>1. rows' = rows \/ Append
    BY DEF QueueNext, Push, EnforceBound, DropOldest, DegradeOldest, CoalesceOldestPair, Bounded,
       SendBatch, Rest, LoseLease, Answer, Accepted, AnswerLost, Failed, EventRefused,
       RequestRefused, api
  <2>2. s \in DOMAIN flight BY <2>1 DEF Append
  <2>3. s \in DOMAIN q BY <2>2 DEF QInv, Carried
  <2>. QED BY <2>3 DEF QInv, Sorted
<1>. QED BY <1>1, QueueInvariant, PTL DEF QueueSpec, InOrder

-----------------------------------------------------------------------------
(***************************************************************************)
(* The bound on the number of events.                                      *)
(***************************************************************************)

\* Only the head of the queue is claimed, no more of it than a request takes;
\* what is not can be brought down to one entry.
Sent == {s \in DOMAIN q : q[s].claimed}
SentFirst == \A s, t \in DOMAIN q : q[t].claimed /\ s < t => q[s].claimed
BatchFits == batchMax.events <= BatchEvents /\ Cardinality(Sent) <= BatchEvents
EventsBounded == ~bounding => Cardinality(DOMAIN q) <= MaxEvents
CountInv == SentFirst /\ BatchFits /\ EventsBounded

LEMMA NewestIs ==
    ASSUME NEW n \in Nat, NEW S \in SUBSET (0..n), S # {}
    PROVE  \E m \in S : \A k \in S : k <= m
<1>. DEFINE older == {n - m : m \in S}
<1>1. older \in SUBSET Nat /\ older # {}
  <2>1. PICK m \in S : TRUE OBVIOUS
  <2>2. n - m \in older BY <2>1
  <2>3. \A k \in S : n - k \in Nat OBVIOUS
  <2>. QED BY <2>2, <2>3
<1>2. Oldest(older) \in older /\ \A k \in older : Oldest(older) <= k BY <1>1, OldestIs
<1>3. PICK m \in S : Oldest(older) = n - m BY <1>2
<1>4. ASSUME NEW k \in S PROVE k <= m
  <2>1. n - k \in older OBVIOUS
  <2>. HIDE DEF older
  <2>2. n - m <= n - k BY <1>2, <1>3, <2>1
  <2>. QED BY <2>2
<1>. QED BY <1>4

LEMMA SentSpending ==
    ASSUME QueueTypeOK
    PROVE  IsFiniteSet(Sent) /\ Cardinality(Sent) \in Nat
BY Finite DEF QueueTypeOK, Sent

\* A request is the head of the queue up to its newest event, which fits.
LEMMA BatchIsHead ==
    ASSUME QueueTypeOK, Batch # {}
    PROVE  \E m \in Batch :
               /\ Batch \subseteq Head(m) /\ Fits(m)
               /\ Head(m) \subseteq DOMAIN q /\ IsFiniteSet(Head(m))
<1>1. seq \in Nat /\ DOMAIN q \subseteq 0..seq-1 /\ Batch \subseteq DOMAIN q
  BY DEF QueueTypeOK, Batch
<1>2. Batch \in SUBSET (0..seq) BY <1>1
<1>3. PICK m \in Batch : \A k \in Batch : k <= m BY <1>1, <1>2, NewestIs
<1>4. Batch \subseteq Head(m) BY <1>1, <1>3 DEF Head
<1>5. Head(m) \subseteq 0..seq-1 /\ m \in Head(m) BY <1>1, <1>3 DEF Head
<1>6. Fits(m) BY <1>3, <1>5 DEF Batch
<1>7. IsFiniteSet(Head(m)) BY <1>5, Finite
<1>. QED BY <1>3, <1>4, <1>6, <1>7 DEF Head

\* A request takes at most batchMax.events events.
LEMMA BatchIsSmall ==
    ASSUME QueueTypeOK
    PROVE  Cardinality(Batch) <= batchMax.events
<1>1. CASE Batch = {} BY <1>1, FS_EmptySet DEF QueueTypeOK
<1>2. CASE Batch # {}
  <2>1. PICK m \in Batch : Batch \subseteq Head(m) /\ Fits(m) /\ IsFiniteSet(Head(m))
    BY <1>2, BatchIsHead
  <2>2. Cardinality(Batch) <= Cardinality(Head(m)) BY <2>1, FS_Subset
  <2>3. Cardinality(Batch) \in Nat /\ Cardinality(Head(m)) \in Nat
    BY <2>1, FS_Subset, FS_CardinalityType
  <2>. QED BY <2>1, <2>2, <2>3 DEF Fits, QueueTypeOK
<1>. QED BY <1>1, <1>2

LEMMA BoundingCounts ==
    ASSUME QInv, SentFirst, BatchFits, Bounding, batchMax' = batchMax
    PROVE  SentFirst' /\ BatchFits'
<1>1. DOMAIN q' \subseteq DOMAIN q \union {seq} BY DEF Bounding, Rewrites
<1>2. /\ \A u \in DOMAIN q : q[u].claimed => u \in DOMAIN q' /\ q'[u] = q[u]
      /\ \A u \in DOMAIN q' : q'[u].claimed => u \in DOMAIN q /\ q[u].claimed
  BY DEF Bounding
<1>3. Sent' = Sent BY <1>2 DEF Sent
<1>4. SentFirst'
  <2>. SUFFICES ASSUME NEW s \in DOMAIN q', NEW t \in DOMAIN q', q'[t].claimed, s < t
       PROVE  q'[s].claimed
    BY DEF SentFirst
  <2>1. t \in DOMAIN q /\ q[t].claimed BY <1>2
  <2>2. s \in DOMAIN q BY <1>1, <2>1 DEF QInv, QueueTypeOK
  <2>. QED BY <1>2, <2>1, <2>2 DEF SentFirst
<1>. QED BY <1>3, <1>4 DEF BatchFits

LEMMA FewerCounts ==
    ASSUME QInv, CountInv, DOMAIN q' \subseteq DOMAIN q,
           \A u \in DOMAIN q' : q'[u].claimed = q[u].claimed,
           bounding' = bounding \/ bounding', batchMax'.events <= BatchEvents
    PROVE  CountInv'
<1>1. QueueTypeOK BY DEF QInv
<1>2. /\ IsFiniteSet(DOMAIN q) /\ Cardinality(DOMAIN q) \in Nat
      /\ IsFiniteSet(Sent) /\ Cardinality(Sent) \in Nat
  BY <1>1, Spending, SentSpending
<1>3. Cardinality(DOMAIN q') <= Cardinality(DOMAIN q) /\ Cardinality(DOMAIN q') \in Nat
  <2>1. IsFiniteSet(DOMAIN q') /\ Cardinality(DOMAIN q') <= Cardinality(DOMAIN q)
    BY <1>2, FS_Subset
  <2>. QED BY <2>1, FS_CardinalityType
<1>4. Sent' \subseteq Sent BY DEF Sent
<1>5. Cardinality(Sent') <= Cardinality(Sent) /\ Cardinality(Sent') \in Nat
  <2>1. IsFiniteSet(Sent') /\ Cardinality(Sent') <= Cardinality(Sent)
    BY <1>2, <1>4, FS_Subset
  <2>. QED BY <2>1, FS_CardinalityType
<1>6. SentFirst' BY DEF CountInv, SentFirst
<1>7. BatchFits' BY <1>2, <1>5, QueueAssumption DEF CountInv, BatchFits
<1>8. EventsBounded' BY <1>2, <1>3, QueueAssumption DEF CountInv, EventsBounded
<1>. QED BY <1>6, <1>7, <1>8 DEF CountInv

\* When the loop gives up, all but one of the entries are in a request.
LEMMA StuckIsOne ==
    ASSUME QueueTypeOK, SentFirst, Degradable = {}, Mergeable = {}
    PROVE  DOMAIN q = Sent \/ \E s \in DOMAIN q \ Sent : DOMAIN q = Sent \union {s}
<1>1. seq \in Nat /\ DOMAIN q \subseteq 0..seq-1 /\ DOMAIN q \subseteq Nat BY DEF QueueTypeOK
<1>2. ASSUME NEW s \in DOMAIN q \ Sent, NEW w \in DOMAIN q \ Sent, s < w PROVE FALSE
  <2>. DEFINE S == {u \in DOMAIN q : u > s}
  <2>1. w \in S /\ S \in SUBSET Nat BY <1>1, <1>2
  <2>. DEFINE t == Oldest(S)
  <2>2. t \in S /\ \A u \in S : t <= u BY <2>1, OldestIs
  <2>3. t \in DOMAIN q /\ s < t
    <3>. HIDE DEF t
    <3>. QED BY <1>1, <2>2
  <2>. HIDE DEF t
  <2>9. ASSUME NEW u \in DOMAIN q, s < u, u < t PROVE FALSE
    <3>1. u \in S BY <1>1, <2>9
    <3>2. u \in Nat /\ t \in Nat BY <1>1, <2>3
    <3>. HIDE DEF S
    <3>. QED BY <2>2, <2>9, <3>1, <3>2
  <2>. HIDE DEF S
  <2>4. Adjacent(s, t) BY <2>3, <2>9 DEF Adjacent
  <2>5. ~q[s].claimed BY DEF Sent
  <2>6. ~q[t].claimed BY <2>3, <2>5 DEF SentFirst
  <2>7. q[s].degraded /\ q[t].degraded BY <2>3, <2>5, <2>6 DEF Degradable
  <2>8. s \in Mergeable BY <2>3, <2>4, <2>5, <2>6, <2>7 DEF Mergeable
  <2>. QED BY <2>8
<1>3. CASE DOMAIN q \subseteq Sent BY <1>3 DEF Sent
<1>4. CASE ~(DOMAIN q \subseteq Sent)
  <2>1. PICK s \in DOMAIN q : s \notin Sent BY <1>4
  <2>2. ASSUME NEW w \in DOMAIN q PROVE w \in Sent \union {s}
    <3>1. s \in Nat /\ w \in Nat BY <1>1
    <3>. QED BY <1>2, <2>1, <3>1
  <2>3. DOMAIN q = Sent \union {s} BY <2>1, <2>2 DEF Sent
  <2>. QED BY <2>1, <2>3
<1>. QED BY <1>3, <1>4

LEMMA StuckIsSmall ==
    ASSUME QueueTypeOK, SentFirst, Degradable = {}, Mergeable = {}
    PROVE  Cardinality(DOMAIN q) <= Cardinality(Sent) + 1
<1>1. IsFiniteSet(Sent) /\ Cardinality(Sent) \in Nat BY SentSpending
<1>2. ASSUME NEW s \in DOMAIN q \ Sent
      PROVE  Cardinality(Sent \union {s}) = Cardinality(Sent) + 1
  BY <1>1, FS_AddElement
<1>3. CASE DOMAIN q = Sent BY <1>1, <1>3
<1>4. CASE \E s \in DOMAIN q \ Sent : DOMAIN q = Sent \union {s}
  <2>1. PICK s \in DOMAIN q \ Sent : DOMAIN q = Sent \union {s} BY <1>4
  <2>2. Cardinality(DOMAIN q) = Cardinality(Sent) + 1 BY <1>2, <2>1
  <2>. QED BY <1>1, <2>2
<1>. QED BY <1>3, <1>4, StuckIsOne

LEMMA CountStep ==
    ASSUME QInv, CountInv, [QueueNext]_queueVars, BatchEvents < MaxEvents
    PROVE  CountInv'
<1>1. QueueTypeOK /\ OwnAccount BY DEF QInv
<1>2. ASSUME NEW type \in Pushable, NEW size \in Sizes, Push(type, size) PROVE CountInv'
  <2>1. Bounding BY <1>1, <1>2, PushStep
  <2>2. bounding' = TRUE /\ batchMax' = batchMax BY <1>2 DEF Push
  <2>. QED BY <2>1, <2>2, BoundingCounts DEF CountInv, EventsBounded
<1>3. CASE DropOldest \/ DegradeOldest \/ CoalesceOldestPair
  <2>1. Bounding BY <1>1, <1>3, DropStep, DegradeStep, CoalesceStep
  <2>2. bounding /\ bounding' = bounding /\ batchMax' = batchMax
    BY <1>3 DEF DropOldest, DegradeOldest, CoalesceOldestPair
  <2>. QED BY <2>1, <2>2, BoundingCounts DEF CountInv, EventsBounded
<1>4. CASE Bounded
  <2>1. UNCHANGED <<q, batchMax>> BY <1>4 DEF Bounded
  <2>2. Sent' = Sent /\ SentFirst' BY <2>1 DEF Sent, CountInv, SentFirst
  <2>3. BatchFits' BY <2>1, <2>2 DEF CountInv, BatchFits
  <2>4. Cardinality(DOMAIN q) <= MaxEvents
    <3>1. CASE ~Over
      <4>1. Cardinality(DOMAIN q) \in Nat BY <1>1, Spending
      <4>. QED BY <3>1, <4>1, QueueAssumption DEF Over
    <3>2. CASE Degradable = {} /\ Mergeable = {}
      <4>1. Cardinality(DOMAIN q) <= Cardinality(Sent) + 1
        BY <1>1, <3>2, StuckIsSmall DEF CountInv
      <4>2. Cardinality(DOMAIN q) \in Nat /\ Cardinality(Sent) \in Nat
        BY <1>1, Spending, SentSpending
      <4>. QED BY <4>1, <4>2, QueueAssumption DEF CountInv, BatchFits
    <3>. QED BY <1>4, <3>1, <3>2 DEF Bounded
  <2>. QED BY <2>1, <2>2, <2>3, <2>4 DEF CountInv, EventsBounded
<1>5. CASE SendBatch
  <2>1. /\ q' = [s \in DOMAIN q |-> [q[s] EXCEPT !.claimed = s \in Batch]]
        /\ batchMax' = batchMax /\ bounding' = bounding
    BY <1>5 DEF SendBatch
  <2>2. DOMAIN q' = DOMAIN q BY <2>1
  <2>3. ASSUME NEW s \in DOMAIN q PROVE q'[s].claimed = (s \in Batch)
    <3>1. q[s] \in Entry BY <1>1 DEF QueueTypeOK
    <3>2. q'[s] = [q[s] EXCEPT !.claimed = s \in Batch] BY <2>1
    <3>3. (s \in Batch) \in BOOLEAN OBVIOUS
    <3>. QED BY <3>1, <3>2, <3>3 DEF Entry
  <2>4. Batch \subseteq DOMAIN q BY DEF Batch
  <2>5. Sent' = Batch BY <2>2, <2>3, <2>4 DEF Sent
  <2>6. SentFirst'
    <3>. SUFFICES ASSUME NEW s \in DOMAIN q, NEW t \in Batch, s < t PROVE s \in Batch
      BY <2>2, <2>3, <2>4 DEF SentFirst
    <3>1. s \in Nat /\ t \in Nat /\ DOMAIN q \subseteq Nat BY <1>1, <2>4 DEF QueueTypeOK
    <3>2. Head(s) \subseteq Head(t) BY <3>1 DEF Head
    <3>. QED BY <3>2 DEF Batch
  <2>7. BatchFits'
    <3>1. Cardinality(Batch) <= batchMax.events BY <1>1, BatchIsSmall
    <3>2. Cardinality(Batch) \in Nat BY <1>1, <2>4, Finite DEF QueueTypeOK
    <3>3. Cardinality(Sent)' = Cardinality(Batch) BY <2>5
    <3>. QED BY <1>1, <2>1, <3>1, <3>2, <3>3, QueueAssumption
         DEF CountInv, BatchFits, QueueTypeOK
  <2>8. EventsBounded' BY <2>1, <2>2 DEF CountInv, EventsBounded
  <2>. QED BY <2>6, <2>7, <2>8 DEF CountInv
<1>6. CASE Accepted
  <2>1. q' = Without(DOMAIN flight) /\ bounding' = bounding /\ batchMax' = batchMax
    BY <1>6 DEF Accepted
  <2>2. /\ DOMAIN q' \subseteq DOMAIN q
        /\ \A u \in DOMAIN q' : q'[u].claimed = q[u].claimed
    BY <2>1, WithoutIs
  <2>3. batchMax'.events <= BatchEvents BY <2>1 DEF CountInv, BatchFits
  <2>. QED BY <2>1, <2>2, <2>3, FewerCounts
<1>7. CASE Rest \/ LoseLease \/ AnswerLost \/ Failed \/ UNCHANGED queueVars
           \/ (RequestRefused /\ CanReduce)
  <2>1. q' = q /\ bounding' = bounding
    BY <1>7 DEF Rest, LoseLease, AnswerLost, Failed, RequestRefused, queueVars, queue
  <2>2. batchMax'.events <= BatchEvents
    <3>1. CASE batchMax' = batchMax BY <3>1 DEF CountInv, BatchFits
    <3>2. CASE batchMax'.events = Halved(batchMax.events)
      <4>1. ASSUME NEW n \in Nat \ {0} PROVE Halved(n) <= n BY DEF Halved
      <4>2. Halved(batchMax.events) <= batchMax.events /\ Halved(batchMax.events) \in Nat
        BY <1>1, <4>1 DEF QueueTypeOK, Halved
      <4>. QED BY <1>1, <3>2, <4>2, QueueAssumption DEF QueueTypeOK, CountInv, BatchFits
    <3>. QED BY <1>7, <3>1, <3>2
         DEF Rest, LoseLease, AnswerLost, Failed, RequestRefused, queueVars
  <2>. QED BY <2>1, <2>2, FewerCounts
<1>8. ASSUME NEW s, Reject(s), flight' = Nothing, worker' = "looping",
             UNCHANGED <<held, pushed, api>>
      PROVE  CountInv'
  <2>1. bounding' /\ \A u \in DOMAIN q' : ~q'[u].claimed BY <1>8, RejectKeeps
  <2>2. SentFirst' BY <2>1 DEF SentFirst
  <2>3. Sent' = {} BY <2>1 DEF Sent
  <2>4. Cardinality(Sent)' = 0 BY <2>3, FS_EmptySet
  <2>5. batchMax' = batchMax BY <1>8 DEF Reject
  <2>6. BatchFits' BY <2>4, <2>5, QueueAssumption DEF CountInv, BatchFits
  <2>. QED BY <2>1, <2>2, <2>6 DEF CountInv, EventsBounded
<1>9. ASSUME NEW s \in DOMAIN flight, EventRefused(s) PROVE CountInv'
  BY <1>8, <1>9 DEF EventRefused
<1>10. CASE RequestRefused /\ ~CanReduce
  <2>1. Reject(Oldest(DOMAIN flight)) /\ flight' = Nothing /\ worker' = "looping"
        /\ UNCHANGED <<held, pushed, api>>
    BY <1>10 DEF RequestRefused
  <2>. QED BY <2>1, <1>8
<1>. QED BY <1>2, <1>3, <1>4, <1>5, <1>6, <1>7, <1>9, <1>10 DEF QueueNext, EnforceBound, Answer

\* Whatever the provider reports and however long the API does not answer, the
\* queue holds at most maxEvents events, as long as a request takes fewer.
THEOREM EventsStayBounded ==
    ASSUME BatchEvents < MaxEvents
    PROVE  QueueSpec => []EventsBounded
<1>1. QueueInit => CountInv
  <2>. SUFFICES ASSUME QueueInit PROVE CountInv OBVIOUS
  <2>1. DOMAIN q = {} /\ batchMax = [events |-> BatchEvents, bytes |-> BatchBytes]
    BY DEF QueueInit, Nothing
  <2>2. Sent = {} BY <2>1 DEF Sent
  <2>. QED BY <2>1, <2>2, FS_EmptySet, QueueAssumption
       DEF CountInv, SentFirst, BatchFits, EventsBounded
<1>2. QInv /\ CountInv /\ [QueueNext]_queueVars => CountInv' BY CountStep
<1>3. CountInv => EventsBounded BY DEF CountInv
<1>. QED BY <1>1, <1>2, <1>3, QueueInvariant, PTL DEF QueueSpec

-----------------------------------------------------------------------------
(***************************************************************************)
(* The bound on the bytes.  SizeOf is a fold, the value of a recursive     *)
(* function that CHOOSE names: that function exists, and the facts about   *)
(* its sums, are proved over the smallest set that would refute them.      *)
(***************************************************************************)
Weight(f, S) == MapThenSumSet(LAMBDA s : f[s].size, S)
First(T) == CHOOSE x \in T : TRUE
Sums(g, f, D) ==
    g = [T \in D |-> IF T = {} THEN 0 ELSE f[First(T)].size + g[T \ {First(T)}]]

LEMMA SmallestIs ==
    ASSUME NEW B, B # {}, \A T \in B : IsFiniteSet(T)
    PROVE  \E T \in B : \A U \in B : Cardinality(T) <= Cardinality(U)
<1>. DEFINE S == {Cardinality(T) : T \in B}
<1>1. S \in SUBSET Nat BY FS_CardinalityType
<1>2. S # {} OBVIOUS
<1>3. Oldest(S) \in S /\ \A n \in S : Oldest(S) <= n BY <1>1, <1>2, OldestIs
<1>. QED BY <1>3

\* The recursive function of the fold exists: it is built up one size of set
\* at a time.
LEMMA SumsExist ==
    ASSUME NEW f, NEW S, IsFiniteSet(S)
    PROVE  \E g : Sums(g, f, SUBSET S)
<1>. DEFINE Level(k) == {T \in SUBSET S : Cardinality(T) <= k}
            Missing == {k \in Nat : ~ \E g : Sums(g, f, Level(k))}
<1>1. \A T \in SUBSET S : IsFiniteSet(T) /\ Cardinality(T) \in Nat
  BY FS_Subset, FS_CardinalityType
<1>2. 0 \notin Missing
  <2>. SUFFICES \E g : Sums(g, f, Level(0)) OBVIOUS
  <2>. DEFINE g == [T \in Level(0) |-> 0]
  <2>1. \A T \in Level(0) : T = {} BY <1>1, FS_EmptySet
  <2>2. Sums(g, f, Level(0)) BY <2>1 DEF Sums
  <2>. QED BY <2>2
<1>3. ASSUME NEW k \in Nat, NEW g, Sums(g, f, Level(k)) PROVE \E h : Sums(h, f, Level(k+1))
  <2>. DEFINE D == Level(k+1)
              h == [T \in D |-> IF T = {} THEN 0 ELSE f[First(T)].size + g[T \ {First(T)}]]
  <2>1. ASSUME NEW T \in Level(k+1), T # {} PROVE T \ {First(T)} \in Level(k)
    <3>1. First(T) \in T BY <2>1 DEF First
    <3>2. Cardinality(T \ {First(T)}) = Cardinality(T) - 1 BY <1>1, <3>1, FS_RemoveElement
    <3>. QED BY <1>1, <3>2
  <2>2. Level(k) \subseteq Level(k+1) BY <1>1
  <2>3. ASSUME NEW T \in Level(k) PROVE h[T] = g[T]
    <3>1. T \in D BY <2>2
    <3>2. h[T] = IF T = {} THEN 0 ELSE f[First(T)].size + g[T \ {First(T)}] BY <3>1
    <3>. HIDE DEF h, D, Level
    <3>3. g[T] = IF T = {} THEN 0 ELSE f[First(T)].size + g[T \ {First(T)}]
      BY <1>3 DEF Sums
    <3>. QED BY <3>2, <3>3
  <2>4. ASSUME NEW T \in D
        PROVE h[T] = IF T = {} THEN 0 ELSE f[First(T)].size + h[T \ {First(T)}]
    <3>1. h[T] = IF T = {} THEN 0 ELSE f[First(T)].size + g[T \ {First(T)}] OBVIOUS
    <3>2. T # {} => h[T \ {First(T)}] = g[T \ {First(T)}] BY <2>1, <2>3
    <3>. HIDE DEF h, D, Level
    <3>. QED BY <3>1, <3>2
  <2>5. h = [T \in D |-> h[T]] OBVIOUS
  <2>. HIDE DEF h
  <2>6. [T \in D |-> h[T]]
          = [T \in D |-> IF T = {} THEN 0 ELSE f[First(T)].size + h[T \ {First(T)}]]
    <3>. HIDE DEF D
    <3>. QED BY <2>4
  <2>7. Sums(h, f, D) BY <2>5, <2>6 DEF Sums
  <2>. QED BY <2>7
<1>4. Missing = {}
  <2>. SUFFICES ASSUME Missing # {} PROVE FALSE OBVIOUS
  <2>1. Missing \in SUBSET Nat OBVIOUS
  <2>. DEFINE m == Oldest(Missing)
  <2>2. m \in Missing /\ \A n \in Missing : m <= n
    <3>. HIDE DEF Missing
    <3>. QED BY <2>1, OldestIs
  <2>. HIDE DEF m
  <2>3. m \in Nat /\ m # 0 BY <1>2, <2>2
  <2>4. m - 1 \in Nat /\ m - 1 \notin Missing
    <3>. HIDE DEF Missing
    <3>. QED BY <2>2, <2>3
  <2>5. PICK g : Sums(g, f, Level(m - 1)) BY <2>4
  <2>6. \E h : Sums(h, f, Level((m - 1) + 1))
    <3>. HIDE DEF Level
    <3>. QED BY <1>3, <2>4, <2>5
  <2>7. (m - 1) + 1 = m BY <2>3
  <2>. QED BY <2>2, <2>6, <2>7
<1>5. Level(Cardinality(S)) = SUBSET S
  <2>1. \A T \in SUBSET S : Cardinality(T) <= Cardinality(S) BY FS_Subset
  <2>. QED BY <2>1
<1>6. Cardinality(S) \in Nat BY FS_CardinalityType
<1>. QED BY <1>4, <1>5, <1>6

\* The weight of a set is the value at the set of a function that sums.
LEMMA WeightSums ==
    ASSUME NEW f, NEW S, IsFiniteSet(S)
    PROVE  \E g : Sums(g, f, SUBSET S) /\ Weight(f, S) = g[S]
<1>. DEFINE g == CHOOSE h : Sums(h, f, SUBSET S)
<1>1. Sums(g, f, SUBSET S) BY SumsExist
<1>2. Weight(f, S) = g[S]
  BY Zenon DEF Weight, MapThenSumSet, MapThenFoldSet, Sums, First
<1>. QED BY <1>1, <1>2

LEMMA SumsEmpty ==
    ASSUME NEW f, NEW S, NEW g, Sums(g, f, SUBSET S)
    PROVE  g[{}] = 0
<1>1. {} \in SUBSET S OBVIOUS
<1>. QED BY <1>1 DEF Sums

LEMMA SumsStep ==
    ASSUME NEW f, NEW S, NEW g, Sums(g, f, SUBSET S), NEW T \in SUBSET S, T # {}
    PROVE  g[T] = f[First(T)].size + g[T \ {First(T)}]
<1>1. g[T] = IF T = {} THEN 0 ELSE f[First(T)].size + g[T \ {First(T)}] BY DEF Sums
<1>. QED BY <1>1

LEMMA FirstIs ==
    ASSUME NEW S, IsFiniteSet(S), NEW T \in SUBSET S, T # {}
    PROVE  /\ First(T) \in T /\ T \ {First(T)} \in SUBSET S
           /\ \A x \in T : Cardinality(T \ {x}) < Cardinality(T)
           /\ Cardinality(T) \in Nat
<1>1. First(T) \in T BY DEF First
<1>2. IsFiniteSet(T) BY FS_Subset
<1>3. Cardinality(T) \in Nat BY <1>2, FS_CardinalityType
<1>4. \A x \in T : Cardinality(T \ {x}) = Cardinality(T) - 1 BY <1>2, FS_RemoveElement
<1>. QED BY <1>1, <1>3, <1>4

LEMMA SumsNat ==
    ASSUME NEW f, NEW S, IsFiniteSet(S), NEW g, Sums(g, f, SUBSET S),
           \A x \in S : f[x].size \in Nat
    PROVE  \A T \in SUBSET S : g[T] \in Nat
<1>0. g[{}] = 0 BY SumsEmpty
<1>. DEFINE B == {T \in SUBSET S : g[T] \notin Nat}
<1>. SUFFICES ASSUME B # {} PROVE FALSE OBVIOUS
<1>1. \A T \in B : IsFiniteSet(T) BY FS_Subset
<1>2. PICK T \in B : \A U \in B : Cardinality(T) <= Cardinality(U) BY <1>1, SmallestIs
<1>3. T \in SUBSET S /\ T # {}
  <2>1. T \in SUBSET S /\ g[T] \notin Nat BY <1>2
  <2>2. g[T] # 0 BY <2>1
  <2>. QED BY <1>0, <2>1, <2>2
<1>4. /\ First(T) \in T /\ T \ {First(T)} \in SUBSET S
      /\ Cardinality(T \ {First(T)}) < Cardinality(T) /\ Cardinality(T) \in Nat
  BY <1>3, FirstIs
<1>5. Cardinality(T \ {First(T)}) \in Nat BY <1>4, FS_Subset, FS_CardinalityType
<1>6. T \ {First(T)} \notin B
  <2>. HIDE DEF B
  <2>. QED BY <1>2, <1>4, <1>5
<1>7. g[T \ {First(T)}] \in Nat /\ f[First(T)].size \in Nat BY <1>4, <1>6
<1>8. g[T] = f[First(T)].size + g[T \ {First(T)}] BY <1>3, SumsStep
<1>. QED BY <1>2, <1>7, <1>8

LEMMA SumsSame ==
    ASSUME NEW f, NEW S, IsFiniteSet(S), NEW g, Sums(g, f, SUBSET S),
           NEW e, NEW h, Sums(h, e, SUBSET S),
           \A x \in S : f[x].size = e[x].size
    PROVE  g[S] = h[S]
<1>0. g[{}] = 0 /\ h[{}] = 0 BY SumsEmpty
<1>. DEFINE B == {T \in SUBSET S : g[T] # h[T]}
<1>. SUFFICES ASSUME B # {} PROVE FALSE OBVIOUS
<1>1. \A T \in B : IsFiniteSet(T) BY FS_Subset
<1>2. PICK T \in B : \A U \in B : Cardinality(T) <= Cardinality(U) BY <1>1, SmallestIs
<1>3. T \in SUBSET S /\ T # {}
  <2>. QED BY <1>0, <1>2
<1>4. /\ First(T) \in T /\ T \ {First(T)} \in SUBSET S
      /\ Cardinality(T \ {First(T)}) < Cardinality(T) /\ Cardinality(T) \in Nat
  BY <1>3, FirstIs
<1>5. Cardinality(T \ {First(T)}) \in Nat BY <1>4, FS_Subset, FS_CardinalityType
<1>6. T \ {First(T)} \notin B
  <2>. HIDE DEF B
  <2>. QED BY <1>2, <1>4, <1>5
<1>7. g[T \ {First(T)}] = h[T \ {First(T)}] BY <1>4, <1>6
<1>8. /\ g[T] = f[First(T)].size + g[T \ {First(T)}]
      /\ h[T] = e[First(T)].size + h[T \ {First(T)}]
  BY <1>3, SumsStep
<1>9. f[First(T)].size = e[First(T)].size BY <1>3, <1>4
<1>. QED BY <1>2, <1>7, <1>8, <1>9

\* Any element may be taken out first.
LEMMA SumsRemove ==
    ASSUME NEW f, NEW S, IsFiniteSet(S), NEW g, Sums(g, f, SUBSET S),
           \A x \in S : f[x].size \in Nat
    PROVE  \A T \in SUBSET S : \A x \in T : g[T] = f[x].size + g[T \ {x}]
<1>. DEFINE Good(T) == \A x \in T : g[T] = f[x].size + g[T \ {x}]
            B == {T \in SUBSET S : ~Good(T)}
<1>. SUFFICES ASSUME B # {} PROVE FALSE OBVIOUS
<1>1. \A T \in B : IsFiniteSet(T) BY FS_Subset
<1>2. PICK T \in B : \A U \in B : Cardinality(T) <= Cardinality(U) BY <1>1, SmallestIs
<1>3. PICK x \in T : g[T] # f[x].size + g[T \ {x}] BY <1>2
<1>4. T \in SUBSET S /\ T # {} BY <1>2, <1>3
<1>. DEFINE p == First(T)
<1>5. p \in T /\ \A y \in T : Cardinality(T \ {y}) < Cardinality(T) /\ Cardinality(T) \in Nat
  BY <1>4, FirstIs
<1>6. g[T] = f[p].size + g[T \ {p}] BY <1>4, SumsStep
<1>. HIDE DEF p
<1>7. x # p BY <1>3, <1>6
<1>8. ASSUME NEW y \in T PROVE T \ {y} \in SUBSET S /\ Good(T \ {y})
  <2>1. T \ {y} \in SUBSET S BY <1>4
  <2>2. Cardinality(T \ {y}) \in Nat BY <2>1, FS_Subset, FS_CardinalityType
  <2>3. T \ {y} \notin B
    <3>. HIDE DEF B
    <3>. QED BY <1>2, <1>5, <2>2
  <2>. QED BY <2>1, <2>3
<1>9. g[T \ {p}] = f[x].size + g[(T \ {p}) \ {x}] BY <1>5, <1>7, <1>8
<1>10. g[T \ {x}] = f[p].size + g[(T \ {x}) \ {p}] BY <1>5, <1>7, <1>8
<1>11. (T \ {x}) \ {p} = (T \ {p}) \ {x} OBVIOUS
<1>12. (T \ {x}) \ {p} \in SUBSET S BY <1>4
<1>13. g[(T \ {x}) \ {p}] \in Nat BY <1>12, SumsNat
<1>14. f[x].size \in Nat /\ f[p].size \in Nat BY <1>4, <1>5
<1>15. ASSUME NEW a \in Nat, NEW b \in Nat, NEW c \in Nat PROVE a + (b + c) = b + (a + c)
  OBVIOUS
<1>. DEFINE r == g[(T \ {p}) \ {x}]
<1>16. r \in Nat /\ g[T \ {x}] = f[p].size + r BY <1>10, <1>11, <1>13
<1>17. g[T] = f[p].size + (f[x].size + r) BY <1>6, <1>9
<1>. HIDE DEF B, Good, r
<1>. QED BY <1>3, <1>14, <1>15, <1>16, <1>17

LEMMA SumsGrow ==
    ASSUME NEW f, NEW S, IsFiniteSet(S), NEW g, Sums(g, f, SUBSET S),
           \A x \in S : f[x].size \in Nat, NEW T \in SUBSET S
    PROVE  g[T] <= g[S]
<1>. DEFINE B == {U \in SUBSET S : T \subseteq U /\ ~(g[T] <= g[U])}
<1>0. \A U \in SUBSET S : g[U] \in Nat BY SumsNat
<1>. SUFFICES ASSUME B # {} PROVE FALSE OBVIOUS
<1>1. \A U \in B : IsFiniteSet(U) BY FS_Subset
<1>2. PICK U \in B : \A V \in B : Cardinality(U) <= Cardinality(V) BY <1>1, SmallestIs
<1>3. U \in SUBSET S /\ T \subseteq U /\ U # T BY <1>0, <1>2
<1>4. PICK x \in U : x \notin T BY <1>3
<1>5. Cardinality(U \ {x}) < Cardinality(U) /\ Cardinality(U) \in Nat BY <1>3, FirstIs
<1>6. U \ {x} \in SUBSET S /\ T \subseteq U \ {x} BY <1>3, <1>4
<1>7. Cardinality(U \ {x}) \in Nat BY <1>6, FS_Subset, FS_CardinalityType
<1>8. U \ {x} \notin B
  <2>. HIDE DEF B
  <2>. QED BY <1>2, <1>5, <1>7
<1>9. g[T] <= g[U \ {x}] BY <1>6, <1>8
<1>10. g[U] = f[x].size + g[U \ {x}] BY <1>3, SumsRemove
<1>11. f[x].size \in Nat BY <1>3
<1>12. g[U] \in Nat /\ g[T] \in Nat /\ g[U \ {x}] \in Nat BY <1>0, <1>3, <1>6
<1>13. ~(g[T] <= g[U]) BY <1>2
<1>. HIDE DEF B
<1>. QED BY <1>9, <1>10, <1>11, <1>12, <1>13

LEMMA WeightIs ==
    ASSUME NEW f, NEW S, IsFiniteSet(S), NEW g, Sums(g, f, SUBSET S), NEW T \in SUBSET S,
           \A x \in S : f[x].size \in Nat
    PROVE  Weight(f, T) = g[T]
<1>1. IsFiniteSet(T) BY FS_Subset
<1>2. PICK h : Sums(h, f, SUBSET T) /\ Weight(f, T) = h[T] BY <1>1, WeightSums
<1>. DEFINE k == [U \in SUBSET T |-> g[U]]
<1>3. ASSUME NEW U \in SUBSET T
      PROVE  k[U] = IF U = {} THEN 0 ELSE f[First(U)].size + k[U \ {First(U)}]
  <2>1. U \in SUBSET S /\ U \ {First(U)} \in SUBSET T OBVIOUS
  <2>2. k[U] = g[U] /\ k[U \ {First(U)}] = g[U \ {First(U)}] BY <2>1
  <2>. HIDE DEF k
  <2>3. CASE U = {} BY <2>2, <2>3, SumsEmpty
  <2>4. CASE U # {} BY <2>1, <2>2, <2>4, SumsStep
  <2>. QED BY <2>3, <2>4
<1>4. k = [U \in SUBSET T |-> k[U]] OBVIOUS
<1>5. k[T] = g[T] OBVIOUS
<1>. HIDE DEF k
<1>6. [U \in SUBSET T |-> k[U]]
        = [U \in SUBSET T |-> IF U = {} THEN 0 ELSE f[First(U)].size + k[U \ {First(U)}]]
  BY <1>3
<1>7. Sums(k, f, SUBSET T) BY <1>4, <1>6 DEF Sums
<1>8. h[T] = k[T] BY <1>1, <1>2, <1>7, SumsSame
<1>. QED BY <1>2, <1>5, <1>8

LEMMA WeightRemove ==
    ASSUME NEW f, NEW S, IsFiniteSet(S), \A x \in S : f[x].size \in Nat, NEW x \in S
    PROVE  Weight(f, S) = f[x].size + Weight(f, S \ {x})
<1>1. PICK g : Sums(g, f, SUBSET S) BY SumsExist
<1>2. S \in SUBSET S /\ S \ {x} \in SUBSET S OBVIOUS
<1>3. Weight(f, S) = g[S] /\ Weight(f, S \ {x}) = g[S \ {x}] BY <1>1, <1>2, WeightIs
<1>4. g[S] = f[x].size + g[S \ {x}] BY <1>1, <1>2, SumsRemove
<1>. QED BY <1>3, <1>4

LEMMA WeightFacts ==
    ASSUME NEW f, NEW S, IsFiniteSet(S), \A x \in S : f[x].size \in Nat
    PROVE  /\ Weight(f, S) \in Nat
           /\ \A T \in SUBSET S : Weight(f, T) \in Nat /\ Weight(f, T) <= Weight(f, S)
           /\ Weight(f, {}) = 0
           /\ \A x \in S : Weight(f, {x}) = f[x].size
<1>1. PICK g : Sums(g, f, SUBSET S) BY SumsExist
<1>2. \A T \in SUBSET S : Weight(f, T) = g[T] BY <1>1, WeightIs
<1>3. \A T \in SUBSET S : g[T] \in Nat /\ g[T] <= g[S] BY <1>1, SumsNat, SumsGrow
<1>4. {} \in SUBSET S OBVIOUS
<1>5. Weight(f, {}) = 0
  <2>1. g[{}] = 0 BY <1>1, SumsEmpty
  <2>. QED BY <1>2, <1>4, <2>1
<1>6. ASSUME NEW x \in S PROVE Weight(f, {x}) = f[x].size
  <2>1. {x} \in SUBSET S /\ {x} \ {x} = {} /\ IsFiniteSet({x}) BY FS_Singleton
  <2>2. Weight(f, {x}) = f[x].size + Weight(f, {x} \ {x}) BY <2>1, WeightRemove
  <2>3. f[x].size \in Nat OBVIOUS
  <2>. QED BY <1>5, <2>1, <2>2, <2>3
<1>. QED BY <1>2, <1>3, <1>5, <1>6

LEMMA WeightSame ==
    ASSUME NEW f, NEW e, NEW S, IsFiniteSet(S), \A x \in S : f[x].size = e[x].size
    PROVE  Weight(f, S) = Weight(e, S)
<1>1. PICK g : Sums(g, f, SUBSET S) /\ Weight(f, S) = g[S] BY WeightSums
<1>2. PICK h : Sums(h, e, SUBSET S) /\ Weight(e, S) = h[S] BY WeightSums
<1>. QED BY <1>1, <1>2, SumsSame

-----------------------------------------------------------------------------
\* What is given up weighs no more than a marker; what a request carries fits
\* into it, or is a single event.
Sized == \A s \in DOMAIN q :
    q[s].size \in Sizes \union {Marker} /\ (q[s].degraded => q[s].size <= Marker)
BytesFit ==
    /\ batchMax.bytes <= BatchBytes
    /\ Weight(q, Sent) <= BatchBytes \/ Cardinality(Sent) <= 1
BytesBounded == ~bounding => SizeOf(DOMAIN q) <= MaxBytes
ByteInv == Sized /\ BytesFit /\ BytesBounded

LEMMA SizeIsWeight == SizeOf(DOMAIN q) = Weight(q, DOMAIN q)
BY DEF SizeOf, Weight

LEMMA SizesAre ==
    ASSUME QueueTypeOK, NEW S \in SUBSET DOMAIN q
    PROVE  /\ IsFiniteSet(S) /\ SizeOf(S) = Weight(q, S) /\ Weight(q, S) \in Nat
           /\ \A x \in S : q[x].size \in Nat
           /\ \A T \in SUBSET S : Weight(q, T) <= Weight(q, S)
<1>1. IsFiniteSet(S) BY Finite DEF QueueTypeOK
<1>2. \A x \in S : q[x].size \in Nat BY DEF QueueTypeOK, Entry
<1>3. SizeOf(S) = Weight(q, S) BY DEF SizeOf, Weight
<1>. QED BY <1>1, <1>2, <1>3, WeightFacts

\* What a request carries keeps its size while the loop runs.
LEMMA BoundingWeighs ==
    ASSUME QueueTypeOK, Bounding
    PROVE  Sent' = Sent /\ Weight(q', Sent') = Weight(q, Sent)
<1>1. Sent' = Sent BY DEF Bounding, Sent
<1>2. \A x \in Sent : q'[x].size = q[x].size BY DEF Bounding, Sent
<1>3. IsFiniteSet(Sent) BY SentSpending
<1>4. Weight(q', Sent) = Weight(q, Sent) BY <1>2, <1>3, WeightSame
<1>. QED BY <1>1, <1>4

LEMMA NewIsSized ==
    ASSUME NEW s, NEW type \in Pushable \union Records, NEW size
    PROVE  /\ Queued(s, type, size).size = size
           /\ Queued(s, type, size).degraded = (type \in Records)
BY DEF Queued

LEMMA DropSized ==
    ASSUME QueueTypeOK, Sized, DropOldest
    PROVE  Sized'
<1>. DEFINE s == Oldest(Droppable)
<1>1. CASE DropRecordOpen
  <2>1. q' = [Without({s}) EXCEPT ![drop].dropped = @ \union {s}]
    BY <1>1 DEF DropOldest
  <2>. HIDE DEF s
  <2>2. ASSUME NEW u \in DOMAIN q'
        PROVE u \in DOMAIN q /\ q'[u].size = q[u].size /\ q'[u].degraded = q[u].degraded
    <3>1. u \in DOMAIN q \ {s} BY <2>1, WithoutIs
    <3>2. q[u] \in Entry /\ Without({s})[u] = q[u] BY <3>1, WithoutIs DEF QueueTypeOK
    <3>3. CASE u = drop
      <4>1. q'[u] = [q[u] EXCEPT !.dropped = @ \union {s}] BY <2>1, <3>1, <3>2, <3>3, WithoutIs
      <4>. QED BY <3>1, <3>2, <4>1 DEF Entry
    <3>4. CASE u # drop BY <2>1, <3>1, <3>2, <3>4
    <3>. QED BY <3>3, <3>4
  <2>. QED BY <2>2 DEF Sized
<1>2. CASE ~DropRecordOpen
  <2>. DEFINE e == [Queued(seq, "EVENTS_DROPPED", Marker) EXCEPT !.dropped = {s}]
  <2>1. q' = Appended(Without({s}), seq, e) BY <1>2 DEF DropOldest
  <2>. HIDE DEF s
  <2>2. e.size = Marker BY DEF Queued
  <2>. HIDE DEF e
  <2>3. ASSUME NEW u \in DOMAIN q' PROVE q'[u] = e \/ (u \in DOMAIN q /\ q'[u] = q[u])
    BY <2>1, WithoutIs DEF Appended
  <2>. QED BY <2>2, <2>3, QueueAssumption DEF Sized
<1>. QED BY <1>1, <1>2

LEMMA DegradeSized ==
    ASSUME QueueTypeOK, Sized, DegradeOldest
    PROVE  Sized'
<1>. DEFINE s == Oldest(Degradable)
<1>1. q' = [q EXCEPT ![s].degraded = TRUE,
                     ![s].size = IF Marker < @ THEN Marker ELSE @]
  BY DEF DegradeOldest
<1>. HIDE DEF s
<1>2. ASSUME NEW u \in DOMAIN q'
      PROVE  q'[u].size \in Sizes \union {Marker} /\ (q'[u].degraded => q'[u].size <= Marker)
  <2>1. u \in DOMAIN q /\ q[u] \in Entry BY <1>1 DEF QueueTypeOK
  <2>2. CASE u = s
    <3>1. q'[u] = [q[u] EXCEPT !.degraded = TRUE,
                               !.size = IF Marker < @ THEN Marker ELSE @]
      BY <1>1, <2>1, <2>2
    <3>2. q'[u].size = IF Marker < q[u].size THEN Marker ELSE q[u].size
      BY <2>1, <3>1 DEF Entry
    <3>3. q[u].size \in Nat BY <2>1 DEF Entry
    <3>. QED BY <2>1, <3>2, <3>3, QueueAssumption DEF Sized
  <2>3. CASE u # s BY <1>1, <2>1, <2>3 DEF Sized
  <2>. QED BY <2>2, <2>3
<1>. QED BY <1>2 DEF Sized

LEMMA CoalesceSized ==
    ASSUME QueueTypeOK, Sized, CoalesceOldestPair
    PROVE  Sized'
<1>1. PICK s, t : q' = [Without({t}) EXCEPT ![s] = Merged(q[s], q[t])]
  BY DEF CoalesceOldestPair
<1>2. Merged(q[s], q[t]).size = Marker BY DEF Merged
<1>. DEFINE e == Merged(q[s], q[t])
<1>. HIDE DEF e
<1>3. ASSUME NEW u \in DOMAIN q' PROVE q'[u] = e \/ (u \in DOMAIN q /\ q'[u] = q[u])
  BY <1>1, WithoutIs DEF e
<1>. QED BY <1>2, <1>3, QueueAssumption DEF Sized, e

LEMMA RejectSized ==
    ASSUME QueueTypeOK, Sized, NEW s, Reject(s)
    PROVE  Sized'
<1>. DEFINE f == Unclaimed(Without({s}))
            e == [RecordOf(seq, q[s]) EXCEPT !.rejected = q[s].rejected \union {s}]
<1>1. e.size = Marker BY DEF RecordOf, Queued
<1>2. ASSUME NEW u \in DOMAIN f
      PROVE  u \in DOMAIN q /\ f[u].size = q[u].size /\ f[u].degraded = q[u].degraded
  <2>1. u \in DOMAIN q \ {s} /\ Without({s})[u] = q[u] BY WithoutIs DEF Unclaimed
  <2>2. q[u] \in Entry BY <2>1 DEF QueueTypeOK
  <2>3. f[u] = [q[u] EXCEPT !.claimed = FALSE] BY <2>1, WithoutIs DEF Unclaimed
  <2>. HIDE DEF f
  <2>. QED BY <2>1, <2>2, <2>3 DEF Entry
<1>3. q' = f \/ q' = Appended(f, seq, e) BY DEF Reject
<1>. HIDE DEF f, e
<1>4. ASSUME NEW u \in DOMAIN q' PROVE q'[u] = e \/ (u \in DOMAIN f /\ q'[u] = f[u])
  BY <1>3 DEF Appended
<1>. QED BY <1>1, <1>2, <1>4, QueueAssumption DEF Sized

\* A request takes at most batchMax.bytes, or a single event.
LEMMA BatchIsLight ==
    ASSUME QueueTypeOK
    PROVE  Weight(q, Batch) <= batchMax.bytes \/ Cardinality(Batch) <= 1
<1>1. CASE Batch = {} BY <1>1, FS_EmptySet
<1>2. CASE Batch # {}
  <2>1. PICK m \in Batch : /\ Batch \subseteq Head(m) /\ Fits(m)
                           /\ Head(m) \subseteq DOMAIN q /\ IsFiniteSet(Head(m))
    BY <1>2, BatchIsHead
  <2>2. CASE Cardinality(Head(m)) = 1
    <3>1. Cardinality(Batch) <= Cardinality(Head(m)) BY <2>1, FS_Subset
    <3>. QED BY <2>2, <3>1
  <2>3. CASE SizeOf(Head(m)) <= batchMax.bytes
    <3>1. Weight(q, Batch) <= Weight(q, Head(m)) /\ SizeOf(Head(m)) = Weight(q, Head(m))
      BY <2>1, SizesAre
    <3>2. Weight(q, Batch) \in Nat /\ Weight(q, Head(m)) \in Nat
      BY <2>1, SizesAre DEF Batch
    <3>. QED BY <2>3, <3>1, <3>2 DEF QueueTypeOK
  <2>. QED BY <2>1, <2>2, <2>3 DEF Fits
<1>. QED BY <1>1, <1>2

\* A step that takes entries away and changes no size keeps the byte bounds.
LEMMA FewerBytes ==
    ASSUME QueueTypeOK, ByteInv, DOMAIN q' \subseteq DOMAIN q,
           \A u \in DOMAIN q' : /\ q'[u].claimed = q[u].claimed /\ q'[u].size = q[u].size
                                /\ q'[u].degraded = q[u].degraded,
           bounding' = bounding \/ bounding', batchMax'.bytes <= BatchBytes
    PROVE  ByteInv'
<1>1. Sized' BY DEF ByteInv, Sized
<1>2. Sent' \subseteq Sent /\ Sent \subseteq DOMAIN q /\ Sent' \subseteq DOMAIN q' BY DEF Sent
<1>3. ASSUME NEW S \in SUBSET DOMAIN q, NEW T \in SUBSET S, T \subseteq DOMAIN q'
      PROVE  Weight(q', T) <= Weight(q, S) /\ Weight(q', T) \in Nat /\ Weight(q, S) \in Nat
  <2>1. IsFiniteSet(T) /\ Weight(q, T) <= Weight(q, S) /\ Weight(q, T) \in Nat
        /\ Weight(q, S) \in Nat
    BY SizesAre
  <2>2. \A x \in T : q'[x].size = q[x].size BY <1>3
  <2>3. Weight(q', T) = Weight(q, T) BY <2>1, <2>2, WeightSame
  <2>. QED BY <2>1, <2>3
<1>4. BytesFit'
  <2>1. CASE Weight(q, Sent) <= BatchBytes
    <3>1. Weight(q', Sent') <= Weight(q, Sent) /\ Weight(q', Sent') \in Nat
          /\ Weight(q, Sent) \in Nat
      BY <1>2, <1>3
    <3>2. Weight(q', Sent') <= BatchBytes BY <2>1, <3>1, QueueAssumption
    <3>. QED BY <3>2 DEF BytesFit
  <2>2. CASE Cardinality(Sent) <= 1
    <3>1. IsFiniteSet(Sent) /\ Cardinality(Sent) \in Nat BY SentSpending
    <3>2. Cardinality(Sent') <= Cardinality(Sent) /\ Cardinality(Sent') \in Nat
      BY <1>2, <3>1, FS_Subset, FS_CardinalityType
    <3>3. Cardinality(Sent') <= 1 BY <2>2, <3>1, <3>2
    <3>. QED BY <3>3 DEF BytesFit
  <2>. QED BY <2>1, <2>2 DEF ByteInv, BytesFit
<1>5. BytesBounded'
  <2>. SUFFICES ASSUME ~bounding' PROVE (SizeOf(DOMAIN q) <= MaxBytes)' BY DEF BytesBounded
  <2>1. SizeOf(DOMAIN q) <= MaxBytes BY DEF ByteInv, BytesBounded
  <2>2. SizeOf(DOMAIN q) = Weight(q, DOMAIN q) BY SizesAre
  <2>3. /\ Weight(q', DOMAIN q') <= Weight(q, DOMAIN q)
        /\ Weight(q', DOMAIN q') \in Nat /\ Weight(q, DOMAIN q) \in Nat
    BY <1>3
  <2>4. (SizeOf(DOMAIN q) = Weight(q, DOMAIN q))' BY SizeIsWeight, PTL
  <2>. QED BY <2>1, <2>2, <2>3, <2>4, QueueAssumption
<1>. QED BY <1>1, <1>4, <1>5 DEF ByteInv

\* When the loop gives up, one marker is left beside what a request carries.
LEMMA StuckIsLight ==
    ASSUME QueueTypeOK, SentFirst, Sized, BytesFit, Degradable = {}, Mergeable = {},
           BatchBytes + Marker <= MaxBytes,
           \A z \in Sizes \union {Marker} : z + Marker <= MaxBytes
    PROVE  SizeOf(DOMAIN q) <= MaxBytes
<1>0. Marker \in Nat /\ MaxBytes \in Nat /\ BatchBytes \in Nat BY QueueAssumption
<1>1. Sent \subseteq DOMAIN q BY DEF Sent
<1>2. /\ Weight(q, Sent) \in Nat /\ IsFiniteSet(Sent)
      /\ \A x \in Sent : q[x].size \in Nat
  BY <1>1, SizesAre
<1>3. Weight(q, Sent) + Marker <= MaxBytes
  <2>1. CASE Weight(q, Sent) <= BatchBytes BY <1>0, <1>2, <2>1
  <2>2. CASE Cardinality(Sent) <= 1
    <3>1. CASE Sent = {}
      <4>1. Weight(q, Sent) = 0 BY <1>2, <3>1, WeightFacts
      <4>. QED BY <1>0, <4>1
    <3>2. CASE Sent # {}
      <4>1. PICK x \in Sent : TRUE BY <3>2
      <4>2. Sent = {x}
        <5>. SUFFICES ASSUME NEW y \in Sent, y # x PROVE FALSE BY <4>1
        <5>1. Cardinality(Sent \ {x}) = Cardinality(Sent) - 1 BY <1>2, <4>1, FS_RemoveElement
        <5>2. Cardinality((Sent \ {x}) \ {y}) = Cardinality(Sent \ {x}) - 1
          BY <1>2, FS_RemoveElement
        <5>3. Cardinality(Sent) \in Nat /\ Cardinality((Sent \ {x}) \ {y}) \in Nat
          BY <1>2, FS_RemoveElement, FS_CardinalityType
        <5>. QED BY <2>2, <5>1, <5>2, <5>3
      <4>3. Weight(q, {x}) = q[x].size BY <1>2, <4>1, WeightFacts
      <4>4. q[x].size \in Sizes \union {Marker} BY <1>1, <4>1 DEF Sized
      <4>. QED BY <4>2, <4>3, <4>4
    <3>. QED BY <3>1, <3>2
  <2>. QED BY <2>1, <2>2 DEF BytesFit
<1>4. SizeOf(DOMAIN q) = Weight(q, DOMAIN q) /\ IsFiniteSet(DOMAIN q)
      /\ \A x \in DOMAIN q : q[x].size \in Nat
  BY SizesAre
<1>5. CASE DOMAIN q = Sent BY <1>0, <1>2, <1>3, <1>4, <1>5
<1>6. ASSUME NEW s \in DOMAIN q \ Sent, DOMAIN q = Sent \union {s}
      PROVE  SizeOf(DOMAIN q) <= MaxBytes
  <2>1. (DOMAIN q) \ {s} = Sent BY <1>6
  <2>2. Weight(q, DOMAIN q) = q[s].size + Weight(q, Sent) BY <1>4, <2>1, WeightRemove
  <2>3. q[s].degraded BY DEF Degradable, Sent
  <2>4. q[s].size <= Marker /\ q[s].size \in Nat BY <1>4, <2>3 DEF Sized
  <2>. QED BY <1>0, <1>2, <1>3, <1>4, <2>2, <2>4
<1>. QED BY <1>5, <1>6, StuckIsOne

LEMMA ByteStep ==
    ASSUME QInv, CountInv, ByteInv, [QueueNext]_queueVars,
           BatchBytes + Marker <= MaxBytes,
           \A z \in Sizes \union {Marker} : z + Marker <= MaxBytes
    PROVE  ByteInv'
<1>1. QueueTypeOK /\ OwnAccount BY DEF QInv
<1>2. ASSUME Bounding, Sized', bounding', batchMax' = batchMax PROVE ByteInv'
  <2>1. Sent' = Sent /\ Weight(q', Sent') = Weight(q, Sent) BY <1>1, <1>2, BoundingWeighs
  <2>2. BytesFit' BY <1>2, <2>1 DEF ByteInv, BytesFit
  <2>. QED BY <1>2, <2>2 DEF ByteInv, BytesBounded
<1>3. ASSUME NEW type \in Pushable, NEW size \in Sizes, Push(type, size) PROVE ByteInv'
  <2>1. Bounding BY <1>1, <1>3, PushStep
  <2>2. bounding' = TRUE /\ batchMax' = batchMax
        /\ q' = Appended(q, seq, Queued(seq, type, size))
    BY <1>3 DEF Push
  <2>. DEFINE e == Queued(seq, type, size)
  <2>3. e.size \in Sizes /\ ~e.degraded BY DEF Queued, Pushable, Records
  <2>. HIDE DEF e
  <2>4. ASSUME NEW u \in DOMAIN q' PROVE q'[u] = e \/ (u \in DOMAIN q /\ q'[u] = q[u])
    BY <2>2 DEF Appended, e
  <2>5. Sized' BY <2>3, <2>4 DEF ByteInv, Sized
  <2>. QED BY <1>2, <2>1, <2>2, <2>5
<1>4. CASE DropOldest \/ DegradeOldest \/ CoalesceOldestPair
  <2>1. Bounding BY <1>1, <1>4, DropStep, DegradeStep, CoalesceStep
  <2>2. Sized' BY <1>1, <1>4, DropSized, DegradeSized, CoalesceSized DEF ByteInv
  <2>3. bounding /\ bounding' = bounding /\ batchMax' = batchMax
    BY <1>4 DEF DropOldest, DegradeOldest, CoalesceOldestPair
  <2>. QED BY <1>2, <2>1, <2>2, <2>3
<1>5. CASE Bounded
  <2>1. UNCHANGED <<q, batchMax>> BY <1>5 DEF Bounded
  <2>2. Sent' = Sent /\ Sized' BY <2>1 DEF Sent, ByteInv, Sized
  <2>3. BytesFit' BY <2>1, <2>2 DEF ByteInv, BytesFit
  <2>4. SizeOf(DOMAIN q) <= MaxBytes
    <3>1. CASE ~Over
      <4>1. SizeOf(DOMAIN q) \in Nat BY <1>1, SizesAre
      <4>. QED BY <3>1, <4>1, QueueAssumption DEF Over
    <3>2. CASE Degradable = {} /\ Mergeable = {}
      BY <1>1, <3>2, StuckIsLight DEF CountInv, ByteInv
    <3>. QED BY <1>5, <3>1, <3>2 DEF Bounded
  <2>5. (SizeOf(DOMAIN q))' = SizeOf(DOMAIN q)
    <3>1. (SizeOf(DOMAIN q) = Weight(q, DOMAIN q))' BY SizeIsWeight, PTL
    <3>. QED BY <2>1, <3>1, SizeIsWeight
  <2>. QED BY <2>2, <2>3, <2>4, <2>5 DEF ByteInv, BytesBounded
<1>6. CASE SendBatch
  <2>1. /\ q' = [s \in DOMAIN q |-> [q[s] EXCEPT !.claimed = s \in Batch]]
        /\ batchMax' = batchMax /\ bounding' = bounding
    BY <1>6 DEF SendBatch
  <2>2. DOMAIN q' = DOMAIN q /\ Batch \subseteq DOMAIN q BY <2>1 DEF Batch
  <2>3. ASSUME NEW s \in DOMAIN q
        PROVE  /\ q'[s].claimed = (s \in Batch) /\ q'[s].size = q[s].size
               /\ q'[s].degraded = q[s].degraded
    <3>1. q[s] \in Entry BY <1>1 DEF QueueTypeOK
    <3>2. q'[s] = [q[s] EXCEPT !.claimed = s \in Batch] BY <2>1
    <3>3. (s \in Batch) \in BOOLEAN OBVIOUS
    <3>. QED BY <3>1, <3>2, <3>3 DEF Entry
  <2>4. Sized' BY <2>2, <2>3 DEF ByteInv, Sized
  <2>5. Sent' = Batch BY <2>2, <2>3 DEF Sent
  <2>6. Weight(q', Sent') = Weight(q, Batch)
    <3>1. IsFiniteSet(Batch) BY <1>1, <2>2, SizesAre
    <3>2. \A x \in Batch : q'[x].size = q[x].size BY <2>2, <2>3
    <3>. QED BY <2>5, <3>1, <3>2, WeightSame
  <2>7. BytesFit'
    <3>1. Weight(q, Batch) <= batchMax.bytes \/ Cardinality(Batch) <= 1 BY <1>1, BatchIsLight
    <3>2. Weight(q, Batch) \in Nat BY <1>1, <2>2, SizesAre
    <3>3. batchMax.bytes \in Nat /\ batchMax.bytes <= BatchBytes
      BY <1>1 DEF QueueTypeOK, ByteInv, BytesFit
    <3>4. Weight(q, Batch) <= BatchBytes \/ Cardinality(Batch) <= 1
      BY <3>1, <3>2, <3>3, QueueAssumption
    <3>5. Cardinality(Sent)' = Cardinality(Batch) BY <2>5
    <3>. QED BY <2>1, <2>6, <3>3, <3>4, <3>5 DEF BytesFit
  <2>8. (SizeOf(DOMAIN q))' = SizeOf(DOMAIN q)
    <3>1. (SizeOf(DOMAIN q) = Weight(q, DOMAIN q))' BY SizeIsWeight, PTL
    <3>2. IsFiniteSet(DOMAIN q) BY <1>1, SizesAre
    <3>3. Weight(q', DOMAIN q) = Weight(q, DOMAIN q) BY <2>3, <3>2, WeightSame
    <3>. QED BY <2>2, <3>1, <3>3, SizeIsWeight
  <2>9. BytesBounded' BY <2>1, <2>8 DEF ByteInv, BytesBounded
  <2>. QED BY <2>4, <2>7, <2>9 DEF ByteInv
<1>7. CASE Accepted
  <2>1. q' = Without(DOMAIN flight) /\ bounding' = bounding /\ batchMax' = batchMax
    BY <1>7 DEF Accepted
  <2>2. /\ DOMAIN q' \subseteq DOMAIN q
        /\ \A u \in DOMAIN q' : q'[u] = q[u]
    BY <2>1, WithoutIs
  <2>3. batchMax'.bytes <= BatchBytes BY <2>1 DEF ByteInv, BytesFit
  <2>. QED BY <1>1, <2>1, <2>2, <2>3, FewerBytes
<1>8. CASE Rest \/ LoseLease \/ AnswerLost \/ Failed \/ UNCHANGED queueVars
           \/ (RequestRefused /\ CanReduce)
  <2>1. q' = q /\ bounding' = bounding
    BY <1>8 DEF Rest, LoseLease, AnswerLost, Failed, RequestRefused, queueVars, queue
  <2>2. batchMax'.bytes <= BatchBytes
    <3>1. CASE batchMax' = batchMax BY <3>1 DEF ByteInv, BytesFit
    <3>2. CASE batchMax'.bytes = Halved(batchMax.bytes)
      <4>1. ASSUME NEW n \in Nat \ {0} PROVE Halved(n) <= n /\ Halved(n) \in Nat BY DEF Halved
      <4>2. batchMax.bytes \in Nat \ {0} /\ batchMax.bytes <= BatchBytes
        BY <1>1 DEF QueueTypeOK, ByteInv, BytesFit
      <4>3. Halved(batchMax.bytes) <= batchMax.bytes /\ Halved(batchMax.bytes) \in Nat
        BY <4>1, <4>2
      <4>. QED BY <3>2, <4>2, <4>3, QueueAssumption
    <3>. QED BY <1>8, <3>1, <3>2
         DEF Rest, LoseLease, AnswerLost, Failed, RequestRefused, queueVars
  <2>. QED BY <1>1, <2>1, <2>2, FewerBytes
<1>9. ASSUME NEW s, Reject(s), flight' = Nothing, worker' = "looping",
             UNCHANGED <<held, pushed, api>>
      PROVE  ByteInv'
  <2>1. bounding' /\ \A u \in DOMAIN q' : ~q'[u].claimed BY <1>9, RejectKeeps
  <2>2. Sent' = {} BY <2>1 DEF Sent
  <2>3. Cardinality(Sent)' = 0 BY <2>2, FS_EmptySet
  <2>4. batchMax' = batchMax BY <1>9 DEF Reject
  <2>5. BytesFit' BY <2>3, <2>4 DEF ByteInv, BytesFit
  <2>6. Sized' BY <1>1, <1>9, RejectSized DEF ByteInv
  <2>. QED BY <2>1, <2>5, <2>6 DEF ByteInv, BytesBounded
<1>10. ASSUME NEW s \in DOMAIN flight, EventRefused(s) PROVE ByteInv'
  BY <1>9, <1>10 DEF EventRefused
<1>11. CASE RequestRefused /\ ~CanReduce
  <2>1. Reject(Oldest(DOMAIN flight)) /\ flight' = Nothing /\ worker' = "looping"
        /\ UNCHANGED <<held, pushed, api>>
    BY <1>11 DEF RequestRefused
  <2>. QED BY <2>1, <1>9
<1>. QED BY <1>3, <1>4, <1>5, <1>6, <1>7, <1>8, <1>10, <1>11 DEF QueueNext, EnforceBound, Answer

\* What the queue holds, and what it makes the API store, stays bounded: as long
\* as a request and a marker fit into the queue, and so do an event and a marker,
\* as the limits of session-event-limits.ts do.
THEOREM QueueStaysBounded ==
    ASSUME BatchEvents < MaxEvents, BatchBytes + Marker <= MaxBytes,
           \A z \in Sizes \union {Marker} : z + Marker <= MaxBytes
    PROVE  QueueSpec => []StaysBounded
<1>1. QueueInit => CountInv /\ ByteInv
  <2>. SUFFICES ASSUME QueueInit PROVE CountInv /\ ByteInv OBVIOUS
  <2>1. DOMAIN q = {} /\ batchMax = [events |-> BatchEvents, bytes |-> BatchBytes]
    BY DEF QueueInit, Nothing
  <2>2. Sent = {} BY <2>1 DEF Sent
  <2>3. CountInv BY <2>1, <2>2, FS_EmptySet, QueueAssumption
       DEF CountInv, SentFirst, BatchFits, EventsBounded
  <2>4. Sized BY <2>1 DEF Sized
  <2>5. BytesFit BY <2>1, <2>2, FS_EmptySet, QueueAssumption DEF BytesFit
  <2>6. IsFiniteSet({}) /\ \A x \in {} : q[x].size \in Nat BY FS_EmptySet
  <2>7. Weight(q, {}) = 0 BY <2>6, WeightFacts
  <2>8. BytesBounded BY <2>1, <2>7, SizeIsWeight, QueueAssumption DEF BytesBounded
  <2>. QED BY <2>3, <2>4, <2>5, <2>8 DEF ByteInv
<1>2. QInv /\ CountInv /\ ByteInv /\ [QueueNext]_queueVars => CountInv' /\ ByteInv'
  BY CountStep, ByteStep
<1>3. QInv /\ CountInv /\ ByteInv /\ RecordsAreFew => StaysBounded
  <2>. SUFFICES ASSUME QInv, CountInv, ByteInv, RecordsAreFew PROVE StaysBounded OBVIOUS
  <2>1. QueueTypeOK BY DEF QInv
  <2>2. Cardinality(DOMAIN q) \in Nat /\ SizeOf(DOMAIN q) \in Nat BY <2>1, Spending, SizesAre
  <2>3. BoundHolds
    BY <2>2, QueueAssumption
    DEF BoundHolds, Over, CountInv, EventsBounded, ByteInv, BytesBounded
  <2>. QED BY <2>1, <2>3 DEF StaysBounded
<1>. QED BY <1>1, <1>2, <1>3, QueueInvariant, RecordsStayFew, PTL DEF QueueSpec
=============================================================================
