------------------------ MODULE TeamRunOutcomeProofs ------------------------
(***************************************************************************)
(* Theorems about what becomes of a Team Run: that its record is valid and *)
(* its outcome final and explained, that no active run is abandoned, that  *)
(* agents work in order and are prompted only while nobody wants the run   *)
(* to stop, and that the service implements TeamRunLifecycle; and, where   *)
(* it has no deadlines or is not shut down, that no turn is left open, no  *)
(* agent works in an archived workspace and no ended record is rewritten.  *)
(*                                                                         *)
(* They rest on one more inductive invariant, ProgressInv: for every run,  *)
(* where its execution is agrees with what its record and its agents show, *)
(* although other handlers change the record at any of its awaits.  Two    *)
(* facts carry the proof.  An interruption by another handler stops or     *)
(* ends the active step and touches nothing else, so whatever the          *)
(* execution has established of its step survives it (InterruptFits).  And *)
(* the execution updates the record only where it has checked, in the same *)
(* mutation, that no stop is on record, so no cancellation is on its way   *)
(* to an agent when the active step changes (NoStopOnItsWay).              *)
(***************************************************************************)
EXTENDS TeamRunsProofs

USE NumStepsAssumption

-----------------------------------------------------------------------------
(* The inductive invariant *)

(* The record of q, its agents, its execution and its stops belong together. *)
Fits(q) ==
    /\ InOrder(run[q]) /\ AgentsFit(run[q], agent[q])
    /\ LoopFits(run[q], agent[q], execPc[q], execStep[q], execReason[q])
    /\ \A k \in StopKinds : StopFits(run[q], agent[q], stop[<<k, q>>])
    /\ mode = "up" /\ execPc[q] = "off" => ~Active(run[q])

(* initialize runs before any request is admitted.                           *)
Recovering ==
    mode = "recovering" =>
        ~accepting /\ \A q \in Requests : startPc[q] = "idle" /\ execPc[q] = "off"

ProgressInv == (\A q \in Requests : Fits(q)) /\ Recovering

-----------------------------------------------------------------------------
(* Steps that concern one run *)

(* Nothing of p changes that Fits(p) speaks of.                              *)
Apart(p) ==
    /\ UNCHANGED <<run[p], agent[p], execPc[p], execStep[p], execReason[p]>>
    /\ \A k \in StopKinds : stop'[<<k, p>>] = stop[<<k, p>>]

StepLawful(q) ==
    run'[q] = run[q] \/ (run[q].status # "absent" /\ Lawful(run[q], run'[q]))

(* At most one record changes, and it changes as the tables allow.           *)
RunsLawful ==
    \/ \A p \in Requests : run'[p] = run[p]
    \/ \E q \in Requests : /\ StepLawful(q)
                           /\ \A p \in Requests \ {q} : run'[p] = run[p]

LEMMA ApartFits ==
    ASSUME NEW p \in Requests, Fits(p), Apart(p), mode' = mode
    PROVE  Fits(p)'
  BY DEF Fits, Apart

(* A step about q alone keeps the invariant if it keeps q's part of it.      *)
LEMMA OneRun ==
    ASSUME ProgressInv, NEW q \in Requests, \A p \in Requests \ {q} : Apart(p),
           mode' = mode, Recovering', Fits(q)', StepLawful(q)
    PROVE  ProgressInv' /\ RunsLawful
<1>1. \A p \in Requests \ {q} : Fits(p)'
  BY ApartFits DEF ProgressInv
<1>2. \A p \in Requests \ {q} : run'[p] = run[p]
  BY DEF Apart
<1> QED BY <1>1, <1>2 DEF ProgressInv, RunsLawful

(* Only an admission or an execution could disturb a recovery.               *)
LEMMA StillRecovering ==
    ASSUME ProgressInv, UNCHANGED <<mode, accepting, startPc, execPc>>
    PROVE  Recovering'
  BY DEF ProgressInv, Recovering

(* What the invariants say of one run, at hand.                              *)
LEMMA AtHand ==
    ASSUME IndInv, ProgressInv, NEW q \in Requests
    PROVE  /\ TypeOK /\ run[q] \in Records /\ Fits(q)
           /\ execStep[q] \in Steps /\ execPc[q] \in ExecPcs
           /\ execReason[q] \in ReasonOrNone
           /\ execPc[q] # "off" => run[q].status # "absent" /\ mode # "recovering"
<1>1. execPc[q] # "off" => run[q].status # "absent"
  BY BusyRunExists DEF HandlersIdle
<1>2. execPc[q] # "off" => mode # "recovering"
  BY DEF ProgressInv, Recovering
<1> QED BY <1>1, <1>2 DEF IndInv, ProgressInv, TypeOK

-----------------------------------------------------------------------------
(* Handlers that interrupt a run: stopActiveRun, cancelRun, the deadline,    *)
(* shutdown and recovery                                                     *)

(* An update with a reason on record is never refused for the deadline.      *)
LEMMA NeverRejected ==
    ASSUME TypeOK, NEW q \in Requests, NEW s, s # run[q] => s.term # "none", UpdateRun(q, s)
    PROVE  run'[q] = s /\ \A p \in Requests \ {q} : run'[p] = run[p]
  BY DEF TypeOK, UpdateRun, Rejected

(* The invariant survives an interruption of q.                              *)
LEMMA InterruptKeeps ==
    ASSUME IndInv, ProgressInv, NEW q \in Requests, NEW s \in Records,
           UNCHANGED <<agent, mode, accepting, startPc, execPc, execStep, execReason>>,
           run'[q] = s, \A p \in Requests \ {q} : run'[p] = run[p],
           s = run[q] \/ (run[q].status # "absent" /\ Lawful(run[q], s) /\ Interrupts(run[q], s)),
           \A j \in Steps : s.steps[j] = "stop_failed" =>
               run[q].steps[j] = "stop_failed" \/ agent[q][j] \notin {"none", "idle"},
           \A k \in StopKinds : \/ stop'[<<k, q>>] = stop[<<k, q>>]
                                \/ StopFits(s, agent[q], stop'[<<k, q>>]),
           \A p \in Requests \ {q}, k \in StopKinds : stop'[<<k, p>>] = stop[<<k, p>>]
    PROVE  ProgressInv' /\ RunsLawful
<1>1. /\ run[q] \in Records /\ Fits(q) /\ execStep[q] \in Steps
  BY AtHand
<1>2. Recovering'
  BY StillRecovering
<1>3. \A p \in Requests \ {q} : Apart(p)
  BY DEF Apart
<1>4. CASE s = run[q]
  <2>1. Fits(q)'
    BY <1>1, <1>4 DEF Fits
  <2>2. StepLawful(q)
    BY <1>4 DEF StepLawful
  <2> QED BY <1>2, <1>3, <2>1, <2>2, OneRun
<1>5. CASE run[q].status # "absent" /\ Lawful(run[q], s) /\ Interrupts(run[q], s)
  <2>1. /\ AgentsFit(s, agent[q])
        /\ LoopFits(s, agent[q], execPc[q], execStep[q], execReason[q])
    BY <1>1, <1>5, InterruptFits DEF Fits
  <2>2. \A k \in StopKinds : StopFits(s, agent[q], stop'[<<k, q>>])
    BY <1>1, <1>5, InterruptStops DEF Fits
  <2>3. InOrder(s) /\ (Active(s) => Active(run[q]))
    BY <1>5 DEF Lawful, Interrupts
  <2>4. Fits(q)'
    BY <1>1, <2>1, <2>2, <2>3 DEF Fits
  <2>5. StepLawful(q)
    BY <1>5 DEF StepLawful
  <2> QED BY <1>2, <1>3, <2>4, <2>5, OneRun
<1> QED BY <1>4, <1>5

(* A location of stopActiveRun that has no cancellation on its way.          *)
LEMMA StopFitsElsewhere ==
    ASSUME NEW r, NEW a, NEW pc, pc \notin {"cancel_agent", "refused"}
    PROVE  StopFits(r, a, pc)
  BY DEF StopFits

(* finishTermination, whoever calls it, interrupts.                          *)
LEMMA FinishKeeps ==
    ASSUME IndInv, ProgressInv, NEW q \in Requests, run[q].status # "absent",
           NEW reason \in Reasons, UpdateRun(q, FinishTermination(run[q], reason)),
           UNCHANGED <<agent, mode, accepting, startPc, execPc, execStep, execReason, stop>>
    PROVE  ProgressInv' /\ RunsLawful
<1> DEFINE s == FinishTermination(run[q], reason)
<1>1. TypeOK /\ run[q] \in Records /\ Fits(q)
  BY AtHand
<1>2. /\ Lawful(run[q], s) /\ Interrupts(run[q], s)
      /\ s # run[q] => s.term # "none"
      /\ ~Active(s)
  BY <1>1, FinishLawful DEF Fits
<1>3. s \in Records /\ ~HasActiveStep(s)
  BY <1>2 DEF Lawful, InOrder, ValidRun, Active, Terminal, Records, HasActiveStep
<1> HIDE DEF s
<1>4. run'[q] = s /\ \A p \in Requests \ {q} : run'[p] = run[p]
  BY <1>1, <1>2, NeverRejected DEF s
<1>5. \A j \in Steps : s.steps[j] = "stop_failed" => FALSE
  BY <1>3 DEF HasActiveStep, IsActiveStep, ActiveStepStatuses
<1> QED BY <1>2, <1>3, <1>4, <1>5, InterruptKeeps

(* A turn that settles contradicts nothing that is known of its step.        *)
LEMMA SettledFits ==
    ASSUME NEW r \in Records, NEW a, NEW b, NEW i \in Steps,
           \A j \in Steps : b[j] = a[j] \/ (a[j] = "streaming" /\ b[j] \in SettledTurns)
    PROVE  /\ AgentsFit(r, a) => AgentsFit(r, b)
           /\ \A pc, why : LoopFits(r, a, pc, i, why) => LoopFits(r, b, pc, i, why)
           /\ \A pc : StopFits(r, a, pc) => StopFits(r, b, pc)
<1>1. \A j \in Steps : /\ a[j] \in {"none", "idle", "completed"} => b[j] = a[j]
                       /\ b[j] \in {"none", "idle"} => b[j] = a[j]
  BY DEF SettledTurns
<1>2. AgentsFit(r, a) => AgentsFit(r, b)
  BY <1>1 DEF AgentsFit
<1>3. \A pc, why : LoopFits(r, a, pc, i, why) => LoopFits(r, b, pc, i, why)
  BY <1>1 DEF LoopFits
<1>4. \A pc : StopFits(r, a, pc) => StopFits(r, b, pc)
  BY <1>1 DEF StopFits
<1> QED BY <1>2, <1>3, <1>4

LEMMA SettledKeeps ==
    ASSUME IndInv, ProgressInv, NEW q \in Requests,
           UNCHANGED <<run, mode, accepting, startPc, execPc, execStep, execReason>>,
           \A j \in Steps : \/ agent'[q][j] = agent[q][j]
                            \/ agent[q][j] = "streaming" /\ agent'[q][j] \in SettledTurns,
           \A p \in Requests \ {q} : agent'[p] = agent[p],
           \A k \in StopKinds : \/ stop'[<<k, q>>] = stop[<<k, q>>]
                                \/ stop'[<<k, q>>] \notin {"cancel_agent", "refused"},
           \A p \in Requests \ {q}, k \in StopKinds : stop'[<<k, p>>] = stop[<<k, p>>]
    PROVE  ProgressInv' /\ RunsLawful
<1>1. run[q] \in Records /\ Fits(q) /\ execStep[q] \in Steps
  BY AtHand
<1>2. /\ AgentsFit(run[q], agent'[q])
      /\ LoopFits(run[q], agent'[q], execPc[q], execStep[q], execReason[q])
      /\ \A k \in StopKinds : StopFits(run[q], agent'[q], stop[<<k, q>>])
  BY <1>1, SettledFits DEF Fits
<1>3. \A k \in StopKinds : StopFits(run[q], agent'[q], stop'[<<k, q>>])
  BY <1>2, StopFitsElsewhere
<1>4. Fits(q)'
  BY <1>1, <1>2, <1>3 DEF Fits
<1>5. \A p \in Requests \ {q} : Apart(p)
  BY DEF Apart
<1> QED BY <1>4, <1>5, StillRecovering, OneRun DEF StepLawful

(* What stopActiveRun returns is no cancellation on its way.                 *)
LEMMA ResultElsewhere == \A r : ResultOf(r) \notin {"cancel_agent", "refused"}
  BY DEF ResultOf

(* stopActiveRun, whoever calls it.                                          *)
LEMMA StopKeeps ==
    ASSUME IndInv, ProgressInv, NEW q \in Requests, NEW k \in StopKinds, StopSteps(k, q)
    PROVE  ProgressInv' /\ RunsLawful
<1> DEFINE r == run[q]
<1>1. TypeOK /\ r \in Records /\ Fits(q) /\ execStep[q] \in Steps
  BY AtHand
<1>2. r.status # "absent"
  <2>1. stop[<<k, q>>] # "idle"
    BY DEF StopSteps, StopUpdate, StopCancelSettled, StopCancelRefused, StopRecordRefusal,
       StopWait
  <2> QED BY <2>1, BusyRunExists DEF HandlersIdle
<1>3. InOrder(r) /\ StopFits(r, agent[q], stop[<<k, q>>])
  BY <1>1 DEF Fits
<1>4. CASE StopUpdate(k, q)
  <2> DEFINE s == Stop(run[q], OrCancel(RequestedReason(q)))
             pc == IF ShouldCancel(s) THEN "cancel_agent" ELSE ResultOf(s)
  <2>1. OrCancel(RequestedReason(q)) \in Reasons
    BY <1>1, ReasonTypes DEF Reasons
  <2>2. /\ Lawful(r, s) /\ Interrupts(r, s)
        /\ s # r => s.term # "none"
        /\ Active(s) => s.term # "none"
        /\ ShouldCancel(s) => \A j \in Steps : IsActiveStep(s, j) => s.agents[j]
        /\ \A j \in Steps : s.steps[j] = "stop_failed" => r.steps[j] = "stop_failed"
    BY <1>1, <1>2, <1>3, <2>1, StopLawful
  <2>3. UpdateRun(q, s) /\ stop' = [stop EXCEPT ![<<k, q>>] = pc]
    BY <1>4, Zenon DEF StopUpdate
  <2>4. UNCHANGED <<agent, mode, accepting, startPc, execPc, execStep, execReason>>
    BY <1>4 DEF StopUpdate, memory, exec
  <2> HIDE DEF s
  <2>5. run'[q] = s /\ \A p \in Requests \ {q} : run'[p] = run[p]
    BY <1>1, <2>2, <2>3, NeverRejected
  <2>6. s \in Records /\ StopFits(s, agent[q], pc)
    <3>1. CASE ShouldCancel(s)
      BY <2>2, <3>1 DEF StopFits, ShouldCancel, Lawful
    <3>2. CASE ~ShouldCancel(s)
      BY <2>2, <3>2, ResultElsewhere, StopFitsElsewhere DEF Lawful
    <3> QED BY <3>1, <3>2
  <2> HIDE DEF pc, r
  <2>7. stop'[<<k, q>>] = pc /\ \A x \in StopKinds \X Requests : x # <<k, q>> => stop'[x] = stop[x]
    BY <1>1, <2>3 DEF TypeOK
  <2> QED BY <1>2, <2>2, <2>4, <2>5, <2>6, <2>7, InterruptKeeps DEF r
<1>5. CASE StopRecordRefusal(k, q)
  <2> DEFINE s == StopRefused(run[q])
  <2>1. /\ Lawful(r, s) /\ Interrupts(r, s)
        /\ s # r => s.term # "none"
        /\ \A j \in Steps : s.steps[j] = "stop_failed" =>
               r.steps[j] = "stop_failed" \/ IsActiveStep(r, j)
    BY <1>1, <1>2, <1>3, RefusedLawful
  <2>2. /\ stop[<<k, q>>] = "refused" /\ UpdateRun(q, s)
        /\ stop' = [stop EXCEPT ![<<k, q>>] = ResultOf(s)]
    BY <1>5, Zenon DEF StopRecordRefusal
  <2>3. UNCHANGED <<agent, mode, accepting, startPc, execPc, execStep, execReason>>
    BY <1>5 DEF StopRecordRefusal, memory, exec
  <2> HIDE DEF s
  <2>4. run'[q] = s /\ \A p \in Requests \ {q} : run'[p] = run[p]
    BY <1>1, <2>1, <2>2, NeverRejected
  <2>5. \A j \in Steps : s.steps[j] = "stop_failed" =>
            r.steps[j] = "stop_failed" \/ agent[q][j] \notin {"none", "idle"}
    BY <1>3, <2>1, <2>2 DEF StopFits
  <2>6. s \in Records /\ StopFits(s, agent[q], ResultOf(s))
    BY <2>1, ResultElsewhere, StopFitsElsewhere DEF Lawful
  <2> HIDE DEF r
  <2>7. /\ stop'[<<k, q>>] = ResultOf(s)
        /\ \A x \in StopKinds \X Requests : x # <<k, q>> => stop'[x] = stop[x]
    BY <1>1, <2>2 DEF TypeOK
  <2> QED BY <1>2, <2>1, <2>3, <2>4, <2>5, <2>6, <2>7, InterruptKeeps DEF r
<1>6. CASE StopCancelRefused(k, q)
  <2>1. /\ UNCHANGED <<run, agent, mode, accepting, startPc, execPc, execStep, execReason>>
        /\ stop[<<k, q>>] = "cancel_agent" /\ stop' = [stop EXCEPT ![<<k, q>>] = "refused"]
    BY <1>6 DEF StopCancelRefused, world, memory, exec
  <2>2. PICK j \in LastAgent(q) : agent[q][j] = "streaming"
    BY <1>6 DEF StopCancelRefused
  <2>3. ASSUME NEW i \in Steps, IsActiveStep(r, i) PROVE agent[q][i] = "streaming"
    <3>1. j \in Steps /\ r.agents[j] /\ \A n \in Steps : n > j => ~r.agents[n]
      BY <2>2 DEF LastAgent
    <3>2. r.agents[i] /\ ActiveForm(r, i)
      BY <1>1, <1>3, <2>1, <2>3, OrderToForm DEF StopFits
    <3>3. i = j
      BY <3>1, <3>2 DEF ActiveForm, Steps
    <3> QED BY <2>2, <3>3
  <2>4. StopFits(r, agent[q], "refused")
    BY <1>3, <2>1, <2>3 DEF StopFits
  <2> HIDE DEF r
  <2>5. /\ stop'[<<k, q>>] = "refused"
        /\ \A x \in StopKinds \X Requests : x # <<k, q>> => stop'[x] = stop[x]
    BY <1>1, <2>1 DEF TypeOK
  <2> QED BY <1>1, <2>1, <2>4, <2>5, InterruptKeeps DEF r
<1>7. CASE StopCancelSettled(k, q)
  <2>1. /\ UNCHANGED <<run, mode, accepting, startPc, execPc, execStep, execReason>>
        /\ stop' = [stop EXCEPT ![<<k, q>>] = AfterCancel(k, q)]
    BY <1>7 DEF StopCancelSettled, memory, exec
  <2>2. AfterCancel(k, q) \notin {"cancel_agent", "refused"}
    BY ResultElsewhere DEF AfterCancel
  <2>3. /\ \A j \in Steps : \/ agent'[q][j] = agent[q][j]
                            \/ agent[q][j] = "streaming" /\ agent'[q][j] \in SettledTurns
        /\ \A p \in Requests \ {q} : agent'[p] = agent[p]
    BY <1>1, <1>7 DEF StopCancelSettled, TypeOK, SettledTurns
  <2>4. /\ stop'[<<k, q>>] \notin {"cancel_agent", "refused"}
        /\ \A x \in StopKinds \X Requests : x # <<k, q>> => stop'[x] = stop[x]
    BY <1>1, <2>1, <2>2 DEF TypeOK
  <2> QED BY <2>1, <2>3, <2>4, SettledKeeps
<1>8. CASE StopWait(k, q)
  <2>1. /\ UNCHANGED <<run, agent, mode, accepting, startPc, execPc, execStep, execReason>>
        /\ stop' = [stop EXCEPT ![<<k, q>>] = ResultOf(run[q])]
    BY <1>8 DEF StopWait, world, memory, exec
  <2>2. /\ stop'[<<k, q>>] \notin {"cancel_agent", "refused"}
        /\ \A x \in StopKinds \X Requests : x # <<k, q>> => stop'[x] = stop[x]
    BY <1>1, <2>1, ResultElsewhere DEF TypeOK
  <2> QED BY <2>1, <2>2, SettledKeeps
<1> QED BY <1>4, <1>5, <1>6, <1>7, <1>8 DEF StopSteps

(* A step that neither runs, executes nor cancels anything.                  *)
LEMMA QuietKeeps ==
    ASSUME ProgressInv, UNCHANGED <<run, agent, mode, execPc, execStep, execReason>>,
           \A q \in Requests, k \in StopKinds :
               \/ stop'[<<k, q>>] = stop[<<k, q>>]
               \/ stop'[<<k, q>>] \notin {"cancel_agent", "refused"},
           Recovering'
    PROVE  ProgressInv' /\ RunsLawful
<1>1. ASSUME NEW q \in Requests PROVE Fits(q)'
  <2>1. Fits(q)
    BY DEF ProgressInv
  <2>2. \A k \in StopKinds : StopFits(run[q], agent[q], stop'[<<k, q>>])
    BY <2>1, StopFitsElsewhere DEF Fits
  <2> QED BY <2>1, <2>2 DEF Fits
<1> QED BY <1>1 DEF ProgressInv, RunsLawful

(* cancelRun.                                                                *)
LEMMA CancelKeeps ==
    ASSUME IndInv, ProgressInv, NEW q \in Requests, CancelCall(q) \/ CancelSteps(q)
    PROVE  ProgressInv' /\ RunsLawful
<1>1. TypeOK
  BY AtHand
<1>2. CASE CancelSettled(q)
  <2>1. UNCHANGED <<agent, mode, accepting, startPc, execPc, execStep, execReason, stop>>
    BY <1>2 DEF CancelSettled, memory, exec
  <2>2. CASE Active(run[q]) /\ run[q].status # "stop_failed"
    <3>1. UpdateRun(q, FinishTermination(run[q], OrCancel(termReq[q])))
      BY <1>2, <2>2 DEF CancelSettled
    <3>2. OrCancel(termReq[q]) \in Reasons /\ run[q].status # "absent"
      BY <1>1, <2>2, ReasonTypes, BusyRunExists DEF Reasons
    <3> QED BY <2>1, <3>1, <3>2, FinishKeeps
  <2>3. CASE ~(Active(run[q]) /\ run[q].status # "stop_failed")
    <3>1. UNCHANGED run
      BY <1>2, <2>3 DEF CancelSettled
    <3> QED BY <2>1, <3>1, QuietKeeps, StillRecovering
  <2> QED BY <2>2, <2>3
<1>3. CASE CancelCall(q) \/ CancelEnqueue(q) \/ CancelStandAside(q) \/ CancelRequest(q)
           \/ CancelStopped(q)
  <2>1. UNCHANGED <<run, agent, mode, accepting, startPc, execPc, execStep, execReason>>
    BY <1>3 DEF CancelCall, CancelEnqueue, CancelStandAside, CancelRequest, CancelStopped,
       world, memory, exec
  <2>2. \/ stop' = stop
        \/ stop' = [stop EXCEPT ![<<"cancel", q>>] = "update"]
        \/ stop' = [stop EXCEPT ![<<"cancel", q>>] = "idle"]
    BY <1>3, Zenon DEF CancelCall, CancelEnqueue, CancelStandAside, CancelRequest,
       CancelStopped, StopCall, StopDone
  <2> QED BY <1>1, <2>1, <2>2, QuietKeeps, StillRecovering DEF TypeOK
<1> QED BY <1>2, <1>3 DEF CancelSteps

(* The deadline, in service and in recovery, and the clock.                  *)
LEMMA DeadlineKeeps ==
    ASSUME IndInv, ProgressInv, NEW q \in Requests,
           ClockReachesDeadline(q) \/ DeadlineSteps(q) \/ RecoverExpired(q)
    PROVE  ProgressInv' /\ RunsLawful
<1>1. TypeOK
  BY AtHand
<1>2. CASE DeadlineFinish(q)
  <2>1. /\ UNCHANGED <<agent, mode, accepting, startPc, execPc, execStep, execReason, stop>>
        /\ UpdateRun(q, FinishTermination(run[q], "deadline"))
        /\ dlPc[q] = "finish"
    BY <1>2 DEF DeadlineFinish, memory, exec
  <2>2. run[q].status # "absent"
    BY <2>1, BusyRunExists DEF HandlersIdle
  <2> QED BY <2>1, <2>2, FinishKeeps DEF Reasons
<1>3. CASE ClockReachesDeadline(q) \/ DeadlineFire(q) \/ DeadlineStopped(q) \/ RecoverExpired(q)
  <2>1. UNCHANGED <<run, agent, mode, accepting, startPc, execPc, execStep, execReason>>
    BY <1>3 DEF ClockReachesDeadline, DeadlineFire, DeadlineStopped, RecoverExpired,
       world, memory, exec, callers
  <2>2. \/ stop' = stop
        \/ stop' = [stop EXCEPT ![<<"deadline", q>>] = "update"]
        \/ stop' = [stop EXCEPT ![<<"deadline", q>>] = "idle"]
    BY <1>3, Zenon DEF ClockReachesDeadline, DeadlineFire, DeadlineStopped, RecoverExpired,
       DeadlineCall, StopCall, StopDone, callers
  <2> QED BY <1>1, <2>1, <2>2, QuietKeeps, StillRecovering DEF TypeOK
<1> QED BY <1>2, <1>3 DEF DeadlineSteps

(* An archive.                                                               *)
LEMMA ArchiveKeeps ==
    ASSUME IndInv, ProgressInv, NEW w \in Workspaces, ArchiveStart(w) \/ ArchiveSteps(w)
    PROVE  ProgressInv' /\ RunsLawful
<1>1. stop \in [StopKinds \X Requests -> StopPcs]
  BY DEF IndInv, TypeOK
<1>2. UNCHANGED <<run, agent, mode, accepting, startPc, execPc, execStep, execReason>>
  <2>1. CASE ArchiveStart(w) \/ ArchiveCommit(w) \/ ArchiveFail(w) \/ ArchiveDetached(w)
    BY <2>1 DEF ArchiveStart, ArchiveCommit, ArchiveFail, ArchiveDetached, world, exec, callers
  <2>2. CASE ArchiveNotify(w) \/ ArchiveStopped(w) \/ ArchiveFinish(w) \/ ArchiveUnfenced(w)
    BY <2>2 DEF ArchiveNotify, ArchiveStopped, ArchiveFinish, ArchiveUnfenced, world, memory,
       exec
  <2> QED BY <2>1, <2>2 DEF ArchiveSteps
<1>3. \/ stop' = stop
      \/ \E q \in Requests : \/ stop' = [stop EXCEPT ![<<"archive", q>>] = "idle"]
                            \/ stop' = [stop EXCEPT ![<<"archive", q>>] = "update"]
  <2>1. CASE ArchiveNotify(w)
    BY <2>1, Zenon DEF ArchiveNotify, ActiveRunIn, StopCall
  <2>2. CASE ArchiveStopped(w)
    BY <2>2, Zenon DEF ArchiveStopped, StopDone
  <2>3. CASE \/ ArchiveStart(w) \/ ArchiveCommit(w) \/ ArchiveFail(w) \/ ArchiveDetached(w)
             \/ ArchiveFinish(w) \/ ArchiveUnfenced(w)
    BY <2>3, Zenon DEF ArchiveStart, ArchiveCommit, ArchiveFail, ArchiveDetached, ArchiveFinish,
       ArchiveUnfenced, callers
  <2> QED BY <2>1, <2>2, <2>3, Zenon DEF ArchiveSteps
<1>4. \A q \in Requests, k \in StopKinds :
          \/ stop'[<<k, q>>] = stop[<<k, q>>]
          \/ stop'[<<k, q>>] \notin {"cancel_agent", "refused"}
  BY <1>1, <1>3
<1> QED BY <1>2, <1>4, QuietKeeps, StillRecovering

(* Shutdown.                                                                 *)
LEMMA ShutdownKeeps ==
    ASSUME IndInv, ProgressInv, ShutdownCall \/ ShutdownSteps
    PROVE  ProgressInv' /\ RunsLawful
<1>1. TypeOK
  BY DEF IndInv
<1>2. ASSUME NEW q \in Requests, ShutdownFinish(q)
      PROVE  ProgressInv' /\ RunsLawful
  <2>1. /\ UNCHANGED <<agent, mode, accepting, startPc, execPc, execStep, execReason, stop>>
        /\ UpdateRun(q, FinishTermination(run[q], "shutdown")) /\ Active(run[q])
    BY <1>2 DEF ShutdownFinish, memory, exec, callers
  <2>2. run[q].status # "absent"
    BY <2>1, BusyRunExists
  <2> QED BY <2>1, <2>2, FinishKeeps DEF Reasons
<1>3. CASE ShutdownCall \/ ShutdownFence \/ ShutdownStop \/ ShutdownSettled \/ ShutdownRelease
  <2>1. UNCHANGED <<run, agent, mode, startPc, execPc, execStep, execReason>>
    BY <1>3 DEF ShutdownCall, ShutdownFence, ShutdownStop, ShutdownSettled, ShutdownRelease,
       world, memory, exec
  <2>2. accepting' = accepting \/ accepting' = FALSE
    BY <1>3 DEF ShutdownCall, ShutdownFence, ShutdownStop, ShutdownSettled, ShutdownRelease,
       memory
  <2>3. ASSUME NEW q \in Requests, NEW k \in StopKinds
        PROVE  \/ stop'[<<k, q>>] = stop[<<k, q>>]
               \/ stop'[<<k, q>>] \notin {"cancel_agent", "refused"}
    BY <1>3 DEF ShutdownCall, ShutdownFence, ShutdownStop, ShutdownSettled, ShutdownRelease
  <2>4. Recovering'
    BY <2>1, <2>2 DEF ProgressInv, Recovering
  <2> QED BY <2>1, <2>3, <2>4, QuietKeeps
<1> QED BY <1>2, <1>3, Zenon DEF ShutdownSteps

-----------------------------------------------------------------------------
(* Restart, recovery and admission                                           *)

(* An execution that is not running knows nothing of its step.               *)
LEMMA OffFits ==
    ASSUME NEW r, NEW a, NEW i, NEW why
    PROVE  LoopFits(r, a, "off", i, why)
  BY DEF LoopFits, OnStep, Creating, Unprompted, Streaming, Completing, Stopping

(* A crash forgets every handler and ends every turn.                        *)
LEMMA RestartKeeps ==
    ASSUME IndInv, ProgressInv, Restart
    PROVE  ProgressInv' /\ RunsLawful
<1>1. ASSUME NEW q \in Requests PROVE Fits(q)'
  <2>1. run[q] \in Records /\ Fits(q) /\ execStep[q] \in Steps
    BY AtHand
  <2>2. \A j \in Steps : \/ agent'[q][j] = agent[q][j]
                         \/ agent[q][j] = "streaming" /\ agent'[q][j] \in SettledTurns
    BY DEF Restart, SettledTurns
  <2>3. AgentsFit(run[q], agent'[q])
    BY <2>1, <2>2, SettledFits DEF Fits
  <2>4. /\ run'[q] = run[q] /\ mode' = "recovering" /\ execPc'[q] = "off"
        /\ \A k \in StopKinds : stop'[<<k, q>>] = "idle"
    BY DEF Restart
  <2>5. /\ LoopFits(run[q], agent'[q], "off", execStep'[q], execReason'[q])
        /\ \A k \in StopKinds : StopFits(run[q], agent'[q], "idle")
    BY OffFits, StopFitsElsewhere
  <2> QED BY <2>1, <2>3, <2>4, <2>5 DEF Fits
<1>2. Recovering'
  BY DEF Restart, Recovering
<1> QED BY <1>1, <1>2 DEF ProgressInv, RunsLawful, Restart

(* initialize leaves no active run behind.                                   *)
LEMMA RecoverKeeps ==
    ASSUME IndInv, ProgressInv, RecoverSteps
    PROVE  ProgressInv' /\ RunsLawful
<1>1. ASSUME NEW q \in Requests, RecoverInterrupted(q)
      PROVE  ProgressInv' /\ RunsLawful
  <2>1. /\ UNCHANGED <<agent, mode, accepting, startPc, execPc, execStep, execReason, stop>>
        /\ UpdateRun(q, FinishTermination(run[q], "shutdown")) /\ Active(run[q])
    BY <1>1 DEF RecoverInterrupted, memory, exec, callers
  <2>2. run[q].status # "absent"
    BY <2>1, BusyRunExists
  <2> QED BY <2>1, <2>2, FinishKeeps DEF Reasons
<1>2. CASE RecoverDone
  <2>1. /\ UNCHANGED <<run, agent, execPc, execStep, execReason, stop>> /\ mode' = "up"
        /\ \A q \in Requests : ~Active(run[q])
    BY <1>2 DEF RecoverDone, world, exec, callers
  <2> QED BY <2>1 DEF ProgressInv, Fits, Recovering, RunsLawful
<1> QED BY <1>1, <1>2, DeadlineKeeps DEF RecoverSteps

(* A provider settles a turn.                                                *)
LEMMA SettleKeeps ==
    ASSUME IndInv, ProgressInv, NEW q \in Requests, NEW i \in Steps, AgentSettle(q, i)
    PROVE  ProgressInv' /\ RunsLawful
<1>1. UNCHANGED <<run, mode, accepting, startPc, execPc, execStep, execReason, stop>>
  BY DEF AgentSettle, memory, exec, callers
<1>2. /\ \A j \in Steps : \/ agent'[q][j] = agent[q][j]
                          \/ agent[q][j] = "streaming" /\ agent'[q][j] \in SettledTurns
      /\ \A p \in Requests \ {q} : agent'[p] = agent[p]
  BY DEF IndInv, TypeOK, AgentSettle
<1> QED BY <1>1, <1>2, SettledKeeps

(* Records without a history are in good order.                              *)
LEMMA FreshOrder ==
    /\ Absent \in Records /\ InOrder(Absent) /\ ~Active(Absent)
    /\ Queued \in Records /\ InOrder(Queued)
<1> SUFFICES ASSUME NEW r \in {Absent, Queued}
             PROVE  r \in Records /\ InOrder(r) /\ (r = Absent => ~Active(r))
  OBVIOUS
<1>1. /\ r \in Records /\ r.status \in {"absent", "queued"} /\ r.term = "none"
      /\ \A j \in Steps : r.steps[j] = "pending" /\ ~r.agents[j]
      /\ r = Absent => r.status = "absent"
  <2>1. Absent \in Records
    BY DEF Absent, Records, ActiveRunStatuses, StepStatuses, ReasonOrNone, Writers
  <2>2. Queued \in Records
    BY <2>1 DEF Queued, Records, ActiveRunStatuses
  <2>3. \A j \in Steps : /\ Absent.steps[j] = "pending" /\ ~Absent.agents[j]
                         /\ Queued.steps[j] = "pending" /\ ~Queued.agents[j]
    BY DEF Queued, Absent
  <2>4. /\ Absent.status = "absent" /\ Absent.term = "none"
        /\ Queued.status = "queued" /\ Queued.term = "none"
    BY DEF Queued, Absent
  <2>5. r = Absent \/ r = Queued
    OBVIOUS
  <2> QED BY <2>1, <2>2, <2>3, <2>4, <2>5
<1>2. ~Terminal(r) /\ ~HasActiveStep(r) /\ \A j \in Steps : ~IsActiveStep(r, j)
  BY <1>1 DEF Terminal, TerminalRunStatuses, HasActiveStep, IsActiveStep, ActiveStepStatuses
<1>3. SequentialSteps(r)
  BY <1>1 DEF SequentialSteps, Steps
<1>4. ValidRun(r) /\ CheckpointsAgree(r)
  BY <1>1, <1>2, <1>3 DEF ValidRun, CheckpointsAgree
<1> QED BY <1>1, <1>2, <1>4 DEF InOrder, Active, ActiveRunStatuses

(* Admission: the record of a new run and the execution that boots it.       *)
LEMMA StartKeeps ==
    ASSUME IndInv, ProgressInv, NEW q \in Requests, StartCall(q) \/ StartSteps(q)
    PROVE  ProgressInv' /\ (RunsLawful \/ Admits(q))
<1>1. TypeOK /\ Fits(q)
  BY AtHand
<1>2. mode # "recovering" /\ mode' = mode
  <2>1. accepting \/ startPc[q] # "idle"
    BY DEF StartCall, StartSteps, StartEnqueue, StartStandAside, StartAdmission, StartCheck,
       StartCreate
  <2>2. mode' = mode
    BY DEF StartCall, StartSteps, StartEnqueue, StartStandAside, StartAdmission, StartCheck,
       StartCreate, memory
  <2> QED BY <2>1, <2>2 DEF ProgressInv, Recovering
<1>3. Recovering'
  BY <1>2 DEF Recovering
<1>4. UNCHANGED <<agent, execStep, execReason, stop>>
  BY DEF StartCall, StartSteps, StartEnqueue, StartStandAside, StartAdmission, StartCheck,
     StartCreate, world, exec
<1>5. CASE UNCHANGED <<run, execPc>>
  BY <1>2, <1>3, <1>4, <1>5, QuietKeeps
<1>6. CASE /\ ~Existing(q) /\ ActiveRunIn(WorkspaceOf[q]) = {}
           /\ run' = [run EXCEPT ![q] = Queued] /\ execPc' = [execPc EXCEPT ![q] = "boot"]
  <2>1. Admits(q)
    BY <1>6 DEF Admits
  <2>2. run[q] = Absent
    BY <1>6 DEF Existing, IndInv, AbsentRunsUntouched, Untouched
  <2>3. \A p \in Requests \ {q} : Fits(p)'
    BY <1>1, <1>2, <1>4, <1>6, ApartFits DEF Apart, ProgressInv, TypeOK
  <2>4. run'[q] = Queued /\ execPc'[q] = "boot"
    BY <1>1, <1>6 DEF TypeOK
  <2>5. Queued.steps = Absent.steps /\ Queued.agents = Absent.agents /\ Queued.term = "none"
        /\ Absent.term = "none" /\ Queued.status = "queued"
    BY DEF Queued, Absent
  <2>6. AgentsFit(Queued, agent[q])
    BY <1>1, <2>2, <2>5 DEF Fits, AgentsFit
  <2>7. \A k \in StopKinds : StopFits(Queued, agent[q], stop[<<k, q>>])
    BY <1>1, <2>2, <2>5, NoStopOnItsWay DEF Fits
  <2>8. LoopFits(Queued, agent[q], "boot", execStep[q], execReason[q])
    BY <2>5 DEF LoopFits, OnStep, Creating, Unprompted, Streaming, Completing, Stopping
  <2>9. Fits(q)'
    BY <1>4, <2>4, <2>6, <2>7, <2>8, FreshOrder DEF Fits
  <2> QED BY <1>3, <2>1, <2>3, <2>9 DEF ProgressInv
<1>7. UNCHANGED <<run, execPc>> \/
        /\ ~Existing(q) /\ ActiveRunIn(WorkspaceOf[q]) = {}
        /\ run' = [run EXCEPT ![q] = Queued] /\ execPc' = [execPc EXCEPT ![q] = "boot"]
  <2>1. CASE StartCreate(q)
    BY <2>1, Zenon DEF StartCreate
  <2>2. CASE ~StartCreate(q)
    BY <2>2 DEF StartCall, StartSteps, StartEnqueue, StartStandAside, StartAdmission,
       StartCheck, world, exec
  <2> QED BY <2>1, <2>2
<1> QED BY <1>5, <1>6, <1>7

(* A new installation satisfies the invariant.                               *)
LEMMA InitProgress == Init => ProgressInv
<1> SUFFICES ASSUME Init PROVE ProgressInv
  OBVIOUS
<1>1. ASSUME NEW q \in Requests PROVE Fits(q)
  <2>1. /\ run[q] = Absent /\ execPc[q] = "off" /\ \A k \in StopKinds : stop[<<k, q>>] = "idle"
        /\ \A i \in Steps : agent[q][i] = "none"
    BY DEF Init
  <2>2. AgentsFit(Absent, agent[q])
    BY <2>1 DEF AgentsFit, Absent
  <2> QED BY <2>1, <2>2, OffFits, StopFitsElsewhere, FreshOrder DEF Fits
<1> QED BY <1>1 DEF ProgressInv, Recovering, Init

-----------------------------------------------------------------------------
(* The execution loop *)

(* The execution works on its own run, and only while it runs.               *)
LEMMA ExecApart ==
    ASSUME IndInv, ProgressInv, NEW q \in Requests, ExecOutside(q) \/ ExecInside(q)
    PROVE  /\ execPc[q] # "off" /\ mode' = mode /\ Recovering'
           /\ \A p \in Requests \ {q} : Apart(p)
           /\ \A k \in StopKinds : \/ stop'[<<k, q>>] = stop[<<k, q>>]
                                   \/ stop'[<<k, q>>] \notin {"cancel_agent", "refused"}
<1>1. TypeOK
  BY AtHand
<1>2. execPc[q] # "off"
  <2>1. ASSUME ExecOutside(q) PROVE execPc[q] # "off"
    BY <2>1, LockLocations DEF ExecOutside, ExecEnqueue, ExecStandAside, ExecBoot, ExecBegin,
       ExecLoop, ExecRevalidate, ExecCreated, ExecPermission, ExecPermCheck, ExecPermStopped,
       ExecPermWrite, ExecTurnEnded, ExecError, ExecFinish, ExecDone, ExecClear, WantPcs
  <2>2. ASSUME ExecInside(q) PROVE execPc[q] # "off"
    BY <2>2 DEF ExecInside, ExecCreateCheck, ExecCreateStop, ExecCreateAgent,
       ExecCreateAgentFails,
       ExecPersistAgent, ExecAdmit, ExecAdmitStop, ExecCompleteCheck, ExecCompleteStop,
       ExecCompleteWrite, ExecFail
  <2> QED BY <2>1, <2>2
<1>3. mode' = mode
  <2>1. CASE ExecOutside(q)
    BY <2>1 DEF ExecOutside, ExecEnqueue, ExecStandAside, ExecBoot, ExecBegin, ExecLoop,
       ExecRevalidate, ExecCreated, ExecPermission, ExecPermCheck, ExecPermStopped,
       ExecPermWrite, ExecTurnEnded, ExecError, ExecFinish, ExecDone, ExecClear, memory
  <2>2. CASE ExecInside(q)
    BY <2>2 DEF ExecInside, ExecCreateCheck, ExecCreateStop, ExecCreateAgent,
       ExecCreateAgentFails,
       ExecPersistAgent, ExecAdmit, ExecAdmitStop, ExecCompleteCheck, ExecCompleteStop,
       ExecCompleteWrite, ExecFail, memory
  <2> QED BY <2>1, <2>2
<1>4. Recovering'
  BY <1>2, <1>3, AtHand DEF Recovering
<1>5. stop' = stop \/ \E pc \in {"update", "idle"} : stop' = [stop EXCEPT ![<<"exec", q>>] = pc]
  <2>1. CASE ExecPermCheck(q) \/ ExecPermStopped(q)
    BY <2>1, Zenon DEF ExecPermCheck, ExecPermStopped, StopCall, StopDone
  <2>2. CASE \/ ExecEnqueue(q) \/ ExecStandAside(q) \/ ExecBoot(q) \/ ExecBegin(q)
             \/ ExecLoop(q) \/ ExecRevalidate(q) \/ ExecCreated(q)
             \/ ExecPermission(q) \/ ExecPermWrite(q) \/ ExecTurnEnded(q) \/ ExecError(q)
             \/ ExecFinish(q) \/ ExecDone(q) \/ ExecClear(q)
    BY <2>2, Zenon DEF ExecEnqueue, ExecStandAside, ExecBoot, ExecBegin, ExecLoop,
       ExecRevalidate, ExecCreated, ExecPermission, ExecPermWrite, ExecTurnEnded, ExecError,
       ExecFinish, ExecDone, ExecClear, callers
  <2>3. CASE ExecInside(q)
    BY <2>3, Zenon DEF ExecInside, ExecCreateCheck, ExecCreateStop, ExecCreateAgent,
       ExecCreateAgentFails, ExecPersistAgent, ExecAdmit, ExecAdmitStop, ExecCompleteCheck,
       ExecCompleteStop, ExecCompleteWrite, ExecFail, callers
  <2> QED BY <2>1, <2>2, <2>3, Zenon DEF ExecOutside
<1>6. \E s : run' = [run EXCEPT ![q] = s]
  <2>0. run' = run => run' = [run EXCEPT ![q] = run[q]]
    BY <1>1 DEF TypeOK
  <2>1. run' = run \/ \E s : UpdateRun(q, s)
    <3>1. CASE ExecBegin(q) \/ ExecPermWrite(q) \/ ExecFinish(q) \/ ExecPersistAgent(q)
      BY <3>1, Zenon DEF ExecBegin, ExecPermWrite, ExecFinish, ExecPersistAgent
    <3>2. CASE ExecCreateStop(q) \/ ExecAdmitStop(q) \/ ExecCompleteStop(q)
               \/ ExecCompleteWrite(q) \/ ExecFail(q)
      BY <3>2, Zenon DEF ExecCreateStop, ExecAdmitStop, ExecCompleteStop, ExecCompleteWrite,
         ExecFail
    <3>3. CASE \/ ExecEnqueue(q) \/ ExecStandAside(q) \/ ExecBoot(q)
               \/ ExecLoop(q) \/ ExecRevalidate(q) \/ ExecCreated(q)
               \/ ExecPermission(q) \/ ExecPermCheck(q) \/ ExecPermStopped(q)
               \/ ExecTurnEnded(q) \/ ExecError(q) \/ ExecDone(q) \/ ExecClear(q)
      BY <3>3, Zenon DEF ExecEnqueue, ExecStandAside, ExecBoot, ExecLoop,
         ExecRevalidate, ExecCreated, ExecPermission, ExecPermCheck, ExecPermStopped,
         ExecTurnEnded, ExecError, ExecDone, ExecClear, world
    <3>4. CASE \/ ExecCreateCheck(q) \/ ExecCreateAgent(q) \/ ExecCreateAgentFails(q)
               \/ ExecAdmit(q) \/ ExecCompleteCheck(q)
      BY <3>4, Zenon DEF ExecCreateCheck, ExecCreateAgent, ExecCreateAgentFails, ExecAdmit,
         ExecCompleteCheck, world
    <3> QED BY <3>1, <3>2, <3>3, <3>4, Zenon DEF ExecOutside, ExecInside
  <2> QED BY <2>0, <2>1, Zenon DEF UpdateRun
<1>7. agent' = agent \/ \E a : agent' = [agent EXCEPT ![q] = a]
  <2>1. CASE ExecOutside(q)
    BY <2>1, Zenon DEF ExecOutside, ExecEnqueue, ExecStandAside, ExecBoot, ExecBegin, ExecLoop,
       ExecRevalidate, ExecCreated, ExecPermission, ExecPermCheck, ExecPermStopped,
       ExecPermWrite, ExecTurnEnded, ExecError, ExecFinish, ExecDone, ExecClear, world
  <2>2. CASE ExecInside(q)
    <3>1. CASE ExecCreateAgent(q) \/ ExecAdmit(q)
      BY <3>1, Zenon DEF ExecCreateAgent, ExecAdmit
    <3>2. CASE ~(ExecCreateAgent(q) \/ ExecAdmit(q))
      BY <2>2, <3>2, Zenon DEF ExecInside, ExecCreateCheck, ExecCreateStop,
         ExecCreateAgentFails, ExecPersistAgent, ExecAdmitStop, ExecCompleteCheck,
         ExecCompleteStop, ExecCompleteWrite, ExecFail, world
    <3> QED BY <3>1, <3>2
  <2> QED BY <2>1, <2>2
<1>8. /\ \E pc : execPc' = [execPc EXCEPT ![q] = pc]
      /\ execStep' = execStep \/ \E i : execStep' = [execStep EXCEPT ![q] = i]
      /\ execReason' = execReason \/ \E why : execReason' = [execReason EXCEPT ![q] = why]
  <2>1. CASE \/ ExecEnqueue(q) \/ ExecStandAside(q) \/ ExecBoot(q) \/ ExecBegin(q)
             \/ ExecLoop(q) \/ ExecRevalidate(q) \/ ExecCreated(q)
    BY <2>1, Zenon DEF ExecEnqueue, ExecStandAside, ExecBoot, ExecBegin, ExecLoop,
       ExecRevalidate,
       ExecCreated, Goto, GotoFinish, callers
  <2>2. CASE \/ ExecPermission(q) \/ ExecPermCheck(q) \/ ExecPermStopped(q) \/ ExecPermWrite(q)
             \/ ExecTurnEnded(q) \/ ExecError(q) \/ ExecFinish(q) \/ ExecDone(q) \/ ExecClear(q)
    BY <2>2, Zenon DEF ExecPermission, ExecPermCheck, ExecPermStopped, ExecPermWrite,
       ExecTurnEnded, ExecError, ExecFinish, ExecDone, ExecClear, Goto, GotoFinish
  <2>3. CASE ExecInside(q)
    BY <2>3, Zenon DEF ExecInside, ExecCreateCheck, ExecCreateStop, ExecCreateAgent,
       ExecCreateAgentFails, ExecPersistAgent, ExecAdmit, ExecAdmitStop, ExecCompleteCheck,
       ExecCompleteStop, ExecCompleteWrite, ExecFail, Goto, GotoFinish, GotoStop
  <2> QED BY <2>1, <2>2, <2>3, Zenon DEF ExecOutside
<1>9. \A p \in Requests \ {q} : Apart(p)
  BY <1>1, <1>5, <1>6, <1>7, <1>8 DEF Apart, TypeOK
<1>10. \A k \in StopKinds : \/ stop'[<<k, q>>] = stop[<<k, q>>]
                            \/ stop'[<<k, q>>] \notin {"cancel_agent", "refused"}
  <2>1. stop \in [StopKinds \X Requests -> StopPcs]
    BY <1>1 DEF TypeOK
  <2>2. CASE stop' = stop
    BY <2>2
  <2>3. ASSUME NEW pc \in {"update", "idle"}, stop' = [stop EXCEPT ![<<"exec", q>>] = pc],
               NEW k \in StopKinds, k = "exec"
        PROVE  stop'[<<k, q>>] \notin {"cancel_agent", "refused"}
    BY <2>1, <2>3
  <2>4. ASSUME NEW pc, stop' = [stop EXCEPT ![<<"exec", q>>] = pc],
               NEW k \in StopKinds, k # "exec"
        PROVE  stop'[<<k, q>>] = stop[<<k, q>>]
    BY <2>1, <2>4
  <2> QED BY <1>5, <2>2, <2>3, <2>4
<1> QED BY <1>2, <1>3, <1>4, <1>9, <1>10

(* A step of the execution of q keeps the invariant if q's part survives it. *)
LEMMA ExecKeeps ==
    ASSUME IndInv, ProgressInv, NEW q \in Requests, ExecOutside(q) \/ ExecInside(q),
           NEW s, NEW a, run'[q] = s, agent'[q] = a,
           InOrder(s), AgentsFit(s, a),
           LoopFits(s, a, execPc'[q], execStep'[q], execReason'[q]),
           \A pc : StopFits(run[q], agent[q], pc) => StopFits(s, a, pc),
           execPc'[q] = "off" => ~Active(s),
           s = run[q] \/ Lawful(run[q], s)
    PROVE  ProgressInv' /\ RunsLawful
<1>1. /\ execPc[q] # "off" /\ mode' = mode /\ Recovering'
      /\ \A p \in Requests \ {q} : Apart(p)
      /\ \A k \in StopKinds : \/ stop'[<<k, q>>] = stop[<<k, q>>]
                               \/ stop'[<<k, q>>] \notin {"cancel_agent", "refused"}
  BY ExecApart
<1>2. Fits(q) /\ run[q].status # "absent"
  BY <1>1, AtHand
<1>3. \A k \in StopKinds : StopFits(s, a, stop'[<<k, q>>])
  BY <1>1, <1>2, StopFitsElsewhere DEF Fits
<1>4. Fits(q)'
  BY <1>3 DEF Fits
<1>5. StepLawful(q)
  BY <1>2 DEF StepLawful
<1> QED BY <1>1, <1>4, <1>5, OneRun

(* It does if the execution only moves on.                                   *)
LEMMA MoveKeeps ==
    ASSUME IndInv, ProgressInv, NEW q \in Requests, ExecOutside(q) \/ ExecInside(q),
           run'[q] = run[q], agent'[q] = agent[q],
           LoopFits(run[q], agent[q], execPc'[q], execStep'[q], execReason'[q]),
           execPc'[q] = "off" => ~Active(run[q])
    PROVE  ProgressInv' /\ RunsLawful
<1>1. Fits(q)
  BY AtHand
<1> QED BY <1>1, ExecKeeps DEF Fits

(* Where Goto and its variants lead.                                         *)
LEMMA GotoLands ==
    ASSUME TypeOK, NEW q \in Requests
    PROVE  /\ \A pc : Goto(q, pc) => execPc'[q] = pc
           /\ \A why : GotoFinish(q, why) => execPc'[q] = "finish" /\ execReason'[q] = why
           /\ \A pc : GotoStop(q, pc) =>
                  execPc'[q] = pc /\ execReason'[q] = RequestedReason(q)
<1>1. \A pc : Goto(q, pc) => execPc'[q] = pc
  BY DEF TypeOK, Goto
<1>2. \A why : GotoFinish(q, why) => execPc'[q] = "finish" /\ execReason'[q] = why
  BY <1>1 DEF TypeOK, GotoFinish
<1>3. \A pc : GotoStop(q, pc) => execPc'[q] = pc /\ execReason'[q] = RequestedReason(q)
  BY <1>1 DEF TypeOK, GotoStop
<1> QED BY <1>1, <1>2, <1>3

(* Waiting for the workspace operation, the execution is where it was.       *)
LEMMA QueueKeeps ==
    ASSUME IndInv, ProgressInv, NEW q \in Requests, ExecEnqueue(q) \/ ExecStandAside(q)
    PROVE  ProgressInv' /\ RunsLawful
<1> DEFINE Pair(want, lock) ==
               \/ want = "want_create" /\ lock = "lock_create"
               \/ want = "want_admit" /\ lock = "lock_admit"
               \/ want = "want_complete" /\ lock = "lock_complete"
               \/ want = "want_fail" /\ lock = "lock_fail"
<1>1. TypeOK /\ Fits(q)
  BY AtHand
<1>2. \A p \in WantPcs : Pair(p, LockPc[p])
  BY DEF WantPcs, LockPc
<1>3. \A p \in LockPcs : Pair(WantPc(p), p)
  <2>1. \A p \in LockPcs : WantPc(p) \in WantPcs /\ LockPc[WantPc(p)] = p
    BY DEF LockPcs, WantPc
  <2> QED BY <1>2, <2>1
<1>4. Pair(execPc[q], execPc'[q]) \/ Pair(execPc'[q], execPc[q])
  <2>1. CASE ExecEnqueue(q)
    BY <1>1, <1>2, <2>1, GotoLands DEF ExecEnqueue
  <2>2. CASE ExecStandAside(q)
    BY <1>1, <1>3, <2>2, GotoLands DEF ExecStandAside
  <2> QED BY <2>1, <2>2
<1>5. UNCHANGED <<run, agent, execStep, execReason>>
  BY DEF ExecEnqueue, ExecStandAside, world
<1>6. LoopFits(run[q], agent[q], execPc'[q], execStep[q], execReason[q])
  BY <1>1, <1>4 DEF Fits, LoopFits, OnStep, Creating, Unprompted, Streaming, Completing, Stopping
<1>7. execPc'[q] # "off"
  BY <1>4
<1> QED BY <1>5, <1>6, <1>7, MoveKeeps DEF ExecOutside

(* The locations that count on nothing of the step.                          *)
LEMMA FreeLocations ==
    ASSUME NEW r, NEW a, NEW i, NEW why
    PROVE  /\ \A pc \in {"err", "err_workspace", "want_fail", "lock_fail"} :
                  LoopFits(r, a, pc, i, why)
           /\ ~Active(r) => LoopFits(r, a, "done", i, why)
           /\ why # "none" => LoopFits(r, a, "finish", i, why)
<1> USE DEF LoopFits, OnStep, Creating, Unprompted, Streaming, Completing, Stopping
<1>1. \A pc \in {"err", "err_workspace", "want_fail", "lock_fail"} : LoopFits(r, a, pc, i, why)
  OBVIOUS
<1>2. ~Active(r) => LoopFits(r, a, "done", i, why)
  OBVIOUS
<1>3. why # "none" => LoopFits(r, a, "finish", i, why)
  OBVIOUS
<1> QED BY <1>1, <1>2, <1>3

(* The steps of the execution outside its operation that write no record.    *)
LEMMA OutsideMoves ==
    ASSUME IndInv, ProgressInv, NEW q \in Requests,
           \/ ExecBoot(q) \/ ExecLoop(q) \/ ExecRevalidate(q) \/ ExecCreated(q)
           \/ ExecPermission(q) \/ ExecPermCheck(q) \/ ExecPermStopped(q)
           \/ ExecTurnEnded(q) \/ ExecError(q) \/ ExecDone(q) \/ ExecClear(q)
    PROVE  ProgressInv' /\ RunsLawful
<1> DEFINE pc == execPc[q]
           next == execPc'[q]
           Fit(l, why) == LoopFits(run[q], agent[q], l, execStep[q], why)
<1>1. TypeOK /\ Fits(q) /\ execStep[q] \in Steps /\ Fit(pc, execReason[q])
  BY AtHand DEF Fits
<1>2. UNCHANGED <<run, agent, execStep>>
  <2>1. CASE ExecBoot(q) \/ ExecLoop(q) \/ ExecRevalidate(q) \/ ExecCreated(q)
             \/ ExecPermission(q) \/ ExecPermCheck(q)
    BY <2>1 DEF ExecBoot, ExecLoop, ExecRevalidate, ExecCreated, ExecPermission, ExecPermCheck,
       world
  <2>2. CASE ExecPermStopped(q) \/ ExecTurnEnded(q) \/ ExecError(q) \/ ExecDone(q)
             \/ ExecClear(q)
    BY <2>2 DEF ExecPermStopped, ExecTurnEnded, ExecError, ExecDone, ExecClear, world
  <2> QED BY <2>1, <2>2
<1>3. CASE ExecBoot(q)
  <2>1. /\ pc = "boot"
        /\ \/ next = "done" /\ ~Active(run[q])
           \/ next = "finish" /\ execReason'[q] # "none"
           \/ next = "begin"
    BY <1>1, <1>3, GotoLands DEF ExecBoot, Asked
  <2>2. Fit(next, execReason'[q]) /\ next # "off"
    BY <1>1, <2>1, FreeLocations DEF LoopFits, OnStep, Creating, Unprompted, Streaming,
       Completing, Stopping
  <2> QED BY <1>2, <1>3, <2>2, MoveKeeps, Zenon DEF ExecOutside
<1>4. CASE ExecLoop(q)
  <2>1. /\ pc = "loop"
        /\ \/ next = "done" /\ ~Active(run[q])
           \/ next = "finish" /\ execReason'[q] # "none"
           \/ next = "revalidate"
    BY <1>1, <1>4, GotoLands DEF ExecLoop, OrCancel
  <2>2. Fit(next, execReason'[q]) /\ next # "off"
    BY <1>1, <2>1, FreeLocations DEF LoopFits, OnStep, Creating, Unprompted, Streaming,
       Completing, Stopping
  <2> QED BY <1>2, <1>4, <2>2, MoveKeeps, Zenon DEF ExecOutside
<1>5. CASE ExecRevalidate(q)
  <2>1. pc = "revalidate" /\ next \in {"err_workspace", "want_create", "err"}
    BY <1>1, <1>5, GotoLands DEF ExecRevalidate
  <2>2. Fit(next, execReason'[q]) /\ next # "off"
    BY <1>1, <2>1, FreeLocations DEF LoopFits, OnStep, Creating, Unprompted, Streaming,
       Completing, Stopping
  <2> QED BY <1>2, <1>5, <2>2, MoveKeeps, Zenon DEF ExecOutside
<1>6. CASE ExecCreated(q)
  <2>1. pc = "created" /\ next = IF Active(run[q]) THEN "want_admit" ELSE "done"
    BY <1>1, <1>6, GotoLands DEF ExecCreated
  <2>2. Fit(next, execReason'[q]) /\ next # "off"
    BY <1>1, <2>1, FreeLocations DEF LoopFits, OnStep, Creating, Unprompted, Streaming,
       Completing, Stopping
  <2> QED BY <1>2, <1>6, <2>2, MoveKeeps, Zenon DEF ExecOutside
<1>7. CASE ExecPermission(q)
  <2>1. pc = "stream" /\ next = "perm_check"
    BY <1>1, <1>7, GotoLands DEF ExecPermission
  <2>2. Fit(next, execReason'[q]) /\ next # "off"
    BY <1>1, <2>1, FreeLocations DEF LoopFits, OnStep, Creating, Unprompted, Streaming,
       Completing, Stopping
  <2> QED BY <1>2, <1>7, <2>2, MoveKeeps, Zenon DEF ExecOutside
<1>8. CASE ExecPermCheck(q)
  <2>1. pc = "perm_check" /\ next \in {"perm_stop", "perm_write"}
    BY <1>1, <1>8, GotoLands DEF ExecPermCheck
  <2>2. Fit(next, execReason'[q]) /\ next # "off"
    BY <1>1, <2>1, FreeLocations DEF LoopFits, OnStep, Creating, Unprompted, Streaming,
       Completing, Stopping
  <2> QED BY <1>2, <1>8, <2>2, MoveKeeps, Zenon DEF ExecOutside
<1>9. CASE ExecPermStopped(q)
  <2>1. pc = "perm_stop" /\ next = "stream"
    BY <1>1, <1>9, GotoLands DEF ExecPermStopped
  <2>2. Fit(next, execReason'[q]) /\ next # "off"
    BY <1>1, <2>1, FreeLocations DEF LoopFits, OnStep, Creating, Unprompted, Streaming,
       Completing, Stopping
  <2> QED BY <1>2, <1>9, <2>2, MoveKeeps, Zenon DEF ExecOutside
<1>10. CASE ExecTurnEnded(q)
  <2>1. /\ pc = "stream"
        /\ \/ next = "want_complete" /\ agent[q][execStep[q]] = "completed"
           \/ next \in {"want_fail", "err"}
           \/ next = "finish" /\ execReason'[q] # "none"
    BY <1>1, <1>10, GotoLands DEF ExecTurnEnded, TurnSucceeded, OrCancel
  <2>2. Fit(next, execReason'[q]) /\ next # "off"
    BY <1>1, <2>1, FreeLocations DEF LoopFits, OnStep, Creating, Unprompted, Streaming,
       Completing, Stopping
  <2> QED BY <1>2, <1>10, <2>2, MoveKeeps, Zenon DEF ExecOutside
<1>11. CASE ExecError(q)
  <2>1. /\ pc \in {"err", "err_workspace"}
        /\ \/ next = "done" /\ ~Active(run[q])
           \/ next = "want_fail"
           \/ next = "finish" /\ execReason'[q] # "none"
    BY <1>1, <1>11, GotoLands DEF ExecError, Asked
  <2>2. Fit(next, execReason'[q]) /\ next # "off"
    BY <1>1, <2>1, FreeLocations DEF LoopFits, OnStep, Creating, Unprompted, Streaming,
       Completing, Stopping
  <2> QED BY <1>2, <1>11, <2>2, MoveKeeps, Zenon DEF ExecOutside
<1>12. CASE ExecDone(q) \/ ExecClear(q)
  <2>1. pc \in {"done", "clearing"} /\ next \in {"clearing", "off"}
    BY <1>1, <1>12, GotoLands DEF ExecDone, ExecClear
  <2>2. Fit(next, execReason'[q]) /\ ~Active(run[q])
    BY <1>1, <2>1 DEF LoopFits, OnStep, Creating, Unprompted, Streaming,
       Completing, Stopping
  <2> QED BY <1>2, <1>12, <2>2, MoveKeeps, Zenon DEF ExecOutside
<1> QED BY <1>3, <1>4, <1>5, <1>6, <1>7, <1>8, <1>9, <1>10, <1>11, <1>12

(* The steps inside its operation that only look.                            *)
LEMMA InsideMoves ==
    ASSUME IndInv, ProgressInv, NEW q \in Requests,
           ExecCreateCheck(q) \/ ExecCreateAgentFails(q) \/ ExecCompleteCheck(q)
    PROVE  ProgressInv' /\ RunsLawful
<1> DEFINE pc == execPc[q]
           next == execPc'[q]
           i == execStep[q]
           Fit(l, why) == LoopFits(run[q], agent[q], l, i, why)
<1>1. TypeOK /\ Fits(q) /\ i \in Steps /\ Fit(pc, execReason[q])
  BY AtHand DEF Fits
<1>2. UNCHANGED <<run, agent, execStep>>
  BY DEF ExecCreateCheck, ExecCreateAgentFails, ExecCompleteCheck, world
<1>3. CASE ExecCreateCheck(q)
  <2>1. /\ pc = "lock_create"
        /\ \/ next = "err"
           \/ next = "create_stop" /\ execReason'[q] # "none"
           \/ next = "create_agent"
    BY <1>1, <1>3, GotoLands DEF ExecCreateCheck, Asked
  <2>2. Fit(next, execReason'[q]) /\ next # "off"
    BY <1>1, <2>1, FreeLocations DEF LoopFits, OnStep, Creating, Unprompted, Streaming,
       Completing, Stopping
  <2> QED BY <1>2, <1>3, <2>2, MoveKeeps, Zenon DEF ExecInside
<1>4. CASE ExecCreateAgentFails(q)
  <2>1. next = "err"
    BY <1>1, <1>4, GotoLands DEF ExecCreateAgentFails
  <2>2. Fit(next, execReason'[q]) /\ next # "off"
    BY <2>1, FreeLocations
  <2> QED BY <1>2, <1>4, <2>2, MoveKeeps, Zenon DEF ExecInside
<1>5. CASE ExecCompleteCheck(q)
  <2>1. pc = "lock_complete"
    BY <1>5 DEF ExecCompleteCheck
  <2>2. Active(run[q]) => run[q].steps[i] # "succeeded" /\ run[q].agents[i]
    BY <1>1, <2>1 DEF LoopFits, OnStep, Creating, Unprompted, Streaming,
       Completing, Stopping
  <2>3. \/ next = "done" /\ ~Active(run[q])
        \/ next = "complete_stop" /\ execReason'[q] # "none" /\ Active(run[q])
        \/ next = "complete_write"
    BY <1>1, <1>5, <2>2, GotoLands DEF ExecCompleteCheck, Asked
  <2>4. Active(run[q]) => ~Terminal(run[q])
    BY DEF Active, Terminal, ActiveRunStatuses, TerminalRunStatuses
  <2>5. Fit(next, execReason'[q]) /\ next # "off"
    BY <1>1, <2>1, <2>3, <2>4, FreeLocations DEF LoopFits, OnStep, Creating, Unprompted, Streaming,
       Completing, Stopping
  <2> QED BY <1>2, <1>5, <2>5, MoveKeeps, Zenon DEF ExecInside
<1> QED BY <1>3, <1>4, <1>5

(* A new agent, and one that is prompted, is the agent of the step that the  *)
(* execution is on: nobody else counts on what that agent is.                *)
LEMMA AgentKeeps ==
    ASSUME IndInv, ProgressInv, NEW q \in Requests, ExecInside(q),
           run'[q] = run[q], execStep'[q] = execStep[q], NEW to,
           agent'[q] = [agent[q] EXCEPT ![execStep[q]] = to],
           \/ agent[q][execStep[q]] = "none" /\ to = "idle"
           \/ agent[q][execStep[q]] = "idle" /\ to = "streaming",
           run[q].steps[execStep[q]] \notin {"pending", "succeeded"},
           execPc'[q] # "off",
           LoopFits(run[q], agent'[q], execPc'[q], execStep[q], execReason'[q])
    PROVE  ProgressInv' /\ RunsLawful
<1> DEFINE a == agent[q]
           b == agent'[q]
           i == execStep[q]
<1>1. TypeOK /\ Fits(q) /\ i \in Steps
  BY AtHand
<1>2. b[i] = to /\ \A j \in Steps : j # i => b[j] = a[j]
  BY <1>1 DEF TypeOK
<1>3. AgentsFit(run[q], b)
  BY <1>1, <1>2 DEF Fits, AgentsFit
<1>4. \A pc : StopFits(run[q], a, pc) => StopFits(run[q], b, pc)
  BY <1>1, <1>2 DEF StopFits
<1> QED BY <1>1, <1>3, <1>4, ExecKeeps DEF Fits

(* createStepAgent returns.                                                  *)
LEMMA CreateAgentKeeps ==
    ASSUME IndInv, ProgressInv, NEW q \in Requests, ExecCreateAgent(q)
    PROVE  ProgressInv' /\ RunsLawful
<1> DEFINE i == execStep[q]
<1>1. TypeOK /\ i \in Steps /\ LoopFits(run[q], agent[q], "create_agent", i, execReason[q])
  BY AtHand DEF Fits, ExecCreateAgent
<1>2. /\ run' = run /\ execStep' = execStep /\ execPc'[q] = "persist_agent"
      /\ agent'[q] = [agent[q] EXCEPT ![i] = "idle"]
  BY <1>1, GotoLands DEF ExecCreateAgent, TypeOK
<1>3. agent[q][i] = "none" /\ run[q].steps[i] \notin {"pending", "succeeded"}
  BY <1>1 DEF LoopFits, OnStep, Creating, Unprompted, Streaming,
       Completing, Stopping
<1>4. agent'[q][i] = "idle"
  BY <1>1, <1>2 DEF TypeOK
<1>5. LoopFits(run[q], agent'[q], "persist_agent", i, execReason'[q])
  BY <1>1, <1>4 DEF LoopFits, OnStep, Creating, Unprompted, Streaming,
       Completing, Stopping
<1> QED BY <1>2, <1>3, <1>5, AgentKeeps, Zenon DEF ExecInside

(* stopBeforeStreamAdmission.  A run that is stop_failed is a run whose      *)
(* agent has been prompted, so the agent of this step would be too.          *)
LEMMA AdmitKeeps ==
    ASSUME IndInv, ProgressInv, NEW q \in Requests, ExecAdmit(q)
    PROVE  ProgressInv' /\ RunsLawful
<1> DEFINE r == run[q]
           i == execStep[q]
<1>1. /\ TypeOK /\ i \in Steps /\ r \in Records /\ Fits(q)
      /\ LoopFits(r, agent[q], "lock_admit", i, execReason[q])
  BY AtHand DEF Fits, ExecAdmit
<1>2. /\ agent[q][i] = "idle" /\ r.steps[i] \notin {"pending", "succeeded"}
      /\ Active(r) => r.agents[i]
  BY <1>1 DEF LoopFits, OnStep, Creating, Unprompted, Streaming,
       Completing, Stopping
<1>3. run' = run /\ execStep' = execStep
  BY DEF ExecAdmit
<1>4. CASE /\ agent' = [agent EXCEPT ![q][i] = "streaming"]
           /\ Goto(q, "stream")
  <2>1. execPc'[q] = "stream" /\ agent'[q] = [agent[q] EXCEPT ![i] = "streaming"]
    BY <1>1, <1>4, GotoLands DEF TypeOK
  <2>2. LoopFits(r, agent'[q], "stream", i, execReason'[q])
    BY <1>2 DEF LoopFits, OnStep, Creating, Unprompted, Streaming,
       Completing, Stopping
  <2> QED BY <1>2, <1>3, <2>1, <2>2, AgentKeeps, Zenon DEF ExecInside
<1>5. CASE /\ agent' = agent
           /\ \/ GotoStop(q, "admit_stop") /\ Asked(q)
              \/ Goto(q, "done") /\ (Active(r) => r.status = "stop_failed")
  <2>1. Active(r) => r.status # "stop_failed"
    <3> SUFFICES ASSUME Active(r), r.status = "stop_failed" PROVE FALSE
      OBVIOUS
    <3>1. ActiveForm(r, i)
      BY <1>1, <1>2, FrontierActive DEF Fits
    <3>2. r.steps[i] = "stop_failed"
      BY <3>1 DEF ActiveForm
    <3> QED BY <1>1, <1>2, <3>2 DEF Fits, AgentsFit
  <2>2. \/ execPc'[q] = "admit_stop" /\ execReason'[q] # "none"
        \/ execPc'[q] = "done" /\ ~Active(r)
    BY <1>1, <1>5, <2>1, GotoLands DEF Asked
  <2>3. LoopFits(r, agent[q], execPc'[q], i, execReason'[q]) /\ execPc'[q] # "off"
    BY <1>1, <2>2, FreeLocations DEF LoopFits, OnStep, Creating, Unprompted, Streaming,
       Completing, Stopping
  <2> QED BY <1>3, <1>5, <2>3, MoveKeeps, Zenon DEF ExecInside
<1> QED BY <1>4, <1>5, Zenon DEF ExecAdmit

(* Where nobody asked for a stop, none is on record, and the deadline is     *)
(* ahead: an update there is not refused.                                    *)
LEMMA NotAsked ==
    ASSUME TypeOK, NEW q \in Requests, ~Asked(q)
    PROVE  run[q].term = "none" /\ termReq[q] = "none" /\ ~expired[q]
<1>1. termReq[q] \in ReasonOrNone
  BY DEF TypeOK
<1>2. RequestedReason(q) = "none"
  BY DEF Asked
<1>3. termReq[q] \in {"cancel", "none"}
  BY <1>1, <1>2 DEF RequestedReason, ReasonOrNone, Reasons
<1>4. run[q].term = "none"
  BY <1>2, <1>3 DEF RequestedReason
<1> QED BY <1>2, <1>3, <1>4 DEF RequestedReason

(* What updateRun leaves.                                                    *)
LEMMA UpdateLands ==
    ASSUME TypeOK, NEW q \in Requests, NEW s, UpdateRun(q, s)
    PROVE  run'[q] = IF Rejected(q, s) THEN run[q] ELSE s
  BY DEF TypeOK, UpdateRun

(* An ended run has no active step.                                          *)
LEMMA EndedHasNone ==
    ASSUME NEW s \in Records, InOrder(s), s.status # "absent", ~Active(s)
    PROVE  \A j \in Steps : s.steps[j] \notin ActiveStepStatuses
<1>1. Terminal(s)
  BY DEF Active, Terminal, Records
<1> QED BY <1>1 DEF InOrder, ValidRun, HasActiveStep, IsActiveStep

(* The execution itself ends its run for a reason.                           *)
LEMMA EndingKeeps ==
    ASSUME IndInv, ProgressInv, NEW q \in Requests, ExecOutside(q) \/ ExecInside(q),
           NEW s, UpdateRun(q, s), agent' = agent, execPc'[q] \in {"err", "done"},
           Lawful(run[q], s), Interrupts(run[q], s), ~Active(s), s = run[q] \/ s.term # "none"
    PROVE  ProgressInv' /\ RunsLawful
<1>1. TypeOK /\ run[q] \in Records /\ Fits(q) /\ execStep[q] \in Steps
  BY AtHand
<1>2. run'[q] = s
  BY <1>1, NeverRejected
<1>3. s \in Records /\ InOrder(s) /\ s.status # "absent"
  BY DEF Lawful
<1>4. \A j \in Steps : s.steps[j] # "stop_failed"
  BY <1>3, EndedHasNone DEF ActiveStepStatuses
<1>5. AgentsFit(s, agent[q])
  BY <1>1, <1>3, <1>4, InterruptFits DEF Fits
<1>6. \A pc : StopFits(run[q], agent[q], pc) => StopFits(s, agent[q], pc)
  BY <1>1, <1>3, InterruptStops
<1>7. LoopFits(s, agent[q], execPc'[q], execStep'[q], execReason'[q])
  BY FreeLocations
<1> QED BY <1>2, <1>3, <1>5, <1>6, <1>7, ExecKeeps

(* The reason the execution has kept is one it knows.                        *)
LEMMA KeptReason ==
    ASSUME IndInv, ProgressInv, NEW q \in Requests, execPc[q] \in Stopping
    PROVE  execReason[q] \in Reasons /\ run[q].status # "absent"
<1>1. execReason[q] \in ReasonOrNone /\ execReason[q] # "none"
  BY AtHand DEF Fits, LoopFits
<1>2. execPc[q] # "off"
  BY DEF Stopping
<1> QED BY <1>1, <1>2, AtHand DEF ReasonOrNone

(* finishTermination, called by the execution.                               *)
LEMMA ExecFinishKeeps ==
    ASSUME IndInv, ProgressInv, NEW q \in Requests,
           ExecCreateStop(q) \/ ExecAdmitStop(q) \/ ExecFinish(q)
    PROVE  ProgressInv' /\ RunsLawful
<1> DEFINE s == FinishTermination(run[q], execReason[q])
<1>1. TypeOK /\ run[q] \in Records /\ Fits(q)
  BY AtHand
<1>2. /\ execPc[q] \in Stopping /\ UpdateRun(q, s) /\ agent' = agent
      /\ execPc'[q] \in {"err", "done"}
  BY <1>1, GotoLands DEF ExecCreateStop, ExecAdmitStop, ExecFinish, Stopping
<1>3. Lawful(run[q], s) /\ Interrupts(run[q], s) /\ ~Active(s) /\ (s # run[q] => s.term # "none")
  BY <1>1, <1>2, KeptReason, FinishLawful DEF Fits
<1>4. ExecOutside(q) \/ ExecInside(q)
  BY Zenon DEF ExecOutside, ExecInside
<1> HIDE DEF s
<1> QED BY <1>2, <1>3, <1>4, EndingKeeps

(* completeStep's stop, which does not look whether the run has ended.       *)
LEMMA CompleteStopKeeps ==
    ASSUME IndInv, ProgressInv, NEW q \in Requests, ExecCompleteStop(q)
    PROVE  ProgressInv' /\ RunsLawful
<1> DEFINE s == TerminationRunUpdate(run[q], execReason[q], "complete")
<1>1. TypeOK /\ run[q] \in Records /\ Fits(q)
  BY AtHand
<1>2. /\ execPc[q] = "complete_stop" /\ UpdateRun(q, s) /\ agent' = agent
      /\ execPc'[q] = "done"
  BY <1>1, GotoLands DEF ExecCompleteStop
<1>3. execReason[q] \in Reasons /\ (Active(run[q]) \/ Terminal(run[q]))
  BY <1>1, <1>2, KeptReason DEF Stopping, Active, Terminal, Records
<1>4. Terminal(run[q]) => run[q].term # "none"
  BY <1>1, <1>2 DEF Fits, LoopFits
<1>5. Lawful(run[q], s) /\ Interrupts(run[q], s) /\ ~Active(s) /\ s.term # "none"
  <2>1. CASE Active(run[q])
    BY <1>1, <1>3, <2>1, TerminationLawful DEF Fits, Writers
  <2>2. CASE Terminal(run[q])
    BY <1>1, <1>3, <1>4, <2>2, TerminationRepeated DEF Fits, Writers
  <2> QED BY <1>3, <2>1, <2>2
<1> HIDE DEF s
<1> QED BY <1>2, <1>5, EndingKeeps, Zenon DEF ExecInside

(* beginFirstStep.                                                           *)
LEMMA BeginKeeps ==
    ASSUME IndInv, ProgressInv, NEW q \in Requests, ExecBegin(q)
    PROVE  ProgressInv' /\ RunsLawful
<1> DEFINE r == run[q]
           s == BeginFirstStep(run[q])
           a == agent[q]
<1>1. TypeOK /\ r \in Records /\ Fits(q) /\ 1 \in Steps
  BY AtHand DEF Steps
<1>2. /\ execPc[q] = "begin" /\ UpdateRun(q, s) /\ agent' = agent
      /\ execStep'[q] = 1 /\ UNCHANGED execReason
      /\ execPc'[q] = IF Rejected(q, s) THEN "want_fail"
                      ELSE IF Active(r) THEN "revalidate" ELSE "done"
  BY <1>1, GotoLands DEF ExecBegin, TypeOK
<1>3. r.status # "absent" /\ (Active(r) => r.status = "queued")
  BY <1>1, <1>2, AtHand DEF Fits, LoopFits
<1>4. /\ Lawful(r, s) /\ (Active(s) <=> Active(r)) /\ s.agents = r.agents
      /\ Active(r) => s.steps[1] = "creating" /\ ~s.agents[1]
      /\ \A j \in Steps : j # 1 \/ ~Active(r) => s.steps[j] = r.steps[j]
      /\ s # r => r.term = "none" /\ s.term = "none"
  BY <1>1, <1>3, BeginLawful DEF Fits
<1> HIDE DEF s
<1>5. CASE Rejected(q, s)
  <2>1. run'[q] = r /\ execPc'[q] = "want_fail"
    BY <1>1, <1>2, <1>5, UpdateLands
  <2>2. LoopFits(r, a, "want_fail", execStep'[q], execReason'[q])
    BY FreeLocations
  <2> QED BY <1>2, <2>1, <2>2, MoveKeeps, Zenon DEF ExecOutside
<1>6. CASE ~Rejected(q, s)
  <2>1. run'[q] = s /\ execPc'[q] = IF Active(r) THEN "revalidate" ELSE "done"
    BY <1>1, <1>2, <1>6, UpdateLands
  <2>2. AgentsFit(s, a)
    BY <1>1, <1>4 DEF Fits, AgentsFit
  <2>3. Active(r) => a[1] = "none"
    BY <1>1, <1>3 DEF Fits, AgentsFit, InOrder, ValidRun
  <2>4. LoopFits(s, a, execPc'[q], 1, execReason'[q])
    <3>1. CASE Active(r)
      BY <1>4, <2>1, <2>3, <3>1 DEF LoopFits, OnStep, Creating, Unprompted, Streaming,
       Completing, Stopping
    <3>2. CASE ~Active(r)
      BY <1>4, <2>1, <3>2, FreeLocations
    <3> QED BY <3>1, <3>2
  <2>5. \A pc : StopFits(r, a, pc) => StopFits(s, a, pc)
    BY <1>4, NoStopOnItsWay
  <2>6. InOrder(s) /\ execPc'[q] # "off"
    BY <1>4, <2>1 DEF Lawful
  <2>7. ExecOutside(q)
    BY Zenon DEF ExecOutside
  <2> QED BY <1>2, <1>4, <2>1, <2>2, <2>4, <2>5, <2>6, <2>7, ExecKeeps
<1> QED BY <1>5, <1>6

(* persistAgentCreated, on a step that may have been stopped meanwhile.      *)
LEMMA PersistKeeps ==
    ASSUME IndInv, ProgressInv, NEW q \in Requests, ExecPersistAgent(q)
    PROVE  ProgressInv' /\ RunsLawful
<1> DEFINE r == run[q]
           i == execStep[q]
           a == agent[q]
           s == PersistAgentCreated(run[q], execStep[q])
<1>1. /\ TypeOK /\ i \in Steps /\ r \in Records /\ Fits(q) /\ InOrder(r) /\ AgentsFit(r, a)
      /\ LoopFits(r, a, "persist_agent", i, execReason[q]) /\ r.status # "absent"
  BY AtHand DEF Fits, ExecPersistAgent
<1>2. /\ a[i] = "idle" /\ ~r.agents[i]
      /\ r.steps[i] \notin {"pending", "succeeded", "running", "waiting_for_permission"}
  BY <1>1 DEF LoopFits, OnStep, Creating, Unprompted, Streaming,
       Completing, Stopping
<1>3. Active(r) => r.steps[i] \in {"creating", "stopping"}
  <2>1. r.steps[i] # "stop_failed"
    BY <1>1, <1>2 DEF AgentsFit
  <2>2. Active(r) => IsActiveStep(r, i)
    BY <1>1, <1>2, FrontierActive
  <2> QED BY <1>2, <2>1, <2>2 DEF IsActiveStep, ActiveStepStatuses
<1>4. /\ Lawful(r, s) /\ (Active(s) <=> Active(r))
      /\ Active(r) => s.agents[i] /\ s.steps[i] \in {"running", "stopping"}
      /\ ~Active(r) => s = r
      /\ s.term = r.term
      /\ \A j \in Steps : /\ j # i => s.steps[j] = r.steps[j] /\ s.agents[j] = r.agents[j]
                          /\ r.agents[j] => s.agents[j]
  BY <1>1, <1>3, PersistLawful
<1>5. /\ UpdateRun(q, s) /\ agent' = agent /\ execStep' = execStep
      /\ execPc'[q] = IF Rejected(q, s) THEN "err" ELSE "created"
  BY <1>1, GotoLands DEF ExecPersistAgent
<1> HIDE DEF s
<1>6. CASE Rejected(q, s)
  <2>1. run'[q] = r /\ execPc'[q] = "err"
    BY <1>1, <1>5, <1>6, UpdateLands
  <2>2. LoopFits(r, a, "err", i, execReason'[q])
    BY FreeLocations
  <2> QED BY <1>5, <2>1, <2>2, MoveKeeps, Zenon DEF ExecInside
<1>7. CASE ~Rejected(q, s)
  <2>1. run'[q] = s /\ execPc'[q] = "created"
    BY <1>1, <1>5, <1>7, UpdateLands
  <2>2. AgentsFit(s, a)
    BY <1>1, <1>2, <1>4 DEF AgentsFit
  <2>3. s.steps[i] \notin {"pending", "succeeded", "creating", "waiting_for_permission"}
    <3>1. CASE Active(r)
      BY <1>4, <3>1
    <3>2. CASE ~Active(r)
      BY <1>1, <1>2, <1>4, <3>2, EndedHasNone DEF ActiveStepStatuses
    <3> QED BY <3>1, <3>2
  <2>4. LoopFits(s, a, "created", i, execReason'[q])
    BY <1>2, <1>4, <2>3 DEF LoopFits, OnStep, Creating, Unprompted, Streaming,
       Completing, Stopping
  <2>5. \A j \in Steps : IsActiveStep(s, j) => IsActiveStep(r, j)
    BY <1>3, <1>4 DEF IsActiveStep, ActiveStepStatuses
  <2>6. \A pc : StopFits(r, a, pc) => StopFits(s, a, pc)
    BY <1>4, <2>5 DEF StopFits
  <2>7. InOrder(s) /\ execPc'[q] # "off"
    BY <1>4, <2>1 DEF Lawful
  <2>8. ExecInside(q)
    BY Zenon DEF ExecInside
  <2> QED BY <1>4, <1>5, <2>1, <2>2, <2>4, <2>6, <2>7, <2>8, ExecKeeps
<1> QED BY <1>6, <1>7

(* persistPermissionState.                                                   *)
LEMMA PermissionKeeps ==
    ASSUME IndInv, ProgressInv, NEW q \in Requests, ExecPermWrite(q)
    PROVE  ProgressInv' /\ RunsLawful
<1> DEFINE r == run[q]
           i == execStep[q]
           a == agent[q]
           s == PermissionState(run[q], execStep[q], perm[q])
<1>1. /\ TypeOK /\ i \in Steps /\ r \in Records /\ Fits(q) /\ InOrder(r) /\ AgentsFit(r, a)
      /\ LoopFits(r, a, "perm_write", i, execReason[q]) /\ r.status # "absent"
      /\ perm[q] \in BOOLEAN
  BY AtHand DEF Fits, ExecPermWrite, TypeOK
<1>2. r.steps[i] \notin {"pending", "succeeded"} /\ (Active(r) => r.agents[i])
  BY <1>1 DEF LoopFits, OnStep, Creating, Unprompted, Streaming,
       Completing, Stopping
<1>3. Active(r) => IsActiveStep(r, i)
  BY <1>1, <1>2, FrontierActive
<1>4. /\ Lawful(r, s) /\ (Active(s) <=> Active(r)) /\ s.agents = r.agents
      /\ s.steps[i] = r.steps[i] \/ s.steps[i] \in {"running", "waiting_for_permission"}
      /\ \A j \in Steps : j # i \/ ~Active(r) => s.steps[j] = r.steps[j]
      /\ s.term = r.term /\ (s # r => s.term = "none")
  BY <1>1, <1>3, PermissionLawful
<1>5. /\ UpdateRun(q, s) /\ agent' = agent /\ execStep' = execStep
      /\ execPc'[q] = IF Rejected(q, s) THEN "err" ELSE "stream"
  BY <1>1, GotoLands DEF ExecPermWrite
<1> HIDE DEF s
<1>6. CASE Rejected(q, s)
  <2>1. run'[q] = r /\ execPc'[q] = "err"
    BY <1>1, <1>5, <1>6, UpdateLands
  <2>2. LoopFits(r, a, "err", i, execReason'[q])
    BY FreeLocations
  <2> QED BY <1>5, <2>1, <2>2, MoveKeeps, Zenon DEF ExecOutside
<1>7. CASE ~Rejected(q, s)
  <2>1. run'[q] = s /\ execPc'[q] = "stream"
    BY <1>1, <1>5, <1>7, UpdateLands
  <2>2. AgentsFit(s, a)
    BY <1>1, <1>4 DEF AgentsFit
  <2>3. LoopFits(s, a, "stream", i, execReason'[q])
    BY <1>2, <1>4 DEF LoopFits, OnStep, Creating, Unprompted, Streaming,
       Completing, Stopping
  <2>4. \A pc : StopFits(r, a, pc) => StopFits(s, a, pc)
    BY <1>4, NoStopOnItsWay
  <2>5. InOrder(s) /\ execPc'[q] # "off"
    BY <1>4, <2>1 DEF Lawful
  <2>6. ExecOutside(q)
    BY Zenon DEF ExecOutside
  <2> QED BY <1>4, <1>5, <2>1, <2>2, <2>3, <2>4, <2>5, <2>6, ExecKeeps
<1> QED BY <1>6, <1>7

(* An execution that finds its run ended, or asked to stop, as it writes.    *)
LEMMA LateEndKeeps ==
    ASSUME IndInv, ProgressInv, NEW q \in Requests, ExecOutside(q) \/ ExecInside(q),
           execPc'[q] = "done", agent' = agent, NEW writer \in Writers,
           \/ ~Active(run[q]) /\ UNCHANGED run
           \/ /\ Active(run[q]) /\ Asked(q)
              /\ UpdateRun(q, TerminationRunUpdate(run[q], RequestedReason(q), writer))
    PROVE  ProgressInv' /\ RunsLawful
<1> DEFINE s == TerminationRunUpdate(run[q], RequestedReason(q), writer)
<1>1. TypeOK /\ run[q] \in Records /\ Fits(q)
  BY AtHand
<1>2. CASE ~Active(run[q]) /\ UNCHANGED run
  BY <1>2, FreeLocations, MoveKeeps
<1>3. CASE Active(run[q]) /\ Asked(q) /\ UpdateRun(q, s)
  <2>1. RequestedReason(q) \in Reasons
    BY <1>1, <1>3, ReasonTypes DEF Asked, ReasonOrNone, Reasons
  <2>2. Lawful(run[q], s) /\ Interrupts(run[q], s) /\ ~Active(s) /\ s.term # "none"
    BY <1>1, <1>3, <2>1, TerminationLawful DEF Fits
  <2> HIDE DEF s
  <2> QED BY <1>3, <2>2, EndingKeeps
<1> QED BY <1>2, <1>3

(* completeStep's update: the step has succeeded, and the next one begins or *)
(* the run has.                                                              *)
LEMMA CompleteWriteKeeps ==
    ASSUME IndInv, ProgressInv, NEW q \in Requests, ExecCompleteWrite(q)
    PROVE  ProgressInv' /\ RunsLawful
<1> DEFINE r == run[q]
           i == execStep[q]
           a == agent[q]
           s == StepSucceeded(run[q], execStep[q])
<1>1. /\ TypeOK /\ i \in Steps /\ r \in Records /\ Fits(q) /\ InOrder(r) /\ AgentsFit(r, a)
      /\ LoopFits(r, a, "complete_write", i, execReason[q])
  BY AtHand DEF Fits, ExecCompleteWrite
<1>2. /\ r.steps[i] \notin {"pending", "succeeded"} /\ (Active(r) => r.agents[i])
      /\ a[i] = "completed"
  BY <1>1 DEF LoopFits, OnStep, Creating, Unprompted, Streaming,
       Completing, Stopping
<1>3. CASE ~(Active(r) /\ ~Asked(q))
  <2>1. /\ execPc'[q] = "done" /\ agent' = agent
        /\ \/ ~Active(r) /\ UNCHANGED run
           \/ /\ Active(r) /\ Asked(q)
              /\ UpdateRun(q, TerminationRunUpdate(r, RequestedReason(q), "complete"))
    BY <1>1, <1>3, GotoLands DEF ExecCompleteWrite
  <2>2. ExecInside(q) /\ "complete" \in Writers
    BY Zenon DEF ExecInside, Writers
  <2> HIDE DEF r
  <2> QED BY <2>1, <2>2, LateEndKeeps DEF r
<1>4. CASE Active(r) /\ ~Asked(q)
  <2>1. ActiveForm(r, i) /\ r.agents[i] /\ r.term = "none" /\ ~expired[q]
    BY <1>1, <1>2, <1>4, FrontierActive, NotAsked
  <2>2. /\ UpdateRun(q, s) /\ agent' = agent
        /\ execPc'[q] = IF LastStep(i) THEN "done" ELSE "loop"
        /\ execStep'[q] = IF LastStep(i) THEN i ELSE i + 1
    BY <1>1, <1>4, GotoLands DEF ExecCompleteWrite, TypeOK
  <2>3. run'[q] = s
    BY <1>1, <2>1, <2>2, UpdateLands DEF Rejected
  <2>4. \A t : \A pc : StopFits(r, a, pc) => StopFits(t, a, pc)
    BY <2>1, NoStopOnItsWay
  <2>5. ExecInside(q)
    BY Zenon DEF ExecInside
  <2>6. CASE LastStep(i)
    <3>1. /\ Lawful(r, s) /\ ~Active(s)
          /\ s.steps[i] = "succeeded" /\ \A j \in Steps : j # i => s.steps[j] = r.steps[j]
      BY <1>1, <2>1, <2>6, LastStepLawful
    <3> HIDE DEF s
    <3>2. AgentsFit(s, a)
      BY <1>1, <1>2, <3>1 DEF AgentsFit
    <3>3. LoopFits(s, a, "done", execStep'[q], execReason'[q]) /\ InOrder(s)
      BY <3>1, FreeLocations DEF Lawful
    <3> QED BY <2>2, <2>3, <2>4, <2>5, <2>6, <3>1, <3>2, <3>3, ExecKeeps
  <2>7. CASE ~LastStep(i)
    <3>1. /\ i + 1 \in Steps /\ Lawful(r, s)
          /\ s.steps[i] = "succeeded" /\ s.steps[i + 1] = "creating" /\ ~s.agents[i + 1]
          /\ r.steps[i + 1] = "pending"
          /\ \A j \in Steps : j # i /\ j # i + 1 => s.steps[j] = r.steps[j]
      BY <1>1, <2>1, <2>7, NextStepLawful
    <3>2. PICK n \in Steps : n = i + 1
      BY <3>1
    <3> HIDE DEF s
    <3>3. AgentsFit(s, a) /\ a[n] = "none"
      BY <1>1, <1>2, <3>1, <3>2 DEF AgentsFit
    <3>4. LoopFits(s, a, "loop", n, execReason'[q]) /\ InOrder(s)
      BY <3>1, <3>2, <3>3 DEF LoopFits, OnStep, Creating, Unprompted, Streaming,
         Completing, Stopping, Lawful
    <3>5. execStep'[q] = n /\ execPc'[q] = "loop"
      BY <2>2, <2>7, <3>2
    <3> QED BY <2>2, <2>3, <2>4, <2>5, <3>1, <3>3, <3>4, <3>5, ExecKeeps
  <2> QED BY <2>6, <2>7
<1> QED BY <1>3, <1>4

(* failRun.                                                                  *)
LEMMA FailKeeps ==
    ASSUME IndInv, ProgressInv, NEW q \in Requests, ExecFail(q)
    PROVE  ProgressInv' /\ RunsLawful
<1> DEFINE r == run[q]
           a == agent[q]
           s == Failed(run[q])
<1>1. TypeOK /\ r \in Records /\ Fits(q) /\ InOrder(r) /\ AgentsFit(r, a)
  BY AtHand DEF Fits
<1>2. ExecInside(q) /\ "fail" \in Writers
  BY Zenon DEF ExecInside, Writers
<1>3. execPc'[q] = "done" /\ agent' = agent
  BY <1>1, GotoLands DEF ExecFail
<1>4. CASE ~(Active(r) /\ ~Asked(q))
  <2>1. \/ ~Active(r) /\ UNCHANGED run
        \/ /\ Active(r) /\ Asked(q)
           /\ UpdateRun(q, TerminationRunUpdate(r, RequestedReason(q), "fail"))
    BY <1>4, Zenon DEF ExecFail
  <2> HIDE DEF r
  <2> QED BY <1>2, <1>3, <2>1, LateEndKeeps DEF r
<1>5. CASE Active(r) /\ ~Asked(q)
  <2>1. UpdateRun(q, s) /\ r.term = "none" /\ ~expired[q]
    BY <1>1, <1>5, NotAsked DEF ExecFail
  <2>2. /\ Lawful(r, s) /\ ~Active(s)
        /\ \A j \in Steps : s.steps[j] = r.steps[j] \/ s.steps[j] = "failed"
    BY <1>1, <1>5, <2>1, FailedLawful
  <2> HIDE DEF s
  <2>3. run'[q] = s
    BY <1>1, <2>1, UpdateLands DEF Rejected
  <2>4. AgentsFit(s, a)
    BY <1>1, <2>2 DEF AgentsFit
  <2>5. LoopFits(s, a, "done", execStep'[q], execReason'[q]) /\ InOrder(s)
    BY <2>2, FreeLocations DEF Lawful
  <2>6. \A pc : StopFits(r, a, pc) => StopFits(s, a, pc)
    BY <2>1, NoStopOnItsWay
  <2> QED BY <1>2, <1>3, <2>2, <2>3, <2>4, <2>5, <2>6, ExecKeeps
<1> QED BY <1>4, <1>5

(* Every step of the execution.                                              *)
LEMMA ExecStepKeeps ==
    ASSUME IndInv, ProgressInv, NEW q \in Requests, ExecOutside(q) \/ ExecInside(q)
    PROVE  ProgressInv' /\ RunsLawful
<1>1. CASE ExecOutside(q)
  BY <1>1, QueueKeeps, OutsideMoves, BeginKeeps, PermissionKeeps, ExecFinishKeeps, Zenon
     DEF ExecOutside
<1>2. CASE ExecInside(q)
  BY <1>2, InsideMoves, ExecFinishKeeps, CreateAgentKeeps, PersistKeeps, AdmitKeeps,
     CompleteStopKeeps, CompleteWriteKeeps, FailKeeps, Zenon DEF ExecInside
<1> QED BY <1>1, <1>2

-----------------------------------------------------------------------------
(* Every step                                                                *)

(* Every step keeps the invariant, and changes the records by one admission  *)
(* or by one lawful update.                                                  *)
LEMMA ProgressStep ==
    ASSUME IndInv, ProgressInv, [Next]_vars
    PROVE  ProgressInv' /\ (RunsLawful \/ \E q \in Requests : Admits(q))
<1>1. CASE UNCHANGED vars
  <2>1. UNCHANGED <<run, agent, mode, execPc, execStep, execReason, stop, accepting, startPc>>
    BY <1>1 DEF vars, world, memory, exec, callers
  <2> QED BY <2>1, QuietKeeps, StillRecovering
<1>2. CASE Next
  BY <1>2, NextCases, StartKeeps, CancelKeeps, DeadlineKeeps, ExecStepKeeps, SettleKeeps,
     StopKeeps, ArchiveKeeps, ShutdownKeeps, RestartKeeps, RecoverKeeps, Zenon
<1> QED BY <1>1, <1>2

(* An agent changes because its turn settles, because it is created, or      *)
(* because it is prompted.                                                   *)
LEMMA AgentChanges ==
    ASSUME IndInv, [Next]_vars, NEW q \in Requests, NEW i \in Steps,
           agent'[q][i] # agent[q][i]
    PROVE  \/ agent[q][i] = "streaming" /\ agent'[q][i] \in SettledTurns
           \/ ExecCreateAgent(q) /\ i = execStep[q] /\ agent'[q][i] = "idle"
           \/ ExecAdmit(q) /\ i = execStep[q] /\ Active(run[q]) /\ ~Asked(q)
<1>1. TypeOK /\ agent \in [Requests -> [Steps -> AgentStates]]
  BY DEF IndInv, TypeOK
<1>2. agent' # agent
  OBVIOUS
<1>3. ASSUME NEW p \in Requests, NEW j \in Steps, AgentSettle(p, j)
      PROVE  agent[q][i] = "streaming" /\ agent'[q][i] \in SettledTurns
  BY <1>1, <1>3 DEF AgentSettle
<1>4. ASSUME NEW p \in Requests, NEW k \in StopKinds, StopSteps(k, p)
      PROVE  agent[q][i] = "streaming" /\ agent'[q][i] \in SettledTurns
  <2>1. StopCancelSettled(k, p)
    BY <1>2, <1>4 DEF StopSteps, StopUpdate, StopCancelRefused, StopRecordRefusal, StopWait,
       world
  <2> QED BY <1>1, <2>1 DEF StopCancelSettled, SettledTurns
<1>5. CASE Restart
  BY <1>5 DEF Restart, SettledTurns
<1>6. ASSUME NEW p \in Requests, ExecOutside(p) PROVE FALSE
  BY <1>2, <1>6, Zenon DEF ExecOutside, ExecEnqueue, ExecStandAside, ExecBoot, ExecBegin, ExecLoop,
     ExecRevalidate, ExecCreated, ExecPermission, ExecPermCheck, ExecPermStopped,
     ExecPermWrite, ExecTurnEnded, ExecError, ExecFinish, ExecDone, ExecClear, world
<1>7. ASSUME NEW p \in Requests, ExecInside(p)
      PROVE  \/ ExecCreateAgent(q) /\ i = execStep[q] /\ agent'[q][i] = "idle"
             \/ ExecAdmit(q) /\ i = execStep[q] /\ Active(run[q]) /\ ~Asked(q)
  <2>1. ExecCreateAgent(p) \/ ExecAdmit(p)
    BY <1>2, <1>7, Zenon DEF ExecInside, ExecCreateCheck, ExecCreateStop, ExecCreateAgentFails,
       ExecPersistAgent, ExecAdmitStop, ExecCompleteCheck, ExecCompleteStop,
       ExecCompleteWrite, ExecFail, world
  <2>2. CASE ExecCreateAgent(p)
    <3>1. agent' = [agent EXCEPT ![p][execStep[p]] = "idle"]
      BY <2>2 DEF ExecCreateAgent
    <3>2. p = q /\ i = execStep[q] /\ agent'[q][i] = "idle"
      BY <1>1, <3>1
    <3> QED BY <2>2, <3>2
  <2>3. CASE ExecAdmit(p)
    <3>1. /\ agent' = [agent EXCEPT ![p][execStep[p]] = "streaming"]
          /\ Active(run[p]) /\ ~Asked(p)
      BY <1>2, <2>3, Zenon DEF ExecAdmit
    <3>2. p = q /\ i = execStep[q]
      BY <1>1, <3>1
    <3> QED BY <2>3, <3>1, <3>2
  <2> QED BY <2>1, <2>2, <2>3
<1>8. ASSUME NEW p \in Requests,
             \/ StartCall(p) \/ StartSteps(p) \/ CancelCall(p) \/ CancelSteps(p)
             \/ ClockReachesDeadline(p) \/ DeadlineSteps(p)
      PROVE  FALSE
  <2>1. ~(StartCall(p) \/ StartSteps(p))
    BY <1>2, Zenon DEF StartCall, StartSteps, StartEnqueue, StartStandAside, StartAdmission,
       StartCheck, StartCreate, world
  <2>2. ~(CancelCall(p) \/ CancelSteps(p))
    BY <1>2, Zenon DEF CancelCall, CancelSteps, CancelEnqueue, CancelStandAside, CancelRequest,
       CancelStopped, CancelSettled, world
  <2>3. ~(ClockReachesDeadline(p) \/ DeadlineSteps(p))
    BY <1>2, Zenon DEF ClockReachesDeadline, DeadlineSteps, DeadlineFire, DeadlineStopped,
       DeadlineFinish, world
  <2> QED BY <1>8, <2>1, <2>2, <2>3
<1>9. ASSUME NEW w \in Workspaces, ArchiveStart(w) \/ ArchiveSteps(w) PROVE FALSE
  BY <1>2, <1>9, Zenon DEF ArchiveSteps, ArchiveStart, ArchiveCommit, ArchiveFail, ArchiveNotify,
     ArchiveStopped, ArchiveFinish, ArchiveUnfenced, ArchiveDetached, world
<1>10. ~(ShutdownCall \/ ShutdownSteps \/ RecoverSteps)
  BY <1>2, Zenon DEF ShutdownCall, ShutdownSteps, ShutdownFence, ShutdownStop, ShutdownSettled,
     ShutdownFinish, ShutdownRelease, RecoverSteps, RecoverExpired, RecoverInterrupted,
     RecoverDone, world
<1>11. Next
  BY <1>2 DEF vars, world
<1> QED BY <1>3, <1>4, <1>5, <1>6, <1>7, <1>8, <1>9, <1>10, <1>11, NextCases, Zenon

-----------------------------------------------------------------------------
(* Theorems *)

(* In every reachable state the record, the agents, the execution and the    *)
(* stops of every run belong together.  It is inductive with IndInv: that an *)
(* update finds a record is what lets it keep that record in order.          *)
THEOREM ProgressInvariant == Spec => []ProgressInv
<1>1. IndInv /\ ProgressInv /\ [Next]_vars => ProgressInv'
  BY ProgressStep
<1> QED BY <1>1, InitProgress, InductiveInvariant, PTL DEF Spec

(* Every record on disk is one the schema accepts, with the run and its      *)
(* active step at the same checkpoint, whatever handlers raced to write it:  *)
(* updateRun never throws on the service's own update.                       *)
THEOREM EveryRecordIsValid == Spec => []RecordsValid
<1>1. ProgressInv => RecordsValid
  BY DEF ProgressInv, Fits, InOrder, RecordsValid
<1> QED BY <1>1, ProgressInvariant, PTL

(* An ended run shows the outcome of the reason on record; without one it    *)
(* succeeded or failed, so a run that was asked to stop never ends as        *)
(* succeeded and a canceled one always says why.                             *)
THEOREM OutcomeIsExplained == Spec => []OutcomeMatchesTermination
<1>1. ASSUME IndInv, ProgressInv, NEW q \in Requests, Terminal(run[q])
      PROVE  IF run[q].term = "none" THEN run[q].status \in {"succeeded", "failed"}
             ELSE run[q].status = TerminalStatusByReason[run[q].term]
  <2>1. InOrder(run[q])
    BY <1>1 DEF ProgressInv, Fits
  <2> QED BY <1>1, <2>1 DEF InOrder, ValidRun, Terminal, TerminalRunStatuses
<1>2. IndInv /\ ProgressInv => OutcomeMatchesTermination
  BY <1>1 DEF OutcomeMatchesTermination
<1> QED BY <1>2, InductiveInvariant, ProgressInvariant, PTL

(* No active run is left without an execution: launchExecution's finally     *)
(* block is reached only once the run has ended.                             *)
THEOREM NoRunIsAbandoned == Spec => []NoAbandonedRun
<1>1. ProgressInv => NoAbandonedRun
  BY DEF ProgressInv, Fits, LoopFits, NoAbandonedRun, Executing
<1> QED BY <1>1, ProgressInvariant, PTL

(* The outcome of an ended run is final.  The one updater that does not look *)
(* whether the run has ended, completeStep's, finds the reason on record and *)
(* writes the outcome that is there.                                         *)
THEOREM OutcomeIsFinal == Spec => OutcomeFinal
<1>1. ASSUME IndInv, ProgressInv, [Next]_vars, NEW q \in Requests, Terminal(run[q])
      PROVE  Outcome(run'[q]) = Outcome(run[q])
  <2>1. CASE RunsLawful
    BY <1>1, <2>1 DEF RunsLawful, StepLawful, Lawful
  <2>2. ASSUME NEW p \in Requests, Admits(p) PROVE run'[q] = run[q]
    <3>1. q # p
      BY <1>1, <2>2 DEF Admits, Existing, Terminal, TerminalRunStatuses
    <3> QED BY <1>1, <2>2, <3>1 DEF Admits, IndInv, TypeOK
  <2> QED BY <1>1, <2>1, <2>2, ProgressStep
<1>2. IndInv /\ ProgressInv /\ [Next]_vars =>
         [\A q \in Requests : Terminal(run[q]) => Outcome(run'[q]) = Outcome(run[q])]_vars
  BY <1>1
<1> QED BY <1>2, InductiveInvariant, ProgressInvariant, PTL DEF Spec, OutcomeFinal

(* A step gets its agent after every earlier step has succeeded, and once:   *)
(* no restart, retry or late stop replays a step.                            *)
THEOREM AgentsAreInOrder == Spec => AgentsInOrder
<1>1. ASSUME IndInv, ProgressInv, [Next]_vars, NEW q \in Requests, NEW i \in Steps,
             agent[q][i] = "none", agent'[q][i] # "none", NEW j \in 1..(i - 1)
      PROVE  agent[q][j] = "completed" /\ run[q].steps[j] = "succeeded"
  <2>1. ExecCreateAgent(q) /\ i = execStep[q]
    <3>1. ~ExecAdmit(q) \/ i # execStep[q]
      BY <1>1, AtHand DEF ExecAdmit, Fits, LoopFits, Unprompted
    <3> QED BY <1>1, <3>1, AgentChanges
  <2>2. run[q] \in Records /\ Fits(q) /\ run[q].steps[i] \notin {"pending", "succeeded"}
    BY <1>1, <2>1, AtHand DEF ExecCreateAgent, Fits, LoopFits, OnStep, Creating
  <2>3. Around(run[q], i)
    BY <2>2, Frontier DEF Fits, InOrder, ValidRun
  <2>4. j \in Steps /\ j < i
    BY DEF Steps
  <2>5. run[q].steps[j] = "succeeded"
    BY <2>3, <2>4 DEF Around
  <2> QED BY <2>2, <2>4, <2>5 DEF Fits, AgentsFit
<1>2. IndInv /\ ProgressInv /\ [Next]_vars =>
         [\A q \in Requests, i \in Steps :
            agent[q][i] = "none" /\ agent'[q][i] # "none" =>
               \A j \in 1..(i - 1) : agent[q][j] = "completed" /\ run[q].steps[j] = "succeeded"]_vars
  BY <1>1
<1> QED BY <1>2, InductiveInvariant, ProgressInvariant, PTL DEF Spec, AgentsInOrder

(* A prompt is sent only to the idle agent of the step the record shows      *)
(* running, of a run without a stop on record or requested, ahead of its     *)
(* deadline: stopBeforeStreamAdmission looks inside the workspace operation, *)
(* and what it found before the operation still holds of the step.           *)
THEOREM PromptsAreAdmittedSafely == Spec => PromptAdmittedSafely
<1>1. ASSUME IndInv, ProgressInv, [Next]_vars, NEW q \in Requests, NEW i \in Steps,
             agent'[q][i] = "streaming", agent[q][i] # "streaming"
      PROVE  /\ agent[q][i] = "idle"
             /\ run[q].status = "running" /\ run[q].steps[i] = "running"
             /\ run[q].term = "none" /\ termReq[q] = "none"
             /\ ~expired[q]
  <2>1. ExecAdmit(q) /\ i = execStep[q] /\ Active(run[q]) /\ ~Asked(q)
    BY <1>1, AgentChanges
  <2>2. TypeOK /\ run[q] \in Records /\ Fits(q)
    BY <1>1, AtHand
  <2>3. /\ agent[q][i] = "idle"
        /\ run[q].steps[i] \notin {"pending", "succeeded", "creating", "waiting_for_permission"}
    BY <2>1, <2>2 DEF ExecAdmit, Fits, LoopFits, OnStep, Unprompted
  <2>4. run[q].term = "none" /\ termReq[q] = "none" /\ ~expired[q]
    BY <2>1, <2>2, NotAsked
  <2>5. ActiveForm(run[q], i)
    BY <2>1, <2>2, <2>3, FrontierActive DEF Fits
  <2> QED BY <2>3, <2>4, <2>5 DEF ActiveForm, ActiveStepStatuses
<1>2. IndInv /\ ProgressInv /\ [Next]_vars =>
         [\A q \in Requests, i \in Steps :
            agent'[q][i] = "streaming" /\ agent[q][i] # "streaming" =>
               /\ agent[q][i] = "idle"
               /\ run[q].status = "running" /\ run[q].steps[i] = "running"
               /\ run[q].term = "none" /\ termReq[q] = "none"
               /\ ~expired[q]]_vars
  BY <1>1
<1> QED BY <1>2, InductiveInvariant, ProgressInvariant, PTL DEF Spec, PromptAdmittedSafely

-----------------------------------------------------------------------------
(* Open turns                                                                *)

(* An open turn is read by the execution of its run, and the run is active.  *)
TurnRead(q, i) ==
    /\ execStep[q] = i /\ execPc[q] \in Streaming
    /\ shutPc = "up" => Active(run[q])

(* No deadline has passed and none is armed.                                 *)
NoDeadline(q) == ~expired[q] /\ dlPc[q] = "off"

TurnInv ==
    \A q \in Requests : /\ NoDeadline(q)
                        /\ \A i \in Steps : agent[q][i] = "streaming" => TurnRead(q, i)

(* A run without an unattended policy never gets a deadline.                 *)
LEMMA DeadlinesStayOff ==
    ASSUME IndInv, Unattended = {}, \A q \in Requests : NoDeadline(q), [Next]_vars,
           NEW q \in Requests
    PROVE  NoDeadline(q)'
<1> USE DEF NoDeadline
<1>1. TypeOK
  BY DEF IndInv
<1>2. ASSUME NEW p \in Requests, StartCall(p) \/ StartSteps(p) PROVE NoDeadline(q)'
  <2>1. CASE StartCreate(p)
    BY <1>1, <2>1 DEF StartCreate, TypeOK
  <2>2. CASE ~StartCreate(p)
    BY <1>2, <2>2 DEF StartCall, StartSteps, StartEnqueue, StartStandAside, StartAdmission,
       StartCheck, world
  <2> QED BY <2>1, <2>2
<1>3. ASSUME NEW p \in Requests, CancelCall(p) \/ CancelSteps(p) PROVE NoDeadline(q)'
  BY <1>3 DEF CancelCall, CancelSteps, CancelEnqueue, CancelStandAside, CancelRequest,
     CancelStopped, CancelSettled, world
<1>4. ASSUME NEW p \in Requests,
             ClockReachesDeadline(p) \/ DeadlineSteps(p) \/ RecoverExpired(p)
      PROVE  FALSE
  BY <1>4 DEF ClockReachesDeadline, DeadlineSteps, DeadlineFire, DeadlineStopped,
     DeadlineFinish, RecoverExpired
<1>5. ASSUME NEW p \in Requests, ExecOutside(p) PROVE NoDeadline(q)'
  <2>1. CASE ExecClear(p)
    BY <1>1, <2>1 DEF ExecClear, world, TypeOK
  <2>2. CASE ~ExecClear(p)
    BY <1>5, <2>2 DEF ExecOutside, ExecEnqueue, ExecStandAside, ExecBoot, ExecBegin, ExecLoop,
       ExecRevalidate, ExecCreated, ExecPermission, ExecPermCheck, ExecPermStopped,
       ExecPermWrite, ExecTurnEnded, ExecError, ExecFinish, ExecDone, world, callers
  <2> QED BY <2>1, <2>2
<1>6. ASSUME NEW p \in Requests, ExecInside(p) PROVE NoDeadline(q)'
  BY <1>6 DEF ExecInside, ExecCreateCheck, ExecCreateStop, ExecCreateAgent,
     ExecCreateAgentFails, ExecPersistAgent, ExecAdmit, ExecAdmitStop, ExecCompleteCheck,
     ExecCompleteStop, ExecCompleteWrite, ExecFail, world, callers
<1>7. ASSUME NEW p \in Requests, NEW k \in StopKinds, StopSteps(k, p) PROVE NoDeadline(q)'
  BY <1>7 DEF StopSteps, StopUpdate, StopCancelSettled, StopCancelRefused, StopRecordRefusal,
     StopWait, world
<1>8. ASSUME NEW w \in Workspaces, ArchiveStart(w) \/ ArchiveSteps(w) PROVE NoDeadline(q)'
  BY <1>8 DEF ArchiveStart, ArchiveSteps, ArchiveCommit, ArchiveFail, ArchiveNotify,
     ArchiveStopped, ArchiveFinish, ArchiveUnfenced, ArchiveDetached, world, callers
<1>9. CASE ShutdownCall \/ ShutdownSteps
  BY <1>9 DEF ShutdownCall, ShutdownSteps, ShutdownFence, ShutdownStop, ShutdownSettled,
     ShutdownFinish, ShutdownRelease, world, callers
<1>10. CASE Restart
  BY <1>10 DEF Restart
<1>11. CASE RecoverSteps
  BY <1>4, <1>11 DEF RecoverSteps, RecoverInterrupted, RecoverDone, world, callers
<1>12. ASSUME NEW p \in Requests, NEW i \in Steps, AgentSettle(p, i) PROVE NoDeadline(q)'
  BY <1>12 DEF AgentSettle, callers
<1>13. CASE UNCHANGED vars
  BY <1>13 DEF vars, world, callers
<1>14. CASE Next
  BY <1>2, <1>3, <1>4, <1>5, <1>6, <1>7, <1>8, <1>9, <1>10, <1>11, <1>12, <1>14, NextCases,
     Zenon
<1> QED BY <1>13, <1>14

(* While its turn is open, an execution only serves the stream: a permission *)
(* request or a stop.                                                        *)
LEMMA StreamSurvives ==
    ASSUME IndInv, ProgressInv, NEW q \in Requests, ExecOutside(q) \/ ExecInside(q),
           ~expired[q], NEW i \in Steps, agent[q][i] = "streaming", TurnRead(q, i)
    PROVE  TurnRead(q, i)'
<1>1. /\ TypeOK /\ Fits(q) /\ run[q] \in Records /\ run[q].status # "absent"
      /\ execStep[q] = i /\ execPc[q] \in Streaming
  BY AtHand DEF TurnRead, Streaming
<1>2. ~ExecInside(q)
  BY <1>1 DEF Streaming, ExecInside, ExecCreateCheck, ExecCreateStop, ExecCreateAgent,
     ExecCreateAgentFails, ExecPersistAgent, ExecAdmit, ExecAdmitStop, ExecCompleteCheck,
     ExecCompleteStop, ExecCompleteWrite, ExecFail
<1>3. \/ ExecPermission(q) \/ ExecPermCheck(q) \/ ExecPermStopped(q) \/ ExecPermWrite(q)
  BY <1>1, <1>2, LockLocations
     DEF Streaming, ExecOutside, ExecEnqueue, ExecStandAside, ExecBoot, ExecBegin, ExecLoop,
         ExecRevalidate, ExecCreated, ExecTurnEnded, TurnSucceeded, ExecError, ExecFinish, ExecDone,
         ExecClear, WantPcs
<1>4. CASE ExecPermWrite(q)
  <2> DEFINE s == PermissionState(run[q], execStep[q], perm[q])
  <2>1. /\ run[q].steps[i] \notin {"pending", "succeeded"} /\ execPc[q] = "perm_write"
        /\ perm[q] \in BOOLEAN /\ InOrder(run[q])
    BY <1>1, <1>4 DEF Fits, LoopFits, OnStep, Streaming, ExecPermWrite, TypeOK
  <2>2. (Active(s) <=> Active(run[q])) /\ ~Rejected(q, s)
    <3>1. Active(run[q]) => IsActiveStep(run[q], i)
      BY <1>1, <2>1, FrontierActive
    <3> QED BY <1>1, <2>1, <3>1, PermissionLawful DEF Rejected
  <2>3. UpdateRun(q, s) /\ UNCHANGED <<execStep, shutPc>> /\ execPc'[q] = "stream"
    BY <1>1, <1>4, <2>2, GotoLands DEF ExecPermWrite, callers
  <2>4. run'[q] = s
    BY <1>1, <2>2, <2>3, UpdateLands
  <2> HIDE DEF s
  <2> QED BY <2>2, <2>3, <2>4 DEF TurnRead, Streaming
<1>5. CASE ExecPermission(q) \/ ExecPermCheck(q) \/ ExecPermStopped(q)
  <2>1. UNCHANGED <<run, execStep, shutPc>> /\ execPc'[q] \in Streaming
    BY <1>1, <1>5, GotoLands DEF ExecPermission, ExecPermCheck, ExecPermStopped, world, callers,
       Streaming
  <2> QED BY <2>1 DEF TurnRead
<1> QED BY <1>3, <1>4, <1>5

(* A stop leaves a run with an open turn active: the agent must settle first.*)
LEMMA StopSurvives ==
    ASSUME IndInv, ProgressInv, NEW p \in Requests, NEW k \in StopKinds, StopSteps(k, p),
           NEW q \in Requests, NEW i \in Steps, TurnRead(q, i)
    PROVE  TurnRead(q, i)'
<1>1. /\ TypeOK /\ Fits(q) /\ run[q] \in Records
      /\ execStep[q] = i /\ execPc[q] \in Streaming
  BY AtHand DEF TurnRead
<1>2. UNCHANGED <<execStep, execPc, shutPc>>
  BY DEF StopSteps, StopUpdate, StopCancelSettled, StopCancelRefused, StopRecordRefusal,
     StopWait, exec
<1>3. ASSUME Active(run[q]) PROVE Active(run'[q])
  <2>1. IsActiveStep(run[q], i) /\ InOrder(run[q])
    BY <1>1, <1>3, FrontierActive DEF Fits, LoopFits, OnStep
  <2>2. CASE UNCHANGED run
    BY <1>3, <2>2
  <2>3. CASE StopUpdate(k, p)
    <3> DEFINE s == Stop(run[p], OrCancel(RequestedReason(p)))
    <3>1. run' = [run EXCEPT ![p] = IF Rejected(p, s) THEN run[p] ELSE s]
      BY <2>3 DEF StopUpdate, UpdateRun
    <3>2. p = q => Active(s)
      <4>1. ~Terminal(run[q]) /\ HasActiveStep(run[q])
        BY <1>3, <2>1 DEF HasActiveStep, Active, Terminal, ActiveRunStatuses, TerminalRunStatuses
      <4>2. p = q => s = run[q] \/ s.status = "stopping"
        BY <1>1, <4>1 DEF Stop, Records
      <4> QED BY <1>3, <4>2 DEF Active, ActiveRunStatuses
    <3> HIDE DEF s
    <3> QED BY <1>1, <1>3, <3>1, <3>2 DEF TypeOK
  <2>4. CASE StopRecordRefusal(k, p)
    <3> DEFINE s == StopRefused(run[p])
    <3>1. run' = [run EXCEPT ![p] = IF Rejected(p, s) THEN run[p] ELSE s]
      BY <2>4 DEF StopRecordRefusal, UpdateRun
    <3>2. p = q => Active(s)
      <4>1. p = q => s = run[q] \/ s.status = "stop_failed"
        BY <1>1 DEF StopRefused, Records
      <4> QED BY <1>3, <4>1 DEF Active, ActiveRunStatuses
    <3> HIDE DEF s
    <3> QED BY <1>1, <1>3, <3>1, <3>2 DEF TypeOK
  <2> QED BY <2>2, <2>3, <2>4 DEF StopSteps, StopCancelSettled, StopCancelRefused, StopWait, world
<1> QED BY <1>2, <1>3 DEF TurnRead

(* So an open turn that stays open goes on being read.                       *)
LEMMA TurnSurvives ==
    ASSUME IndInv, ProgressInv, TurnInv, [Next]_vars, NEW q \in Requests, NEW i \in Steps,
           agent[q][i] = "streaming", agent'[q][i] = "streaming"
    PROVE  TurnRead(q, i)'
<1>1. /\ TypeOK /\ TurnRead(q, i) /\ execPc[q] \in Streaming /\ ~expired[q]
      /\ run[q].status # "absent" /\ mode # "recovering"
  BY AtHand DEF TurnInv, TurnRead, NoDeadline, Streaming
<1>2. ASSUME UNCHANGED <<execStep, execPc>>, run'[q] = run[q], shutPc' = "up" => shutPc = "up"
      PROVE  TurnRead(q, i)'
  BY <1>1, <1>2 DEF TurnRead
<1>3. ASSUME NEW p \in Requests, StartCall(p) \/ StartSteps(p) PROVE TurnRead(q, i)'
  <2>1. shutPc' = shutPc /\ execStep' = execStep
    BY <1>3 DEF StartCall, StartSteps, StartEnqueue, StartStandAside, StartAdmission, StartCheck,
       StartCreate, exec
  <2>2. CASE StartCreate(p) /\ ~Existing(p)
    <3>1. p # q
      BY <1>1, <2>2 DEF Existing
    <3>2. run'[q] = run[q] /\ execPc'[q] = execPc[q]
      BY <1>1, <2>2, <3>1 DEF StartCreate, TypeOK
    <3> QED BY <1>1, <2>1, <3>2 DEF TurnRead
  <2>3. CASE ~(StartCreate(p) /\ ~Existing(p))
    <3>1. UNCHANGED <<run, execPc>>
      BY <1>3, <2>3 DEF StartCall, StartSteps, StartEnqueue, StartStandAside, StartAdmission,
         StartCheck, StartCreate, world, exec
    <3> QED BY <1>2, <2>1, <3>1
  <2> QED BY <2>2, <2>3
<1>4. ASSUME NEW p \in Requests, CancelCall(p) \/ CancelSteps(p) PROVE TurnRead(q, i)'
  <2>1. UNCHANGED <<execStep, execPc, shutPc>>
    BY <1>4 DEF CancelCall, CancelSteps, CancelEnqueue, CancelStandAside, CancelRequest,
       CancelStopped, CancelSettled, exec
  <2>2. CASE CancelSettled(p)
    <3>1. p # q
      BY <1>1, <2>2 DEF CancelSettled, Executing, Streaming
    <3>2. run'[q] = run[q]
      BY <1>1, <2>2, <3>1 DEF CancelSettled, UpdateRun, TypeOK
    <3> QED BY <1>2, <2>1, <3>2
  <2>3. CASE ~CancelSettled(p)
    <3>1. UNCHANGED run
      BY <1>4, <2>3 DEF CancelCall, CancelSteps, CancelEnqueue, CancelStandAside, CancelRequest,
         CancelStopped, world
    <3> QED BY <1>2, <2>1, <3>1
  <2> QED BY <2>2, <2>3
<1>5. ASSUME NEW p \in Requests,
             ClockReachesDeadline(p) \/ DeadlineSteps(p) \/ RecoverSteps
      PROVE  TurnRead(q, i)'
  <2>1. ~DeadlineSteps(p) /\ ~RecoverSteps
    BY <1>1, <1>5 DEF TurnInv, NoDeadline, DeadlineSteps, DeadlineFire, DeadlineStopped,
       DeadlineFinish, RecoverSteps, RecoverExpired, RecoverInterrupted, RecoverDone
  <2> QED BY <1>2, <1>5, <2>1 DEF ClockReachesDeadline, exec, callers
<1>6. ASSUME NEW p \in Requests, ExecOutside(p) \/ ExecInside(p) PROVE TurnRead(q, i)'
  <2>1. CASE p = q
    BY <1>1, <1>6, <2>1, StreamSurvives
  <2>2. CASE p # q
    <3>1. Apart(q)
      BY <1>6, <2>2, ExecApart
    <3>2. shutPc' = shutPc
      BY <1>6 DEF ExecOutside, ExecEnqueue, ExecStandAside, ExecBoot, ExecBegin, ExecLoop,
         ExecRevalidate, ExecCreated, ExecPermission, ExecPermCheck, ExecPermStopped,
         ExecPermWrite, ExecTurnEnded, ExecError, ExecFinish, ExecDone, ExecClear,
         ExecInside, ExecCreateCheck, ExecCreateStop, ExecCreateAgent,
         ExecCreateAgentFails, ExecPersistAgent, ExecAdmit, ExecAdmitStop, ExecCompleteCheck,
         ExecCompleteStop, ExecCompleteWrite, ExecFail, callers
    <3> QED BY <1>1, <3>1, <3>2 DEF Apart, TurnRead
  <2> QED BY <2>1, <2>2
<1>7. ASSUME NEW p \in Requests, NEW k \in StopKinds, StopSteps(k, p) PROVE TurnRead(q, i)'
  BY <1>1, <1>7, StopSurvives
<1>8. ASSUME NEW w \in Workspaces, ArchiveStart(w) \/ ArchiveSteps(w) PROVE TurnRead(q, i)'
  <2>1. UNCHANGED <<run, execStep, execPc, shutPc>>
    BY <1>8 DEF ArchiveStart, ArchiveSteps, ArchiveCommit, ArchiveFail, ArchiveNotify,
       ArchiveStopped, ArchiveFinish, ArchiveUnfenced, ArchiveDetached, world, exec, callers
  <2> QED BY <1>2, <2>1
<1>9. CASE ShutdownCall \/ ShutdownSteps
  <2>1. UNCHANGED <<execStep, execPc>> /\ shutPc' # "up"
    BY <1>9 DEF ShutdownCall, ShutdownSteps, ShutdownFence, ShutdownStop, ShutdownSettled,
       ShutdownFinish, ShutdownRelease, exec, callers
  <2> QED BY <1>1, <2>1 DEF TurnRead
<1>10. CASE Restart
  BY <1>10 DEF Restart
<1>11. ASSUME NEW p \in Requests, NEW j \in Steps, AgentSettle(p, j) PROVE TurnRead(q, i)'
  BY <1>2, <1>11 DEF AgentSettle, exec, callers
<1>12. CASE UNCHANGED vars
  BY <1>2, <1>12 DEF vars, world, exec, callers
<1>13. CASE Next
  BY <1>3, <1>4, <1>5, <1>6, <1>7, <1>8, <1>9, <1>10, <1>11, <1>13, NextCases, Zenon
<1> QED BY <1>12, <1>13

(* A service without unattended runs leaves no agent working for a run that  *)
(* ended or whose execution turned away: until shutdown, an open turn        *)
(* belongs to an active run whose execution is reading that turn.  A write   *)
(* refused past a deadline is the one way out of the stream that leaves the  *)
(* turn open.                                                                *)
THEOREM NoTurnIsOrphaned == ASSUME Unattended = {} PROVE Spec => []NoOrphanTurn
<1>1. Init => TurnInv
  BY DEF Init, TurnInv, NoDeadline
<1>2. ASSUME IndInv, ProgressInv, TurnInv, [Next]_vars PROVE TurnInv'
  <2>1. ASSUME NEW q \in Requests PROVE NoDeadline(q)'
    BY <1>2, DeadlinesStayOff DEF TurnInv
  <2>2. ASSUME NEW q \in Requests, NEW i \in Steps, agent'[q][i] = "streaming"
        PROVE  TurnRead(q, i)'
    <3>1. CASE agent[q][i] = "streaming"
      BY <1>2, <2>2, <3>1, TurnSurvives
    <3>2. CASE agent[q][i] # "streaming"
      <4>1. ExecAdmit(q) /\ i = execStep[q] /\ Active(run[q]) /\ ~Asked(q)
        BY <1>2, <2>2, <3>2, AgentChanges DEF SettledTurns
      <4>2. /\ UNCHANGED <<run, execStep>> /\ execPc'[q] = "stream"
        BY <1>2, <4>1, AtHand, GotoLands DEF ExecAdmit
      <4> QED BY <4>1, <4>2 DEF TurnRead, Streaming
    <3> QED BY <3>1, <3>2
  <2> QED BY <2>1, <2>2 DEF TurnInv
<1>3. TurnInv => NoOrphanTurn
  BY DEF TurnInv, TurnRead, Streaming, NoOrphanTurn
<1> QED BY <1>1, <1>2, <1>3, InductiveInvariant, ProgressInvariant, PTL DEF Spec

-----------------------------------------------------------------------------
(* Archived workspaces                                                       *)

(* The archive of w from its commit on: the fence asks the run to stop until *)
(* the reason is on its record, and the listener stops the one run there is. *)
Boundary(w) ==
    /\ archPc[w] # "unfenced"
    /\ archPc[w] \in {"notify", "stopping", "finish"} => archived[w] /\ fence[w] = "committed"
    /\ archived[w] /\ mode = "up" /\ archPc[w] \notin {"notify", "stopping"} =>
          \A q \in ActiveRunIn(w) : run[q].term # "none"
    /\ archPc[w] = "stopping" =>
          \A q \in ActiveRunIn(w) : run[q].term # "none" \/ stop[<<"archive", q>>] = "update"
    /\ \A q \in Requests : WorkspaceOf[q] = w /\ stop[<<"archive", q>>] # "idle" =>
          /\ archPc[w] = "stopping"
          /\ \A p \in Requests : WorkspaceOf[p] = w /\ stop[<<"archive", p>>] # "idle" => p = q

(* Past their checks, an admission and a creation have a workspace that is   *)
(* not archived: they hold its operation.                                    *)
Unarchived(q) ==
    execPc[q] = "create_agent" \/ startPc[q] = "create" => ~archived[WorkspaceOf[q]]

ArchiveInv ==
    /\ shutPc = "up"
    /\ \A w \in Workspaces : Boundary(w)
    /\ \A q \in Requests : Unarchived(q)

(* A service that nobody shuts down stays up.                                *)
LEMMA StaysUp ==
    ASSUME ~WithShutdown, shutPc = "up", [Next]_vars
    PROVE  shutPc' = "up" /\ ~ShutdownCall /\ ~ShutdownSteps
<1>1. ~ShutdownCall /\ ~ShutdownSteps
  BY DEF ShutdownCall, ShutdownSteps, ShutdownFence, ShutdownStop, ShutdownSettled,
     ShutdownFinish, ShutdownRelease
<1>2. ASSUME NEW q \in Requests,
             \/ StartCall(q) \/ StartSteps(q) \/ CancelCall(q) \/ CancelSteps(q)
             \/ ClockReachesDeadline(q) \/ DeadlineSteps(q)
      PROVE  shutPc' = shutPc
  BY <1>2 DEF StartCall, StartSteps, StartEnqueue, StartStandAside, StartAdmission, StartCheck,
     StartCreate, CancelCall, CancelSteps, CancelEnqueue, CancelStandAside, CancelRequest,
     CancelStopped, CancelSettled, ClockReachesDeadline, DeadlineSteps, DeadlineFire,
     DeadlineStopped, DeadlineFinish, callers
<1>3. ASSUME NEW q \in Requests, ExecOutside(q) \/ ExecInside(q) PROVE shutPc' = shutPc
  BY <1>3 DEF ExecOutside, ExecEnqueue, ExecStandAside, ExecBoot, ExecBegin, ExecLoop,
     ExecRevalidate, ExecCreated, ExecPermission, ExecPermCheck, ExecPermStopped,
     ExecPermWrite, ExecTurnEnded, ExecError, ExecFinish, ExecDone, ExecClear,
     ExecInside, ExecCreateCheck, ExecCreateStop, ExecCreateAgent,
     ExecCreateAgentFails, ExecPersistAgent, ExecAdmit, ExecAdmitStop, ExecCompleteCheck,
     ExecCompleteStop, ExecCompleteWrite, ExecFail, callers
<1>4. ASSUME NEW q \in Requests, NEW k \in StopKinds, StopSteps(k, q) PROVE shutPc' = shutPc
  BY <1>4 DEF StopSteps, StopUpdate, StopCancelSettled, StopCancelRefused, StopRecordRefusal,
     StopWait
<1>5. ASSUME NEW q \in Requests, NEW i \in Steps, AgentSettle(q, i) PROVE shutPc' = shutPc
  BY <1>5 DEF AgentSettle, callers
<1>6. ASSUME NEW w \in Workspaces, ArchiveStart(w) \/ ArchiveSteps(w) PROVE shutPc' = shutPc
  BY <1>6 DEF ArchiveStart, ArchiveSteps, ArchiveCommit, ArchiveFail, ArchiveNotify,
     ArchiveStopped, ArchiveFinish, ArchiveUnfenced, ArchiveDetached, callers
<1>7. Restart => shutPc' = "up"
  BY DEF Restart
<1>8. RecoverSteps => shutPc' = shutPc
  BY DEF RecoverSteps, RecoverExpired, RecoverInterrupted, RecoverDone, callers
<1>9. UNCHANGED vars => shutPc' = shutPc
  BY DEF vars, callers
<1> QED BY <1>1, <1>2, <1>3, <1>4, <1>5, <1>6, <1>7, <1>8, <1>9, NextCases, Zenon

(* A committed fence is a reason to stop.                                    *)
LEMMA FenceAsks ==
    ASSUME TypeOK, NEW q \in Requests, ~Asked(q)
    PROVE  fence[WorkspaceOf[q]] # "committed"
<1>1. termReq[q] \in ReasonOrNone
  BY DEF TypeOK
<1> QED BY <1>1 DEF Asked, RequestedReason, ReasonOrNone, Reasons

(* So a run nobody asked to stop is in a workspace that is not archived.     *)
LEMMA WorkspaceLive ==
    ASSUME IndInv, ProgressInv, ArchiveInv, NEW q \in Requests,
           execPc[q] # "off", Active(run[q]), ~Asked(q)
    PROVE  ~archived[WorkspaceOf[q]]
<1> DEFINE w == WorkspaceOf[q]
<1>1. TypeOK /\ mode = "up"
  BY AtHand DEF TypeOK
<1>2. w \in Workspaces /\ q \in ActiveRunIn(w)
  BY ConfigAssumption DEF ActiveRunIn
<1>3. run[q].term = "none" /\ fence[w] # "committed"
  BY <1>1, NotAsked, FenceAsks
<1>4. Boundary(w)
  BY <1>2 DEF ArchiveInv
<1> HIDE DEF w
<1>5. ~archived[w]
  BY <1>1, <1>2, <1>3, <1>4 DEF Boundary
<1> QED BY <1>5 DEF w

(* Only createRun brings a run to life, and where it does the workspace is   *)
(* not archived.                                                             *)
LEMMA RunsFade ==
    ASSUME IndInv, ArchiveInv, [Next]_vars, NEW q \in Requests, archived[WorkspaceOf[q]],
           Active(run'[q])
    PROVE  Active(run[q]) /\ (run[q].term # "none" => run'[q].term # "none")
<1>1. ASSUME NEW p \in Requests, StartCreate(p), ~RunsOnward
      PROVE  run'[q] = run[q]
  <2>1. ~archived[WorkspaceOf[p]]
    BY <1>1 DEF StartCreate, ArchiveInv, Unarchived
  <2>2. p # q
    BY <2>1
  <2> QED BY <1>1, <2>2 DEF StartCreate, IndInv, TypeOK
<1>2. ASSUME NEW p \in Requests, StartCall(p) \/ StartSteps(p), ~StartCreate(p) PROVE RunsOnward
  BY <1>2, SameRuns, Zenon DEF StartCall, StartSteps, StartEnqueue, StartStandAside,
     StartAdmission, StartCheck, world
<1>3. UNCHANGED vars => RunsOnward
  BY SameRuns DEF vars, world
<1>4. RecoverSteps => RunsOnward
  BY DeadlineOnward, RecoverOnward, ShutdownOnward, Zenon DEF RecoverSteps
<1>5. RunsOnward \/ \E p \in Requests : StartCreate(p)
  BY <1>2, <1>3, <1>4, NextCases, CancelOnward, DeadlineOnward, ExecOnward, SettleOnward,
     StopOnward, ArchiveOnward, ShutdownOnward, Zenon
<1>6. CASE RunsOnward
  BY <1>6 DEF RunsOnward, Onward
<1>7. CASE ~RunsOnward
  BY <1>1, <1>5, <1>7
<1> QED BY <1>6, <1>7

(* A step that leaves the archive of w alone and only lets its stop progress *)
(* keeps what the archive counts on.                                         *)
LEMMA BoundaryKept ==
    ASSUME IndInv, ArchiveInv, [Next]_vars, NEW w \in Workspaces,
           archPc'[w] = archPc[w], archived'[w] = archived[w], fence'[w] = fence[w],
           mode' = mode,
           \A q \in Requests : WorkspaceOf[q] = w =>
              \/ stop'[<<"archive", q>>] = stop[<<"archive", q>>]
              \/ /\ stop[<<"archive", q>>] # "idle"
                 /\ stop[<<"archive", q>>] = "update" /\ Active(run'[q]) => run'[q].term # "none"
    PROVE  Boundary(w)'
<1>1. Boundary(w)
  BY DEF ArchiveInv
<1>2. \A q \in Requests : WorkspaceOf[q] = w /\ archived[w] /\ Active(run'[q]) =>
          Active(run[q]) /\ (run[q].term # "none" => run'[q].term # "none")
  BY RunsFade
<1>3. archived[w] => \A q \in ActiveRunIn(w)' :
          q \in ActiveRunIn(w) /\ (run[q].term # "none" => run'[q].term # "none")
  BY <1>2 DEF ActiveRunIn
<1>4. ActiveRunIn(w)' = {q \in Requests : WorkspaceOf[q] = w /\ Active(run'[q])}
  BY DEF ActiveRunIn
<1>5. archived[w] /\ mode = "up" /\ archPc[w] \notin {"notify", "stopping"} =>
          \A q \in ActiveRunIn(w)' : run'[q].term # "none"
  BY <1>1, <1>3 DEF Boundary
<1>6. archPc[w] = "stopping" =>
          \A q \in ActiveRunIn(w)' : run'[q].term # "none" \/ stop'[<<"archive", q>>] = "update"
  BY <1>1, <1>3, <1>4 DEF Boundary
<1>7. \A q \in Requests :
          WorkspaceOf[q] = w /\ stop'[<<"archive", q>>] # "idle" => stop[<<"archive", q>>] # "idle"
  OBVIOUS
<1> QED BY <1>1, <1>5, <1>6, <1>7 DEF Boundary

(* The stop the archive waits for writes the reason before anything else.    *)
LEMMA ArchiveStopProgress ==
    ASSUME IndInv, ProgressInv, NEW p \in Requests, NEW k \in StopKinds, StopSteps(k, p),
           NEW q \in Requests
    PROVE  \/ stop'[<<"archive", q>>] = stop[<<"archive", q>>]
           \/ /\ stop[<<"archive", q>>] # "idle"
              /\ stop[<<"archive", q>>] = "update" /\ Active(run'[q]) => run'[q].term # "none"
<1>1. TypeOK /\ run[p] \in Records /\ Fits(p)
  BY AtHand
<1>2. \A x \in StopKinds \X Requests : x # <<k, p>> => stop'[x] = stop[x]
  BY <1>1 DEF StopSteps, StopUpdate, StopCancelSettled, StopCancelRefused, StopRecordRefusal,
     StopWait, TypeOK
<1>3. CASE <<k, p>> # <<"archive", q>>
  BY <1>2, <1>3 DEF StopKinds
<1>4. CASE <<k, p>> = <<"archive", q>> /\ StopUpdate(k, p)
  <2> DEFINE s == Stop(run[p], OrCancel(RequestedReason(p)))
  <2>1. stop[<<k, p>>] # "idle"
    BY <1>4 DEF StopUpdate
  <2>2. run[p].status # "absent"
    BY <2>1, BusyRunExists DEF HandlersIdle
  <2>3. (s # run[p] => s.term # "none") /\ (Active(s) => s.term # "none")
    BY <1>1, <2>2, ReasonTypes, StopLawful DEF Fits, Reasons
  <2>4. UpdateRun(p, s)
    BY <1>4 DEF StopUpdate
  <2> HIDE DEF s
  <2>5. run'[p] = s
    BY <1>1, <2>3, <2>4, NeverRejected
  <2> QED BY <1>4, <2>1, <2>3, <2>5
<1>5. CASE <<k, p>> = <<"archive", q>> /\ ~StopUpdate(k, p)
  BY <1>5 DEF StopSteps, StopCancelSettled, StopCancelRefused, StopRecordRefusal, StopWait
<1> QED BY <1>3, <1>4, <1>5

(* The archive of another workspace.                                         *)
LEMMA ArchiveElsewhere ==
    ASSUME IndInv, ArchiveInv, [Next]_vars, NEW v \in Workspaces,
           ArchiveStart(v) \/ ArchiveSteps(v), NEW w \in Workspaces, w # v
    PROVE  Boundary(w)'
<1>1. TypeOK /\ archPc[v] # "unfenced"
  BY DEF ArchiveInv, Boundary, IndInv
<1>2. mode' = mode /\ archPc'[w] = archPc[w] /\ fence'[w] = fence[w] /\ archived'[w] = archived[w]
  <2>1. CASE ArchiveStart(v)
    BY <1>1, <2>1 DEF ArchiveStart, world, TypeOK
  <2>2. CASE ArchiveCommit(v) \/ ArchiveFail(v) \/ ArchiveFinish(v)
    BY <1>1, <2>2 DEF ArchiveCommit, ArchiveFail, ArchiveFinish, world, TypeOK
  <2>3. CASE ArchiveNotify(v)
    BY <1>1, <2>3 DEF ArchiveNotify, world, TypeOK
  <2>4. CASE ArchiveStopped(v) \/ ArchiveDetached(v)
    BY <1>1, <2>4 DEF ArchiveStopped, ArchiveDetached, world, memory, callers, TypeOK
  <2> QED BY <1>1, <2>1, <2>2, <2>3, <2>4 DEF ArchiveSteps, ArchiveUnfenced
<1>3. ASSUME NEW q \in Requests, WorkspaceOf[q] = w
      PROVE  stop'[<<"archive", q>>] = stop[<<"archive", q>>]
  <2>1. CASE ArchiveNotify(v)
    <3>1. UNCHANGED stop \/ \E p \in ActiveRunIn(v) : StopCall("archive", p)
      BY <2>1, Zenon DEF ArchiveNotify
    <3>2. \A p \in ActiveRunIn(v) : p \in Requests /\ p # q
      BY <1>3 DEF ActiveRunIn
    <3> QED BY <1>1, <3>1, <3>2 DEF StopCall, TypeOK, StopKinds
  <2>2. CASE ArchiveStopped(v)
    BY <1>1, <1>3, <2>2 DEF ArchiveStopped, StopDone, TypeOK
  <2>3. CASE ~ArchiveNotify(v) /\ ~ArchiveStopped(v)
    BY <2>3 DEF ArchiveStart, ArchiveSteps, ArchiveCommit, ArchiveFail, ArchiveFinish,
       ArchiveUnfenced, ArchiveDetached, callers
  <2> QED BY <2>1, <2>2, <2>3
<1> QED BY <1>2, <1>3, BoundaryKept

(* The archive of w: its commit fences, its notice stops the run, and it     *)
(* lifts the fence once the stop is on record.                               *)
LEMMA ArchiveHere ==
    ASSUME IndInv, ProgressInv, ArchiveInv, OneActiveRunPerWorkspace, [Next]_vars,
           NEW w \in Workspaces, ArchiveStart(w) \/ ArchiveSteps(w)
    PROVE  Boundary(w)'
<1>1. TypeOK /\ Boundary(w) /\ shutPc = "up"
  BY DEF ArchiveInv, IndInv
<1>2. CASE ArchiveStart(w)
  <2>1. /\ archPc'[w] = "lock" /\ archPc[w] = "idle" /\ ~archived[w]
        /\ UNCHANGED <<archived, stop>>
    BY <1>1, <1>2 DEF ArchiveStart, TypeOK, world
  <2> QED BY <1>1, <2>1 DEF Boundary
<1>3. CASE ArchiveCommit(w)
  <2>1. /\ archPc'[w] = "notify" /\ archPc[w] = "lock" /\ archived'[w] /\ fence'[w] = "committed"
        /\ UNCHANGED stop
    BY <1>1, <1>3 DEF ArchiveCommit, TypeOK
  <2> QED BY <1>1, <2>1 DEF Boundary
<1>4. CASE ArchiveFail(w)
  <2>1. /\ archPc'[w] = "idle" /\ archPc[w] = "lock"
        /\ UNCHANGED <<run, archived, mode, stop>>
    BY <1>1, <1>4 DEF ArchiveFail, TypeOK, world
  <2>2. ActiveRunIn(w)' = ActiveRunIn(w)
    BY <2>1 DEF ActiveRunIn
  <2> QED BY <1>1, <2>1, <2>2 DEF Boundary
<1>5. CASE ArchiveNotify(w)
  <2>1. /\ archPc[w] = "notify" /\ archived[w] /\ fence[w] = "committed"
        /\ UNCHANGED <<run, archived, fence, mode>>
        /\ \A q \in Requests : WorkspaceOf[q] = w => stop[<<"archive", q>>] = "idle"
    BY <1>1, <1>5 DEF ArchiveNotify, Boundary, world
  <2>2. ActiveRunIn(w)' = ActiveRunIn(w)
    BY <2>1 DEF ActiveRunIn
  <2>3. CASE ActiveRunIn(w) = {}
    <3>1. archPc'[w] = "finish" /\ UNCHANGED stop
      BY <1>1, <1>5, <2>3 DEF ArchiveNotify, TypeOK
    <3> QED BY <2>1, <2>2, <2>3, <3>1 DEF Boundary
  <2>4. CASE ActiveRunIn(w) # {}
    <3>1. PICK q \in ActiveRunIn(w) : StopCall("archive", q) /\ archPc'[w] = "stopping"
      BY <1>1, <1>5, <2>4 DEF ArchiveNotify, TypeOK
    <3>2. q \in Requests /\ \A p \in ActiveRunIn(w) : p = q
      BY <3>1 DEF ActiveRunIn, OneActiveRunPerWorkspace
    <3>3. /\ stop'[<<"archive", q>>] = "update"
          /\ \A p \in Requests \ {q} : stop'[<<"archive", p>>] = stop[<<"archive", p>>]
      BY <1>1, <3>1, <3>2 DEF StopCall, TypeOK, StopKinds
    <3> QED BY <2>1, <2>2, <3>1, <3>2, <3>3 DEF Boundary
  <2> QED BY <2>3, <2>4
<1>6. CASE ArchiveStopped(w)
  <2>1. /\ archPc[w] = "stopping" /\ archPc'[w] = "finish"
        /\ UNCHANGED <<run, archived, fence, mode>>
    BY <1>1, <1>6 DEF ArchiveStopped, TypeOK, world, memory
  <2>2. ActiveRunIn(w)' = ActiveRunIn(w)
    BY <2>1 DEF ActiveRunIn
  <2>3. PICK q \in Requests : /\ WorkspaceOf[q] = w /\ StopDone("archive", q)
                              /\ stop[<<"archive", q>>] \in StopResults
    BY <1>6 DEF ArchiveStopped, StopReturned
  <2>4. \A p \in Requests : WorkspaceOf[p] = w /\ p # q => stop[<<"archive", p>>] = "idle"
    BY <1>1, <2>3 DEF Boundary, StopResults
  <2>5. /\ stop'[<<"archive", q>>] = "idle"
        /\ \A p \in Requests \ {q} : stop'[<<"archive", p>>] = stop[<<"archive", p>>]
    BY <1>1, <2>3 DEF StopDone, TypeOK, StopKinds
  <2>6. \A p \in ActiveRunIn(w) : run[p].term # "none"
    BY <1>1, <2>1, <2>3, <2>4 DEF Boundary, ActiveRunIn, StopResults
  <2> QED BY <1>1, <2>1, <2>2, <2>4, <2>5, <2>6 DEF Boundary
<1>7. CASE ArchiveFinish(w)
  <2>1. /\ archPc[w] = "finish" /\ archPc'[w] = "idle" /\ UNCHANGED <<run, archived, mode, stop>>
    BY <1>1, <1>7 DEF ArchiveFinish, TypeOK, world
  <2>2. ActiveRunIn(w)' = ActiveRunIn(w)
    BY <2>1 DEF ActiveRunIn
  <2> QED BY <1>1, <2>1, <2>2 DEF Boundary
<1>8. CASE ArchiveDetached(w)
  <2>1. UNCHANGED <<archPc, archived, fence, mode, stop>>
    BY <1>8 DEF ArchiveDetached, world, callers
  <2> QED BY <2>1, BoundaryKept
<1>9. ~ArchiveUnfenced(w)
  BY <1>1 DEF ArchiveUnfenced, Boundary
<1> QED BY <1>2, <1>3, <1>4, <1>5, <1>6, <1>7, <1>8, <1>9 DEF ArchiveSteps

(* A handler other than an archive leaves the archive and its stop alone.    *)
LEMMA HandlerBoundary ==
    ASSUME IndInv, ArchiveInv, [Next]_vars, NEW w \in Workspaces, NEW p \in Requests,
           \/ StartCall(p) \/ StartSteps(p) \/ CancelCall(p) \/ CancelSteps(p)
           \/ ClockReachesDeadline(p) \/ DeadlineSteps(p) \/ ExecOutside(p) \/ ExecInside(p)
           \/ RecoverExpired(p) \/ RecoverInterrupted(p) \/ \E i \in Steps : AgentSettle(p, i)
    PROVE  Boundary(w)' /\ archived' = archived
<1>1. TypeOK
  BY DEF IndInv
<1>2. UNCHANGED <<archPc, archived, fence, mode>>
  <2>1. CASE StartCall(p) \/ StartSteps(p)
    BY <2>1, Zenon DEF StartCall, StartSteps, StartEnqueue, StartStandAside, StartAdmission,
       StartCheck, StartCreate, world, memory
  <2>2. CASE CancelCall(p) \/ CancelSteps(p)
    BY <2>2, Zenon DEF CancelCall, CancelSteps, CancelEnqueue, CancelStandAside, CancelRequest,
       CancelStopped, CancelSettled, world, memory
  <2>3. CASE \/ ClockReachesDeadline(p) \/ DeadlineSteps(p)
             \/ RecoverExpired(p) \/ RecoverInterrupted(p)
    BY <2>3, Zenon DEF ClockReachesDeadline, DeadlineSteps, DeadlineFire, DeadlineStopped,
       DeadlineFinish, RecoverExpired, RecoverInterrupted, world, memory, callers
  <2>4. CASE ExecOutside(p)
    BY <2>4, Zenon DEF ExecOutside, ExecEnqueue, ExecStandAside, ExecBoot, ExecBegin, ExecLoop,
       ExecRevalidate, ExecCreated, ExecPermission, ExecPermCheck, ExecPermStopped,
       ExecPermWrite, ExecTurnEnded, ExecError, ExecFinish, ExecDone, ExecClear,
       world, memory, callers
  <2>5. CASE ExecInside(p)
    BY <2>5, Zenon DEF ExecInside, ExecCreateCheck, ExecCreateStop, ExecCreateAgent,
       ExecCreateAgentFails, ExecPersistAgent, ExecAdmit, ExecAdmitStop, ExecCompleteCheck,
       ExecCompleteStop, ExecCompleteWrite, ExecFail, world, memory, callers
  <2>6. CASE \E i \in Steps : AgentSettle(p, i)
    BY <2>6, Zenon DEF AgentSettle, memory, callers
  <2> QED BY <2>1, <2>2, <2>3, <2>4, <2>5, <2>6
<1>3. \/ UNCHANGED stop
      \/ \E k \in StopKinds \ {"archive"} : StopCall(k, p) \/ StopDone(k, p)
  <2> USE DEF StopKinds
  <2>1. CASE StartCall(p) \/ StartSteps(p)
    BY <2>1, Zenon DEF StartCall, StartSteps, StartEnqueue, StartStandAside, StartAdmission,
       StartCheck, StartCreate
  <2>2. CASE CancelCall(p) \/ CancelSteps(p)
    BY <2>2, "cancel" \in StopKinds \ {"archive"}, Zenon
       DEF CancelCall, CancelSteps, CancelEnqueue, CancelStandAside, CancelRequest,
       CancelStopped, CancelSettled
  <2>3. CASE \/ ClockReachesDeadline(p) \/ DeadlineSteps(p)
             \/ RecoverExpired(p) \/ RecoverInterrupted(p)
    BY <2>3, "deadline" \in StopKinds \ {"archive"}, Zenon
       DEF ClockReachesDeadline, DeadlineSteps, DeadlineFire, DeadlineCall, DeadlineStopped,
       DeadlineFinish, RecoverExpired, RecoverInterrupted, callers
  <2>4. CASE ExecOutside(p)
    BY <2>4, "exec" \in StopKinds \ {"archive"}, Zenon
       DEF ExecOutside, ExecEnqueue, ExecStandAside, ExecBoot, ExecBegin, ExecLoop,
       ExecRevalidate, ExecCreated, ExecPermission, ExecPermCheck, ExecPermStopped,
       ExecPermWrite, ExecTurnEnded, ExecError, ExecFinish, ExecDone, ExecClear, callers
  <2>5. CASE ExecInside(p)
    BY <2>5, Zenon DEF ExecInside, ExecCreateCheck, ExecCreateStop, ExecCreateAgent,
       ExecCreateAgentFails, ExecPersistAgent, ExecAdmit, ExecAdmitStop, ExecCompleteCheck,
       ExecCompleteStop, ExecCompleteWrite, ExecFail, callers
  <2>6. CASE \E i \in Steps : AgentSettle(p, i)
    BY <2>6, Zenon DEF AgentSettle, callers
  <2> QED BY <2>1, <2>2, <2>3, <2>4, <2>5, <2>6
<1>4. \A q \in Requests : stop'[<<"archive", q>>] = stop[<<"archive", q>>]
  <2> SUFFICES ASSUME NEW q \in Requests
               PROVE  stop'[<<"archive", q>>] = stop[<<"archive", q>>]
    OBVIOUS
  <2>1. ASSUME NEW k \in StopKinds \ {"archive"}, StopCall(k, p) \/ StopDone(k, p)
        PROVE  stop'[<<"archive", q>>] = stop[<<"archive", q>>]
    <3>1. <<k, p>> # <<"archive", q>> /\ <<"archive", q>> \in StopKinds \X Requests
      BY <2>1 DEF StopKinds
    <3> QED BY <1>1, <2>1, <3>1 DEF StopCall, StopDone, TypeOK
  <2> QED BY <1>3, <2>1
<1> QED BY <1>2, <1>4, BoundaryKept

(* Every step keeps what archives count on.                                  *)
LEMMA BoundaryStep ==
    ASSUME IndInv, ProgressInv, ArchiveInv, OneActiveRunPerWorkspace, ~WithShutdown,
           [Next]_vars, NEW w \in Workspaces
    PROVE  Boundary(w)'
<1>1. ~ShutdownCall /\ ~ShutdownSteps
  BY StaysUp DEF ArchiveInv
<1>2. ASSUME NEW p \in Requests, NEW k \in StopKinds, StopSteps(k, p) PROVE Boundary(w)'
  <2>1. UNCHANGED <<archPc, archived, fence, mode>>
    BY <1>2, Zenon DEF StopSteps, StopUpdate, StopCancelSettled, StopCancelRefused,
       StopRecordRefusal, StopWait, world, memory
  <2> QED BY <1>2, <2>1, ArchiveStopProgress, BoundaryKept
<1>3. CASE Restart
  <2>1. \A q \in Requests : <<"archive", q>> \in StopKinds \X Requests
    BY DEF StopKinds
  <2>2. /\ archPc'[w] = "idle" /\ mode' = "recovering"
        /\ \A q \in Requests : stop'[<<"archive", q>>] = "idle"
    BY <1>3, <2>1 DEF Restart
  <2> QED BY <2>2 DEF Boundary
<1>4. CASE RecoverDone
  <2>1. UNCHANGED <<run, archPc, archived, fence, stop>>
    BY <1>4 DEF RecoverDone, world, callers
  <2>2. ActiveRunIn(w)' = {}
    BY <1>4, <2>1 DEF RecoverDone, ActiveRunIn
  <2>3. Boundary(w)
    BY DEF ArchiveInv
  <2> QED BY <2>1, <2>2, <2>3 DEF Boundary
<1>5. ASSUME NEW v \in Workspaces, ArchiveStart(v) \/ ArchiveSteps(v) PROVE Boundary(w)'
  BY <1>5, ArchiveHere, ArchiveElsewhere
<1>6. CASE UNCHANGED vars
  <2>1. UNCHANGED <<archPc, archived, fence, mode, stop>>
    BY <1>6 DEF vars, world, memory, callers
  <2> QED BY <2>1, BoundaryKept
<1>7. CASE RecoverSteps
  BY <1>4, <1>7, HandlerBoundary, Zenon DEF RecoverSteps
<1>8. CASE Next
  BY <1>1, <1>2, <1>3, <1>5, <1>7, <1>8, NextCases, HandlerBoundary, ZenonT(60)
<1> QED BY <1>6, <1>8

(* The archive commits at the head of the queue, hence never while another   *)
(* handler is past its check.                                                *)
LEMMA UnarchivedStep ==
    ASSUME IndInv, ProgressInv, ArchiveInv, ~WithShutdown, [Next]_vars, NEW q \in Requests
    PROVE  Unarchived(q)'
<1> DEFINE w == WorkspaceOf[q]
<1>1. TypeOK /\ Unarchived(q) /\ w \in Workspaces /\ ~ShutdownCall /\ ~ShutdownSteps
  BY ConfigAssumption, StaysUp DEF IndInv, ArchiveInv
<1>2. ASSUME ArchiveCommit(w)
      PROVE  Unarchived(q)'
  <2>1. UNCHANGED <<execPc, startPc>>
    BY <1>2 DEF ArchiveCommit, exec
  <2>2. execPc[q] # "create_agent" /\ startPc[q] # "create"
    <3>1. Head(wsQ[w]) = <<"archive", w>>
      BY <1>2 DEF ArchiveCommit, Holds
    <3>2. /\ InStart(q) => Head(wsQ[w]) = <<"start", q>>
          /\ InExec(q) => Head(wsQ[w]) = <<"exec", q>>
      BY DEF IndInv, OperationsExclusive, Holds
    <3>3. <<"archive", w>>[1] # <<"start", q>>[1] /\ <<"archive", w>>[1] # <<"exec", q>>[1]
      OBVIOUS
    <3> QED BY <3>1, <3>2, <3>3 DEF InStart, InExec
  <2> QED BY <2>1, <2>2 DEF Unarchived
<1>3. ASSUME NEW v \in Workspaces, ArchiveStart(v) \/ ArchiveSteps(v)
      PROVE  Unarchived(q)'
  <2>1. CASE ArchiveCommit(v) /\ v # w
    BY <1>1, <2>1 DEF ArchiveCommit, Unarchived, TypeOK, exec
  <2>2. CASE ~ArchiveCommit(v)
    <3>1. ~ArchiveUnfenced(v)
      BY DEF ArchiveInv, Boundary, ArchiveUnfenced
    <3>2. UNCHANGED <<execPc, startPc, archived>>
      BY <1>3, <2>2, <3>1, Zenon DEF ArchiveStart, ArchiveSteps, ArchiveFail, ArchiveNotify,
         ArchiveStopped, ArchiveFinish, ArchiveDetached, exec, world, callers
    <3> QED BY <1>1, <3>2 DEF Unarchived
  <2> QED BY <1>2, <2>1, <2>2
<1>4. ASSUME NEW p \in Requests, ExecOutside(p) \/ ExecInside(p)
      PROVE  Unarchived(q)'
  <2>1. UNCHANGED <<startPc, archived>>
    BY <1>4, Zenon DEF ExecOutside, ExecEnqueue, ExecStandAside, ExecBoot, ExecBegin, ExecLoop,
       ExecRevalidate, ExecCreated, ExecPermission, ExecPermCheck, ExecPermStopped,
       ExecPermWrite, ExecTurnEnded, ExecError, ExecFinish, ExecDone, ExecClear,
       ExecInside, ExecCreateCheck, ExecCreateStop, ExecCreateAgent,
       ExecCreateAgentFails, ExecPersistAgent, ExecAdmit, ExecAdmitStop, ExecCompleteCheck,
       ExecCompleteStop, ExecCompleteWrite, ExecFail, world, callers
  <2>2. CASE p # q
    <3>1. execPc'[q] = execPc[q]
      BY <1>4, <2>2, ExecApart DEF Apart
    <3> QED BY <1>1, <2>1, <3>1 DEF Unarchived
  <2>3. CASE p = q /\ execPc'[q] = "create_agent"
    <3>1. \/ execPc[q] = "create_agent"
          \/ ExecCreateCheck(q) /\ Active(run[q]) /\ ~Asked(q)
      <4>1. ~ExecEnqueue(q) /\ ~ExecStandAside(q)
        BY <1>1, <2>3, GotoLands, LockLocations DEF ExecEnqueue, ExecStandAside, WantPcs, LockPcs
      <4>2. ~ExecOutside(q)
        BY <1>1, <2>3, <4>1, GotoLands DEF ExecOutside, ExecBoot, ExecBegin, ExecLoop, ExecRevalidate,
           ExecCreated, ExecPermission, ExecPermCheck, ExecPermStopped, ExecPermWrite,
           ExecTurnEnded, ExecError, ExecFinish, ExecDone, ExecClear
      <4>3. ExecInside(q) => ExecCreateCheck(q)
        BY <1>1, <2>3, GotoLands DEF ExecInside, ExecCreateStop, ExecCreateAgent,
           ExecCreateAgentFails, ExecPersistAgent, ExecAdmit, ExecAdmitStop,
           ExecCompleteCheck, ExecCompleteStop, ExecCompleteWrite, ExecFail
      <4>4. ExecCreateCheck(q) => Active(run[q]) /\ ~Asked(q)
        BY <1>1, <2>3, GotoLands DEF ExecCreateCheck
      <4> QED BY <1>4, <2>3, <4>2, <4>3, <4>4
    <3>2. ~archived[w]
      BY <1>1, <3>1, WorkspaceLive DEF Unarchived, ExecCreateCheck
    <3> QED BY <2>1, <3>2 DEF Unarchived
  <2>4. CASE p = q /\ execPc'[q] # "create_agent"
    BY <1>1, <2>1, <2>4 DEF Unarchived
  <2> QED BY <2>2, <2>3, <2>4
<1>5. ASSUME NEW p \in Requests, StartCall(p) \/ StartSteps(p)
      PROVE  Unarchived(q)'
  <2>1. archived' = archived
    BY <1>5, Zenon DEF StartCall, StartSteps, StartEnqueue, StartStandAside, StartAdmission,
       StartCheck, StartCreate, world
  <2>2. execPc'[q] \in {execPc[q], "boot"}
    BY <1>1, <1>5 DEF StartCall, StartSteps, StartEnqueue, StartStandAside, StartAdmission,
       StartCheck, StartCreate, exec, TypeOK
  <2>3. \/ startPc'[q] \in {startPc[q], "idle", "want", "lock", "admission"}
        \/ ~archived[w]
    BY <1>1, <1>5 DEF StartCall, StartSteps, StartEnqueue, StartStandAside, StartAdmission,
       StartCheck, StartCreate, TypeOK
  <2> QED BY <1>1, <2>1, <2>2, <2>3 DEF Unarchived
<1>6. ASSUME NEW p \in Requests,
             \/ CancelCall(p) \/ CancelSteps(p) \/ ClockReachesDeadline(p) \/ DeadlineSteps(p)
             \/ RecoverExpired(p) \/ RecoverInterrupted(p)
             \/ (\E i \in Steps : AgentSettle(p, i)) \/ \E k \in StopKinds : StopSteps(k, p)
      PROVE  Unarchived(q)'
  <2>1. UNCHANGED <<execPc, startPc, archived>>
    BY <1>6, Zenon DEF CancelCall, CancelSteps, CancelEnqueue, CancelStandAside, CancelRequest,
       CancelStopped, CancelSettled, ClockReachesDeadline, DeadlineSteps, DeadlineFire,
       DeadlineStopped, DeadlineFinish, RecoverExpired, RecoverInterrupted, AgentSettle,
       StopSteps, StopUpdate, StopCancelSettled, StopCancelRefused, StopRecordRefusal, StopWait,
       world, exec, callers
  <2> QED BY <1>1, <2>1 DEF Unarchived
<1>7. CASE Restart
  BY <1>7 DEF Restart, Unarchived
<1>8. CASE RecoverDone \/ UNCHANGED vars
  <2>1. UNCHANGED <<execPc, startPc, archived>>
    BY <1>8 DEF RecoverDone, vars, world, exec, callers
  <2> QED BY <1>1, <2>1 DEF Unarchived
<1>9. CASE RecoverSteps
  BY <1>6, <1>8, <1>9, Zenon DEF RecoverSteps
<1>10. CASE Next
  BY <1>1, <1>3, <1>4, <1>5, <1>6, <1>7, <1>9, <1>10, NextCases, ZenonT(60)
<1> QED BY <1>8, <1>10

(* While nobody shuts the daemon down, no agent is created or prompted in an *)
(* archived workspace: from the commit until the reason is on record of its  *)
(* run the fence or the record asks every check to stop, and what has passed *)
(* its check holds the operation the commit needs.                           *)
THEOREM ArchiveWins == ASSUME ~WithShutdown PROVE Spec => NoAgentWorkAfterArchive
<1>1. Init => ArchiveInv
  BY DEF Init, ArchiveInv, Boundary, Unarchived, StopKinds
<1>2. ASSUME IndInv, ProgressInv, OneActiveRunPerWorkspace, ArchiveInv, [Next]_vars
      PROVE  ArchiveInv'
  BY <1>2, StaysUp, BoundaryStep, UnarchivedStep DEF ArchiveInv
<1>3. ASSUME IndInv, ProgressInv, ArchiveInv, [Next]_vars, NEW q \in Requests, NEW i \in Steps,
             agent'[q][i] # agent[q][i], agent'[q][i] \in {"idle", "streaming"}
      PROVE  ~archived[WorkspaceOf[q]]
  <2>1. ExecCreateAgent(q) \/ (ExecAdmit(q) /\ Active(run[q]) /\ ~Asked(q))
    BY <1>3, AgentChanges DEF SettledTurns
  <2>2. ExecCreateAgent(q) => ~archived[WorkspaceOf[q]]
    BY <1>3 DEF ExecCreateAgent, ArchiveInv, Unarchived
  <2>3. ExecAdmit(q) /\ Active(run[q]) /\ ~Asked(q) => ~archived[WorkspaceOf[q]]
    BY <1>3, WorkspaceLive DEF ExecAdmit
  <2> QED BY <2>1, <2>2, <2>3
<1>4. IndInv /\ ProgressInv /\ ArchiveInv /\ [Next]_vars =>
         [\A q \in Requests, i \in Steps :
            agent'[q][i] # agent[q][i] /\ agent'[q][i] \in {"idle", "streaming"}
               => ~archived[WorkspaceOf[q]]]_vars
  BY <1>3
<1> QED BY <1>1, <1>2, <1>4, InductiveInvariant, ProgressInvariant, WorkspaceLock, PTL
        DEF Spec, NoAgentWorkAfterArchive

-----------------------------------------------------------------------------
(* Ended records                                                             *)

(* FinishTermination by the execution, on its own behalf.                    *)
ExecEnds(q) == ExecCreateStop(q) \/ ExecAdmitStop(q) \/ ExecFinish(q)

(* A record changes by the step of one handler of its run.                   *)
Writer(q) ==
    \/ StartCreate(q) /\ ~Existing(q) /\ run'[q] = Queued
    \/ \E k \in StopKinds :
         \/ StopUpdate(k, q) /\ run'[q] = Stop(run[q], OrCancel(RequestedReason(q)))
         \/ StopRecordRefusal(k, q) /\ run'[q] = StopRefused(run[q])
    \/ ExecBegin(q) /\ run'[q] = BeginFirstStep(run[q])
    \/ ExecPersistAgent(q) /\ run'[q] = PersistAgentCreated(run[q], execStep[q])
    \/ ExecPermWrite(q) /\ run'[q] = PermissionState(run[q], execStep[q], perm[q])
    \/ ExecEnds(q) /\ run'[q] = FinishTermination(run[q], execReason[q])
    \/ ExecCompleteStop(q) /\ run'[q] = TerminationRunUpdate(run[q], execReason[q], "complete")
    \/ /\ ExecCompleteWrite(q) /\ Active(run[q])
       /\ \/ run'[q] = TerminationRunUpdate(run[q], RequestedReason(q), "complete")
          \/ run'[q] = StepSucceeded(run[q], execStep[q])
    \/ /\ ExecFail(q) /\ Active(run[q])
       /\ \/ run'[q] = TerminationRunUpdate(run[q], RequestedReason(q), "fail")
          \/ run'[q] = Failed(run[q])
    \/ CancelSettled(q) /\ run'[q] = FinishTermination(run[q], OrCancel(termReq[q]))
    \/ DeadlineFinish(q) /\ run'[q] = FinishTermination(run[q], "deadline")
    \/ RecoverInterrupted(q) /\ run'[q] = FinishTermination(run[q], "shutdown")

(* What updateRun stores, in the record it is called for.                    *)
LEMMA Updated ==
    ASSUME TypeOK, NEW q \in Requests, run'[q] # run[q], NEW p \in Requests, NEW s, UpdateRun(p, s)
    PROVE  p = q /\ run'[q] = s
  BY DEF TypeOK, UpdateRun

(* So who changes the record of q is one of them.                            *)
LEMMA RecordWriter ==
    ASSUME IndInv, [Next]_vars, ~ShutdownSteps, NEW q \in Requests, run'[q] # run[q]
    PROVE  Writer(q)
<1>1. TypeOK
  BY DEF IndInv
<1>2. run' # run
  OBVIOUS
<1>3. ASSUME NEW p \in Requests, StartCall(p) \/ StartSteps(p) PROVE Writer(q)
  <2>1. StartCreate(p) /\ ~Existing(p) /\ run' = [run EXCEPT ![p] = Queued]
    BY <1>2, <1>3, Zenon DEF StartCall, StartSteps, StartEnqueue, StartStandAside,
       StartAdmission, StartCheck, StartCreate, world
  <2>2. p = q /\ run'[q] = Queued
    BY <1>1, <2>1 DEF TypeOK
  <2> QED BY <2>1, <2>2 DEF Writer
<1>4. ASSUME NEW p \in Requests, CancelCall(p) \/ CancelSteps(p) PROVE Writer(q)
  <2>1. CancelSettled(p) /\ UpdateRun(p, FinishTermination(run[p], OrCancel(termReq[p])))
    BY <1>2, <1>4, Zenon DEF CancelCall, CancelSteps, CancelEnqueue, CancelStandAside,
       CancelRequest, CancelStopped, CancelSettled, world
  <2> QED BY <1>1, <2>1, Updated DEF Writer
<1>5. ASSUME NEW p \in Requests, ClockReachesDeadline(p) \/ DeadlineSteps(p) PROVE Writer(q)
  <2>1. DeadlineFinish(p) /\ UpdateRun(p, FinishTermination(run[p], "deadline"))
    BY <1>2, <1>5, Zenon DEF ClockReachesDeadline, DeadlineSteps, DeadlineFire, DeadlineStopped,
       DeadlineFinish, world
  <2> QED BY <1>1, <2>1, Updated DEF Writer
<1>6. ASSUME NEW p \in Requests, ExecOutside(p) PROVE Writer(q)
  <2>1. \/ ExecBegin(p) /\ UpdateRun(p, BeginFirstStep(run[p]))
        \/ ExecPermWrite(p) /\ UpdateRun(p, PermissionState(run[p], execStep[p], perm[p]))
        \/ ExecFinish(p) /\ UpdateRun(p, FinishTermination(run[p], execReason[p]))
    BY <1>2, <1>6, Zenon DEF ExecOutside, ExecEnqueue, ExecStandAside, ExecBoot, ExecBegin,
       ExecLoop, ExecRevalidate, ExecCreated, ExecPermission, ExecPermCheck, ExecPermStopped,
       ExecPermWrite, ExecTurnEnded, ExecError, ExecFinish, ExecDone, ExecClear, world
  <2> QED BY <1>1, <2>1, Updated DEF Writer, ExecEnds
<1>7. ASSUME NEW p \in Requests, ExecInside(p) PROVE Writer(q)
  <2>1. \/ ExecPersistAgent(p) /\ UpdateRun(p, PersistAgentCreated(run[p], execStep[p]))
        \/ ExecEnds(p) /\ UpdateRun(p, FinishTermination(run[p], execReason[p]))
        \/ /\ ExecCompleteStop(p)
           /\ UpdateRun(p, TerminationRunUpdate(run[p], execReason[p], "complete"))
        \/ ExecCompleteWrite(p) \/ ExecFail(p)
    BY <1>2, <1>7, Zenon DEF ExecInside, ExecCreateCheck, ExecCreateStop, ExecCreateAgent,
       ExecCreateAgentFails, ExecPersistAgent, ExecAdmit, ExecAdmitStop, ExecCompleteCheck,
       ExecCompleteStop, ExecEnds, world
  <2>2. CASE ExecCompleteWrite(p)
    <3>1. /\ Active(run[p])
          /\ \/ UpdateRun(p, TerminationRunUpdate(run[p], RequestedReason(p), "complete"))
             \/ UpdateRun(p, StepSucceeded(run[p], execStep[p]))
      BY <1>2, <2>2, Zenon DEF ExecCompleteWrite
    <3> QED BY <1>1, <2>2, <3>1, Updated DEF Writer
  <2>3. CASE ExecFail(p)
    <3>1. /\ Active(run[p])
          /\ \/ UpdateRun(p, TerminationRunUpdate(run[p], RequestedReason(p), "fail"))
             \/ UpdateRun(p, Failed(run[p]))
      BY <1>2, <2>3, Zenon DEF ExecFail
    <3> QED BY <1>1, <2>3, <3>1, Updated DEF Writer
  <2> QED BY <1>1, <2>1, <2>2, <2>3, Updated DEF Writer
<1>8. ASSUME NEW p \in Requests, NEW k \in StopKinds, StopSteps(k, p) PROVE Writer(q)
  <2>1. \/ StopUpdate(k, p) /\ UpdateRun(p, Stop(run[p], OrCancel(RequestedReason(p))))
        \/ StopRecordRefusal(k, p) /\ UpdateRun(p, StopRefused(run[p]))
    BY <1>2, <1>8, Zenon DEF StopSteps, StopUpdate, StopCancelSettled, StopCancelRefused,
       StopRecordRefusal, StopWait, world
  <2> QED BY <1>1, <2>1, Updated DEF Writer
<1>9. CASE RecoverSteps
  <2>1. PICK p \in Requests :
            RecoverInterrupted(p) /\ UpdateRun(p, FinishTermination(run[p], "shutdown"))
    BY <1>2, <1>9, Zenon DEF RecoverSteps, RecoverExpired, RecoverInterrupted, RecoverDone, world
  <2> QED BY <1>1, <2>1, Updated DEF Writer
<1>10. ASSUME NEW p \in Requests, NEW i \in Steps, AgentSettle(p, i) PROVE FALSE
  BY <1>2, <1>10 DEF AgentSettle
<1>11. ASSUME NEW w \in Workspaces, ArchiveStart(w) \/ ArchiveSteps(w) PROVE FALSE
  BY <1>2, <1>11, Zenon DEF ArchiveSteps, ArchiveStart, ArchiveCommit, ArchiveFail,
     ArchiveNotify, ArchiveStopped, ArchiveFinish, ArchiveUnfenced, ArchiveDetached, world
<1>12. ~ShutdownCall /\ ~Restart
  BY <1>2, Zenon DEF ShutdownCall, Restart, world
<1>13. Next
  BY <1>2 DEF vars, world
<1> QED BY <1>3, <1>4, <1>5, <1>6, <1>7, <1>8, <1>9, <1>10, <1>11, <1>12, <1>13, NextCases,
        ZenonT(60)

(* Only recovery ends a run for a shutdown, and it has no execution then.    *)
ByShutdown(q) ==
    /\ termReq[q] # "shutdown" /\ execReason[q] # "shutdown"
    /\ run[q].term = "shutdown" => ~Active(run[q]) /\ execPc[q] = "off"

(* The deadline handler ends a run under its execution only where the agent  *)
(* of the step has not been prompted.                                        *)
DeadlineWaits(q) ==
    /\ dlPc[q] = "finish" \/ stop[<<"deadline", q>>] = "open"
    /\ Executing(q) /\ Active(run[q])
    => /\ run[q].term # "none"
       /\ execPc[q] \in OnStep => agent[q][execStep[q]] \in {"none", "idle"}

(* completeStep finds the run active when it writes the stop it was asked    *)
(* for: what could end the run meanwhile waits for the execution.            *)
Settling(q) == execPc[q] = "complete_stop" => Active(run[q])

EndingInv == shutPc = "up" /\ \A q \in Requests : ByShutdown(q) /\ DeadlineWaits(q) /\ Settling(q)

(* No other reason is taken for a shutdown.                                  *)
LEMMA NoShutdownRequested ==
    ASSUME TypeOK, NEW q \in Requests, termReq[q] # "shutdown", run[q].term # "shutdown"
    PROVE  RequestedReason(q) # "shutdown"
<1>1. termReq[q] \in ReasonOrNone
  BY DEF TypeOK
<1> QED BY <1>1 DEF RequestedReason, ReasonOrNone, Reasons

(* And none becomes one by a request for another reason.                     *)
LEMMA RequestKeeps ==
    ASSUME NEW current, current # "shutdown", NEW reason, reason # "shutdown"
    PROVE  RequestTermination(current, reason) # "shutdown"
  BY DEF RequestTermination

(* The location of an execution changes by its own step, or when it is       *)
(* launched, or with the process.                                            *)
LEMMA ExecMoves ==
    ASSUME IndInv, ProgressInv, [Next]_vars, NEW q \in Requests,
           execPc'[q] # execPc[q] \/ execStep'[q] # execStep[q]
    PROVE  \/ StartCreate(q) /\ ~Existing(q)
           \/ ExecOutside(q)
           \/ ExecInside(q)
           \/ Restart /\ execPc'[q] = "off"
<1>1. TypeOK /\ (execPc' # execPc \/ execStep' # execStep)
  BY DEF IndInv
<1>2. ASSUME NEW p \in Requests, StartCall(p) \/ StartSteps(p)
      PROVE  StartCreate(q) /\ ~Existing(q)
  <2>1. /\ StartCreate(p) /\ ~Existing(p) /\ UNCHANGED execStep
        /\ execPc' = [execPc EXCEPT ![p] = "boot"]
    BY <1>1, <1>2, Zenon DEF StartCall, StartSteps, StartEnqueue, StartStandAside,
       StartAdmission, StartCheck, StartCreate, exec
  <2>2. p = q
    BY <1>1, <2>1 DEF TypeOK
  <2> QED BY <2>1, <2>2
<1>3. ASSUME NEW p \in Requests, ExecOutside(p) \/ ExecInside(p), p # q PROVE FALSE
  BY <1>3, ExecApart DEF Apart
<1>4. ASSUME NEW p \in Requests,
             \/ CancelCall(p) \/ CancelSteps(p) \/ ClockReachesDeadline(p) \/ DeadlineSteps(p)
             \/ (\E i \in Steps : AgentSettle(p, i)) \/ \E k \in StopKinds : StopSteps(k, p)
      PROVE  FALSE
  BY <1>1, <1>4, Zenon DEF CancelCall, CancelSteps, CancelEnqueue, CancelStandAside,
     CancelRequest, CancelStopped, CancelSettled, ClockReachesDeadline, DeadlineSteps,
     DeadlineFire, DeadlineStopped, DeadlineFinish, AgentSettle,
     StopSteps, StopUpdate, StopCancelSettled, StopCancelRefused, StopRecordRefusal, StopWait,
     exec
<1>5. ASSUME NEW w \in Workspaces, ArchiveStart(w) \/ ArchiveSteps(w) PROVE FALSE
  BY <1>1, <1>5, Zenon DEF ArchiveSteps, ArchiveStart, ArchiveCommit, ArchiveFail,
     ArchiveNotify, ArchiveStopped, ArchiveFinish, ArchiveUnfenced, ArchiveDetached, exec
<1>6. ~(ShutdownCall \/ ShutdownSteps \/ RecoverSteps)
  BY <1>1, Zenon DEF ShutdownCall, ShutdownSteps, ShutdownFence, ShutdownStop, ShutdownSettled,
     ShutdownFinish, ShutdownRelease, RecoverSteps, RecoverExpired, RecoverInterrupted,
     RecoverDone, exec
<1>7. Restart => execPc'[q] = "off"
  BY DEF Restart
<1>8. Next
  BY <1>1 DEF vars, exec
<1> QED BY <1>2, <1>3, <1>4, <1>5, <1>6, <1>7, <1>8, NextCases, ZenonT(60)

(* An execution that is gone does not come back.                             *)
LEMMA StaysOff ==
    ASSUME IndInv, ProgressInv, [Next]_vars, NEW q \in Requests, run[q].status # "absent"
    PROVE  ~Executing(q) => ~Executing(q)' /\ (execPc[q] = "off" => execPc'[q] = "off")
<1> USE DEF Executing
<1>1. TypeOK
  BY DEF IndInv
<1>2. ~(StartCreate(q) /\ ~Existing(q))
  BY DEF Existing
<1>3. CASE ExecOutside(q)
  <2>1. execPc[q] # "off" /\ (execPc[q] = "clearing" => ExecClear(q))
    BY <1>3, LockLocations DEF ExecOutside, ExecEnqueue, ExecStandAside, ExecBoot,
       ExecBegin, ExecLoop, ExecRevalidate, ExecCreated, ExecPermission, ExecPermCheck,
       ExecPermStopped, ExecPermWrite, ExecTurnEnded, ExecError, ExecFinish, ExecDone,
       ExecClear, WantPcs
  <2>2. ExecClear(q) => execPc'[q] = "off"
    BY <1>1, GotoLands DEF ExecClear
  <2> QED BY <2>1, <2>2
<1>4. CASE ExecInside(q)
  <2>1. execPc[q] \notin {"off", "clearing"}
    BY <1>4 DEF ExecInside, ExecCreateCheck, ExecCreateStop, ExecCreateAgent,
       ExecCreateAgentFails, ExecPersistAgent, ExecAdmit, ExecAdmitStop, ExecCompleteCheck,
       ExecCompleteStop, ExecCompleteWrite, ExecFail
  <2> QED BY <2>1
<1>5. CASE execPc'[q] = execPc[q] \/ execPc'[q] = "off"
  BY <1>5
<1> QED BY <1>2, <1>3, <1>4, <1>5, ExecMoves

(* An ended record stays ended.                                              *)
LEMMA StaysEnded ==
    ASSUME IndInv, [Next]_vars, NEW q \in Requests, run[q].status # "absent", ~Active(run[q])
    PROVE  run'[q].status # "absent" /\ ~Active(run'[q])
<1>1. CASE RunsOnward
  BY <1>1 DEF RunsOnward, Onward
<1>2. ASSUME NEW p \in Requests, Admits(p) PROVE run'[q] = run[q]
  <2>1. p # q
    BY <1>2 DEF Admits, Existing
  <2> QED BY <1>2, <2>1 DEF Admits, IndInv, TypeOK
<1> QED BY <1>1, <1>2, RunStep

(* Where a reason comes from.                                                *)
LEMMA ReasonWritten ==
    ASSUME NEW r \in Records, NEW why, NEW writer, NEW i \in Steps, NEW isWaiting
    PROVE  /\ TerminationRunUpdate(r, why, writer).term \in {r.term, why}
           /\ FinishTermination(r, why).term \in {r.term, why}
           /\ Stop(r, why).term \in {r.term, why}
           /\ StopRefused(r).term = r.term
           /\ BeginFirstStep(r).term = r.term
           /\ PersistAgentCreated(r, i).term = r.term
           /\ PermissionState(r, i, isWaiting).term = r.term
           /\ StepSucceeded(r, i).term = r.term
           /\ Failed(r).term = r.term
<1> USE DEF Records
<1>1. TerminationRunUpdate(r, why, writer).term \in {r.term, why}
  BY DEF TerminationRunUpdate, EffectiveReason
<1>2. FinishTermination(r, why).term \in {r.term, why}
  BY DEF FinishTermination, TerminationRunUpdate, EffectiveReason
<1>3. Stop(r, why).term \in {r.term, why}
  BY DEF Stop, TerminationRunUpdate, EffectiveReason
<1>4. StopRefused(r).term = r.term /\ BeginFirstStep(r).term = r.term
  BY DEF StopRefused, BeginFirstStep
<1>5. PersistAgentCreated(r, i).term = r.term /\ PermissionState(r, i, isWaiting).term = r.term
  BY DEF PersistAgentCreated, PermissionState
<1>6. StepSucceeded(r, i).term = r.term /\ Failed(r).term = r.term
  BY DEF StepSucceeded, Failed
<1> QED BY <1>1, <1>2, <1>3, <1>4, <1>5, <1>6

(* A run that is not over is not asked to end for a shutdown.                *)
LEMMA NotForShutdown ==
    ASSUME IndInv, EndingInv, NEW q \in Requests, execPc[q] # "off" \/ Active(run[q])
    PROVE  /\ run[q].term # "shutdown" /\ RequestedReason(q) # "shutdown"
           /\ OrCancel(termReq[q]) # "shutdown" /\ OrCancel(RequestedReason(q)) # "shutdown"
<1>1. run[q].term # "shutdown" /\ termReq[q] # "shutdown"
  BY DEF EndingInv, ByShutdown
<1>2. RequestedReason(q) # "shutdown"
  BY <1>1, NoShutdownRequested DEF IndInv
<1> QED BY <1>1, <1>2 DEF OrCancel

(* Without a shutdown, nobody requests one.                                  *)
LEMMA RequestsStep ==
    ASSUME IndInv, ProgressInv, EndingInv, ~WithShutdown, [Next]_vars, NEW q \in Requests
    PROVE  termReq'[q] # "shutdown" /\ execReason'[q] # "shutdown"
<1>1. /\ TypeOK /\ termReq[q] # "shutdown" /\ execReason[q] # "shutdown"
      /\ ~ShutdownCall /\ ~ShutdownSteps
  BY StaysUp DEF EndingInv, ByShutdown, IndInv
<1>2. ASSUME UNCHANGED <<termReq, execReason>>
      PROVE  termReq'[q] # "shutdown" /\ execReason'[q] # "shutdown"
  BY <1>1, <1>2
<1>3. ASSUME NEW p \in Requests, NEW why \in {"cancel", "workspace", "deadline"},
             termReq' = [termReq EXCEPT ![p] = RequestTermination(@, why)]
      PROVE  termReq'[q] # "shutdown"
  BY <1>1, <1>3, RequestKeeps DEF TypeOK
<1>4. ASSUME NEW p \in Requests, CancelCall(p) \/ CancelSteps(p)
      PROVE  termReq'[q] # "shutdown" /\ execReason'[q] # "shutdown"
  <2>1. /\ UNCHANGED execReason
        /\ termReq' = termReq \/ termReq' = [termReq EXCEPT ![p] = RequestTermination(@, "cancel")]
    BY <1>4, Zenon DEF CancelCall, CancelSteps, CancelEnqueue, CancelStandAside, CancelRequest,
       CancelStopped, CancelSettled, memory, exec
  <2> QED BY <1>1, <1>3, <2>1
<1>5. ASSUME NEW p \in Requests,
             ClockReachesDeadline(p) \/ DeadlineSteps(p) \/ RecoverExpired(p)
      PROVE  termReq'[q] # "shutdown" /\ execReason'[q] # "shutdown"
  <2>1. /\ UNCHANGED execReason
        /\ \/ termReq' = termReq
           \/ termReq' = [termReq EXCEPT ![p] = RequestTermination(@, "deadline")]
    BY <1>5, Zenon DEF ClockReachesDeadline, DeadlineSteps, DeadlineFire, DeadlineStopped,
       DeadlineFinish, DeadlineCall, RecoverExpired, memory, exec
  <2> QED BY <1>1, <1>3, <2>1
<1>6. ASSUME NEW w \in Workspaces, ArchiveStart(w) \/ ArchiveSteps(w)
      PROVE  termReq'[q] # "shutdown" /\ execReason'[q] # "shutdown"
  <2>1. /\ UNCHANGED execReason
        /\ \/ termReq' = termReq
           \/ \E p \in ActiveRunIn(w) :
                 termReq' = [termReq EXCEPT ![p] = RequestTermination(@, "workspace")]
    BY <1>6, Zenon DEF ArchiveSteps, ArchiveStart, ArchiveCommit, ArchiveFail,
       ArchiveNotify, ArchiveStopped, ArchiveFinish, ArchiveUnfenced, ArchiveDetached,
       memory, exec
  <2> QED BY <1>1, <1>3, <2>1 DEF ActiveRunIn
<1>7. ASSUME NEW p \in Requests, ExecOutside(p) \/ ExecInside(p)
      PROVE  termReq'[q] # "shutdown" /\ execReason'[q] # "shutdown"
  <2>1. /\ RequestedReason(p) # "shutdown" /\ OrCancel(termReq[p]) # "shutdown"
        /\ termReq[p] # "shutdown"
    <3>1. execPc[p] # "off"
      BY <1>7, ExecApart
    <3> QED BY <3>1, NotForShutdown DEF EndingInv, ByShutdown
  <2>2. \/ termReq' = termReq
        \/ termReq' = [termReq EXCEPT ![p] = RequestTermination(@, RequestedReason(p))]
        \/ termReq' = [termReq EXCEPT ![p] = RequestTermination(@, "workspace")]
        \/ termReq' = [termReq EXCEPT ![p] = "none"]
    <3>1. CASE ExecOutside(p)
      BY <3>1, Zenon DEF ExecOutside, ExecEnqueue, ExecStandAside, ExecBoot, ExecBegin, ExecLoop,
         ExecRevalidate, ExecCreated, ExecPermission, ExecPermCheck, ExecPermStopped,
         ExecPermWrite, ExecTurnEnded, ExecError, ExecFinish, ExecDone, ExecClear, memory
    <3>2. CASE ExecInside(p)
      BY <3>2, Zenon DEF ExecInside, ExecCreateCheck, ExecCreateStop, ExecCreateAgent,
         ExecCreateAgentFails, ExecPersistAgent, ExecAdmit, ExecAdmitStop, ExecCompleteCheck,
         ExecCompleteStop, ExecCompleteWrite, ExecFail, memory
    <3> QED BY <1>7, <3>1, <3>2
  <2>3. termReq'[q] # "shutdown"
    BY <1>1, <2>1, <2>2, RequestKeeps DEF TypeOK
  <2>4. \/ UNCHANGED execReason
        \/ execReason' = [execReason EXCEPT ![p] = RequestedReason(p)]
        \/ execReason' = [execReason EXCEPT ![p] = OrCancel(termReq[p])]
        \/ execReason' = [execReason EXCEPT ![p] = "workspace"]
    <3>1. CASE ExecOutside(p)
      BY <3>1, Zenon DEF ExecOutside, ExecEnqueue, ExecStandAside, ExecBoot, ExecBegin, ExecLoop,
         ExecRevalidate, ExecCreated, ExecPermission, ExecPermCheck, ExecPermStopped,
         ExecPermWrite, ExecTurnEnded, ExecError, ExecFinish, ExecDone, ExecClear, exec,
         GotoFinish
    <3>2. CASE ExecInside(p)
      BY <3>2, Zenon DEF ExecInside, ExecCreateCheck, ExecCreateStop, ExecCreateAgent,
         ExecCreateAgentFails, ExecPersistAgent, ExecAdmit, ExecAdmitStop, ExecCompleteCheck,
         ExecCompleteStop, ExecCompleteWrite, ExecFail, exec, GotoStop
    <3> QED BY <1>7, <3>1, <3>2
  <2>5. execReason'[q] # "shutdown"
    BY <1>1, <2>1, <2>4 DEF TypeOK
  <2> QED BY <2>3, <2>5
<1>8. ASSUME NEW p \in Requests,
             \/ StartCall(p) \/ StartSteps(p) \/ RecoverInterrupted(p)
             \/ (\E i \in Steps : AgentSettle(p, i)) \/ \E k \in StopKinds : StopSteps(k, p)
      PROVE  UNCHANGED <<termReq, execReason>>
  BY <1>8, Zenon DEF StartCall, StartSteps, StartEnqueue, StartStandAside, StartAdmission,
     StartCheck, StartCreate, RecoverInterrupted, AgentSettle, StopSteps, StopUpdate,
     StopCancelSettled, StopCancelRefused, StopRecordRefusal, StopWait, memory, exec
<1>9. Restart => termReq'[q] # "shutdown" /\ execReason'[q] # "shutdown"
  BY DEF Restart
<1>10. RecoverDone \/ UNCHANGED vars => UNCHANGED <<termReq, execReason>>
  BY DEF RecoverDone, vars, memory, exec
<1>11. CASE RecoverSteps
  BY <1>2, <1>5, <1>8, <1>10, <1>11, Zenon DEF RecoverSteps
<1>12. CASE Next
  BY <1>1, <1>2, <1>4, <1>5, <1>6, <1>7, <1>8, <1>9, <1>11, <1>12, NextCases, ZenonT(60)
<1> QED BY <1>2, <1>10, <1>12

(* FinishTermination ends a run.                                             *)
LEMMA FinishEnds ==
    ASSUME NEW r \in Records, NEW why
    PROVE  ~Active(FinishTermination(r, why))
<1>1. Terminal(r) => ~Active(r)
  BY DEF Terminal, Active, TerminalRunStatuses, ActiveRunStatuses
<1>2. TerminationRunUpdate(r, why, "finish").status \in TerminalRunStatuses
  BY OutcomeType DEF TerminationRunUpdate, Records
<1>3. ~Active(TerminationRunUpdate(r, why, "finish"))
  BY <1>2 DEF Active, TerminalRunStatuses, ActiveRunStatuses
<1> QED BY <1>1, <1>3 DEF FinishTermination

(* Every step keeps what is known of shutdown reasons.                       *)
LEMMA ByShutdownStep ==
    ASSUME IndInv, ProgressInv, EndingInv, ~WithShutdown, [Next]_vars, NEW q \in Requests
    PROVE  ByShutdown(q)'
<1>1. /\ TypeOK /\ ByShutdown(q) /\ run[q] \in Records /\ ~ShutdownSteps
      /\ execStep[q] \in Steps
  BY AtHand, StaysUp DEF EndingInv
<1>2. CASE run[q].term = "shutdown"
  <2>1. run[q].status # "absent" /\ ~Active(run[q]) /\ execPc[q] = "off"
    BY <1>1, <1>2 DEF IndInv, AbsentRunsUntouched, Untouched, Absent, ByShutdown
  <2>2. ~Executing(q) /\ ~Active(run'[q])
    BY <2>1, StaysEnded DEF Executing
  <2>3. execPc'[q] = "off"
    BY <2>1, <2>2, StaysOff
  <2> QED BY <2>2, <2>3, RequestsStep DEF ByShutdown
<1>3. CASE run[q].term # "shutdown" /\ run'[q].term # "shutdown"
  BY <1>3, RequestsStep DEF ByShutdown
<1>4. CASE run[q].term # "shutdown" /\ run'[q].term = "shutdown"
  <2>1. Writer(q)
    BY <1>1, <1>4, RecordWriter
  <2>2. /\ execReason[q] # "shutdown" /\ OrCancel(termReq[q]) # "shutdown"
        /\ RequestedReason(q) # "shutdown" /\ OrCancel(RequestedReason(q)) # "shutdown"
    BY <1>1, <1>4, NoShutdownRequested DEF ByShutdown, OrCancel
  <2>3. Queued.term # "shutdown"
    BY DEF Queued, Absent
  <2>4. ASSUME NEW why, why # "shutdown"
        PROVE  /\ \A writer : TerminationRunUpdate(run[q], why, writer).term # "shutdown"
               /\ FinishTermination(run[q], why).term # "shutdown"
               /\ Stop(run[q], why).term # "shutdown"
    <3>1. /\ \A writer : TerminationRunUpdate(run[q], why, writer).term \in {run[q].term, why}
          /\ FinishTermination(run[q], why).term \in {run[q].term, why}
          /\ Stop(run[q], why).term \in {run[q].term, why}
      BY <1>1, ReasonWritten
    <3> QED BY <1>4, <2>4, <3>1
  <2>5. /\ StopRefused(run[q]).term # "shutdown" /\ BeginFirstStep(run[q]).term # "shutdown"
        /\ PersistAgentCreated(run[q], execStep[q]).term # "shutdown"
        /\ PermissionState(run[q], execStep[q], perm[q]).term # "shutdown"
        /\ StepSucceeded(run[q], execStep[q]).term # "shutdown"
        /\ Failed(run[q]).term # "shutdown"
    BY <1>1, <1>4, ReasonWritten
  <2>6. RecoverInterrupted(q) /\ run'[q] = FinishTermination(run[q], "shutdown")
    BY <1>4, <2>1, <2>2, <2>3, <2>4, <2>5, Zenon DEF Writer
  <2>7. execPc[q] = "off" /\ execPc'[q] = execPc[q]
    BY <2>6 DEF RecoverInterrupted, ProgressInv, Recovering, exec
  <2>8. ~Active(run'[q])
    BY <1>1, <2>6, FinishEnds
  <2> QED BY <2>7, <2>8, RequestsStep DEF ByShutdown
<1> QED BY <1>2, <1>3, <1>4

(* A stop leaves a run whose execution is on a step active.                  *)
LEMMA StopsLeaveActive ==
    ASSUME IndInv, ProgressInv, NEW q \in Requests, execPc[q] \in OnStep, Active(run[q]),
           NEW why
    PROVE  Active(Stop(run[q], why)) /\ Active(StopRefused(run[q]))
<1>1. run[q] \in Records /\ Fits(q) /\ execStep[q] \in Steps
  BY AtHand
<1>2. ~Terminal(run[q]) /\ HasActiveStep(run[q])
  <2>1. IsActiveStep(run[q], execStep[q])
    BY <1>1, FrontierActive DEF Fits, LoopFits
  <2> QED BY <1>1, <2>1
          DEF HasActiveStep, Active, Terminal, ActiveRunStatuses, TerminalRunStatuses
<1>3. Stop(run[q], why) = run[q] \/ Stop(run[q], why).status = "stopping"
  BY <1>1, <1>2 DEF Stop, Records
<1>4. StopRefused(run[q]) = run[q] \/ StopRefused(run[q]).status = "stop_failed"
  BY <1>1 DEF StopRefused, Records
<1> QED BY <1>3, <1>4 DEF Active, ActiveRunStatuses

(* Where the execution is when it writes.                                    *)
LEMMA WriterLocations ==
    ASSUME NEW q \in Requests
    PROVE  /\ ExecBegin(q) => execPc[q] = "begin"
           /\ ExecPersistAgent(q) => execPc[q] = "persist_agent"
           /\ ExecPermWrite(q) => execPc[q] = "perm_write"
           /\ ExecEnds(q) => execPc[q] \in {"create_stop", "admit_stop", "finish"}
           /\ ExecCompleteStop(q) => execPc[q] = "complete_stop"
           /\ ExecCompleteWrite(q) => execPc[q] = "complete_write"
           /\ ExecFail(q) => execPc[q] = "lock_fail"
           /\ CancelSettled(q) => ~Executing(q)
           /\ DeadlineFinish(q) => dlPc[q] = "finish"
           /\ RecoverInterrupted(q) => mode = "recovering"
  BY DEF ExecBegin, ExecPersistAgent, ExecPermWrite, ExecEnds, ExecCreateStop, ExecAdmitStop,
     ExecFinish, ExecCompleteStop, ExecCompleteWrite, ExecFail, CancelSettled, DeadlineFinish,
     RecoverInterrupted

(* While completeStep is about to write, its run stays active: the handlers  *)
(* that end a run wait for its execution, and its agent has completed.       *)
LEMMA SettlingStep ==
    ASSUME IndInv, ProgressInv, EndingInv, ~WithShutdown, [Next]_vars, NEW q \in Requests
    PROVE  Settling(q)'
<1> SUFFICES ASSUME execPc'[q] = "complete_stop" PROVE Active(run'[q])
  BY DEF Settling
<1>1. /\ TypeOK /\ Fits(q) /\ ~ShutdownSteps /\ DeadlineWaits(q) /\ Settling(q)
  BY AtHand, StaysUp DEF EndingInv
<1>2. CASE execPc[q] = "complete_stop"
  <2>1. /\ Active(run[q]) /\ run[q].status # "absent" /\ mode # "recovering" /\ Executing(q)
        /\ execPc[q] \in OnStep /\ agent[q][execStep[q]] = "completed"
    BY <1>1, <1>2, AtHand DEF Settling, Executing, OnStep, Completing, Fits, LoopFits
  <2>2. CASE run'[q] = run[q]
    BY <2>1, <2>2
  <2>3. CASE run'[q] # run[q]
    <3>1. Writer(q)
      BY <1>1, <2>3, RecordWriter
    <3>2. ~ExecCompleteStop(q)
      BY <1>1, GotoLands DEF ExecCompleteStop
    <3>3. ~(StartCreate(q) /\ ~Existing(q))
      BY <2>1 DEF Existing
    <3>4. dlPc[q] # "finish"
      BY <1>1, <2>1 DEF DeadlineWaits
    <3>5. \E why : run'[q] = Stop(run[q], why) \/ run'[q] = StopRefused(run[q])
      BY <1>2, <2>1, <3>1, <3>2, <3>3, <3>4, WriterLocations, Zenon DEF Writer
    <3> QED BY <2>1, <3>5, StopsLeaveActive
  <2> QED BY <2>2, <2>3
<1>3. CASE execPc[q] # "complete_stop"
  <2>1. \/ (StartCreate(q) /\ ~Existing(q)) \/ ExecOutside(q) \/ ExecInside(q)
    BY <1>3, ExecMoves
  <2>2. ~(StartCreate(q) /\ ~Existing(q))
    BY <1>1, <1>3 DEF StartCreate, TypeOK
  <2>3. ~ExecOutside(q)
    BY <1>1, GotoLands, LockLocations DEF ExecOutside, ExecEnqueue, ExecStandAside, ExecBoot,
       ExecBegin, ExecLoop, ExecRevalidate, ExecCreated, ExecPermission, ExecPermCheck,
       ExecPermStopped, ExecPermWrite, ExecTurnEnded, ExecError, ExecFinish, ExecDone,
       ExecClear, WantPcs
  <2>4. ExecCompleteCheck(q)
    BY <1>1, <2>1, <2>2, <2>3, GotoLands DEF ExecInside, ExecCreateCheck, ExecCreateStop,
       ExecCreateAgent, ExecCreateAgentFails, ExecPersistAgent, ExecAdmit, ExecAdmitStop,
       ExecCompleteStop, ExecCompleteWrite, ExecFail
  <2>5. Active(run[q]) /\ UNCHANGED run
    BY <1>1, <2>4, GotoLands DEF ExecCompleteCheck, world
  <2> QED BY <2>5
<1> QED BY <1>2, <1>3

(* A recorded reason stays on record.                                        *)
LEMMA ReasonStays ==
    ASSUME IndInv, [Next]_vars, NEW q \in Requests, run[q].status # "absent",
           run[q].term # "none"
    PROVE  run'[q].term = run[q].term
<1>1. CASE RunsOnward
  BY <1>1 DEF RunsOnward, Onward
<1>2. ASSUME NEW p \in Requests, Admits(p) PROVE run'[q] = run[q]
  <2>1. p # q
    BY <1>2 DEF Admits, Existing
  <2> QED BY <1>2, <2>1 DEF Admits, IndInv, TypeOK
<1> QED BY <1>1, <1>2, RunStep

(* The deadline handler has found no agent to cancel, or finishes.           *)
AtDeadline(q) == dlPc[q] = "finish" \/ stop[<<"deadline", q>>] = "open"

(* It gets there by a step of its stop.                                      *)
LEMMA DeadlineComes ==
    ASSUME IndInv, ProgressInv, ~ShutdownSteps, [Next]_vars, NEW q \in Requests,
           ~AtDeadline(q), AtDeadline(q)'
    PROVE  /\ stop'[<<"deadline", q>>] = "open" /\ run[q].status # "absent"
           /\ \/ StopUpdate("deadline", q) \/ StopCancelSettled("deadline", q)
              \/ StopRecordRefusal("deadline", q) \/ StopWait("deadline", q)
<1> USE DEF AtDeadline
<1>1. TypeOK /\ <<"deadline", q>> \in StopKinds \X Requests
  BY DEF IndInv, StopKinds
<1>2. ASSUME UNCHANGED <<stop, dlPc>> PROVE FALSE
  BY <1>2
<1>3. ASSUME NEW p \in Requests, StartCall(p) \/ StartSteps(p) PROVE FALSE
  <2>1. CASE StartCreate(p)
    BY <1>1, <2>1 DEF StartCreate, TypeOK
  <2>2. CASE ~StartCreate(p)
    BY <1>3, <2>2 DEF StartCall, StartSteps, StartEnqueue, StartStandAside, StartAdmission,
       StartCheck
  <2> QED BY <2>1, <2>2
<1>4. ASSUME NEW p \in Requests, CancelCall(p) \/ CancelSteps(p) PROVE FALSE
  <2>1. /\ dlPc' = dlPc
        /\ \/ stop' = stop
           \/ stop' = [stop EXCEPT ![<<"cancel", p>>] = "update"]
           \/ stop' = [stop EXCEPT ![<<"cancel", p>>] = "idle"]
    BY <1>4, Zenon DEF CancelCall, CancelSteps, CancelEnqueue, CancelStandAside, CancelRequest,
       CancelStopped, CancelSettled, StopCall, StopDone
  <2> QED BY <1>1, <2>1 DEF TypeOK
<1>5. ASSUME NEW p \in Requests,
             ClockReachesDeadline(p) \/ DeadlineSteps(p) \/ RecoverExpired(p)
      PROVE  FALSE
  <2>1. CASE DeadlineStopped(p)
    BY <1>1, <2>1 DEF DeadlineStopped, StopDone, TypeOK
  <2>2. CASE ~DeadlineStopped(p)
    <3>1. /\ \/ dlPc' = dlPc
             \/ dlPc' = [dlPc EXCEPT ![p] = "stopping"]
             \/ dlPc' = [dlPc EXCEPT ![p] = "off"]
          /\ stop' = stop \/ stop' = [stop EXCEPT ![<<"deadline", p>>] = "update"]
      BY <1>5, <2>2, Zenon DEF ClockReachesDeadline, DeadlineSteps, DeadlineFire,
         DeadlineFinish, RecoverExpired, DeadlineCall, StopCall, callers
    <3> QED BY <1>1, <3>1 DEF TypeOK
  <2> QED BY <2>1, <2>2
<1>6. ASSUME NEW p \in Requests, ExecOutside(p) \/ ExecInside(p) PROVE FALSE
  <2>1. \/ dlPc' = dlPc
        \/ dlPc' = [dlPc EXCEPT ![p] = IF dlPc[p] = "armed" THEN "off" ELSE dlPc[p]]
    BY <1>6, Zenon DEF ExecOutside, ExecEnqueue, ExecStandAside, ExecBoot, ExecBegin, ExecLoop,
       ExecRevalidate, ExecCreated, ExecPermission, ExecPermCheck, ExecPermStopped,
       ExecPermWrite, ExecTurnEnded, ExecError, ExecFinish, ExecDone, ExecClear,
       ExecInside, ExecCreateCheck, ExecCreateStop, ExecCreateAgent,
       ExecCreateAgentFails, ExecPersistAgent, ExecAdmit, ExecAdmitStop, ExecCompleteCheck,
       ExecCompleteStop, ExecCompleteWrite, ExecFail, callers
  <2>2. \/ stop' = stop
        \/ stop' = [stop EXCEPT ![<<"exec", p>>] = "update"]
        \/ stop' = [stop EXCEPT ![<<"exec", p>>] = "idle"]
    BY <1>6, Zenon DEF ExecOutside, ExecEnqueue, ExecStandAside, ExecBoot, ExecBegin, ExecLoop,
       ExecRevalidate, ExecCreated, ExecPermission, ExecPermCheck, ExecPermStopped,
       ExecPermWrite, ExecTurnEnded, ExecError, ExecFinish, ExecDone, ExecClear,
       ExecInside, ExecCreateCheck, ExecCreateStop, ExecCreateAgent,
       ExecCreateAgentFails, ExecPersistAgent, ExecAdmit, ExecAdmitStop, ExecCompleteCheck,
       ExecCompleteStop, ExecCompleteWrite, ExecFail, callers, StopCall, StopDone
  <2> QED BY <1>1, <2>1, <2>2 DEF TypeOK
<1>7. ASSUME NEW w \in Workspaces, ArchiveStart(w) \/ ArchiveSteps(w) PROVE FALSE
  <2>1. /\ dlPc' = dlPc
        /\ \/ stop' = stop
           \/ \E p \in Requests : \/ stop' = [stop EXCEPT ![<<"archive", p>>] = "update"]
                                 \/ stop' = [stop EXCEPT ![<<"archive", p>>] = "idle"]
    BY <1>7, Zenon DEF ArchiveSteps, ArchiveStart, ArchiveCommit, ArchiveFail, ArchiveNotify,
       ArchiveStopped, ArchiveFinish, ArchiveUnfenced, ArchiveDetached, ActiveRunIn,
       StopCall, StopDone, callers
  <2> QED BY <1>1, <2>1 DEF TypeOK
<1>8. ~ShutdownCall /\ ~Restart
  <2>1. ~Restart
    BY <1>1 DEF Restart
  <2> QED BY <1>2, <2>1 DEF ShutdownCall
<1>9. ASSUME NEW p \in Requests, NEW i \in Steps, AgentSettle(p, i) PROVE FALSE
  BY <1>2, <1>9 DEF AgentSettle, callers
<1>10. ~RecoverSteps
  BY <1>2, <1>5 DEF RecoverSteps, RecoverInterrupted, RecoverDone, callers
<1>11. Next
  BY <1>2 DEF vars, callers
<1>12. PICK p \in Requests, k \in StopKinds : StopSteps(k, p)
  BY <1>3, <1>4, <1>5, <1>6, <1>7, <1>8, <1>9, <1>10, <1>11, NextCases, ZenonT(60)
<1>13. /\ dlPc' = dlPc /\ \E pc : stop' = [stop EXCEPT ![<<k, p>>] = pc]
       /\ stop[<<k, p>>] # "idle"
  BY <1>12 DEF StopSteps, StopUpdate, StopCancelSettled, StopCancelRefused, StopRecordRefusal,
     StopWait
<1>14. p = q /\ k = "deadline" /\ stop'[<<"deadline", q>>] = "open"
  BY <1>1, <1>13 DEF TypeOK
<1>15. run[q].status # "absent"
  BY <1>13, <1>14, BusyRunExists DEF HandlersIdle
<1>16. ~StopCancelRefused("deadline", q)
  BY <1>1, <1>14 DEF StopCancelRefused, TypeOK
<1> QED BY <1>12, <1>14, <1>15, <1>16 DEF StopSteps

(* An execution that comes upon a run with a stop on record does not begin   *)
(* another step.                                                             *)
LEMMA StepStays ==
    ASSUME IndInv, ProgressInv, [Next]_vars, NEW q \in Requests, Active(run[q]),
           run[q].term # "none", execPc'[q] \in OnStep,
           execPc[q] \in OnStep => agent[q][execStep[q]] \in {"none", "idle"}
    PROVE  execPc[q] \in OnStep /\ execStep'[q] = execStep[q]
<1>1. TypeOK /\ Fits(q) /\ run[q] \in Records
  BY AtHand
<1> SUFFICES ASSUME execPc'[q] # execPc[q] \/ execStep'[q] # execStep[q]
             PROVE  execPc[q] \in OnStep /\ execStep'[q] = execStep[q]
  OBVIOUS
<1>2. ~(StartCreate(q) /\ ~Existing(q))
  BY BusyRunExists DEF Existing
<1>3. ExecOutside(q) \/ ExecInside(q)
  BY <1>2, ExecMoves DEF OnStep, Creating, Unprompted, Streaming, Completing
<1>4. ~ExecBegin(q)
  <2>1. execPc[q] = "begin" => run[q].status = "queued"
    BY <1>1 DEF Fits, LoopFits
  <2>2. run[q].status # "queued"
    BY <1>1 DEF Fits, InOrder, ValidRun, TerminalStatusByReason, Records, ReasonOrNone, Reasons
  <2> QED BY <2>1, <2>2 DEF ExecBegin
<1>5. ~ExecCompleteWrite(q)
  BY <1>1 DEF ExecCompleteWrite, Fits, LoopFits, OnStep, Completing
<1>6. execStep'[q] = execStep[q]
  BY <1>3, <1>4, <1>5 DEF ExecOutside, ExecEnqueue, ExecStandAside, ExecBoot, ExecLoop,
     ExecRevalidate, ExecCreated, ExecPermission, ExecPermCheck, ExecPermStopped,
     ExecPermWrite, ExecTurnEnded, ExecError, ExecFinish, ExecDone, ExecClear,
     ExecInside, ExecCreateCheck, ExecCreateStop, ExecCreateAgent,
     ExecCreateAgentFails, ExecPersistAgent, ExecAdmit, ExecAdmitStop, ExecCompleteCheck,
     ExecCompleteStop, ExecFail
<1>7. execPc[q] \in OnStep
  <2> USE DEF OnStep, Creating, Unprompted, Streaming, Completing
  <2>1. CASE ExecInside(q)
    BY <1>1, <1>4, <2>1, GotoLands DEF ExecInside, ExecCreateCheck, ExecCreateStop,
       ExecCreateAgent, ExecCreateAgentFails, ExecPersistAgent, ExecAdmit, ExecAdmitStop,
       ExecCompleteCheck, ExecCompleteStop, ExecCompleteWrite, ExecFail
  <2>2. CASE ExecEnqueue(q) \/ ExecStandAside(q)
    <3>1. CASE ExecEnqueue(q)
      <4>1. execPc[q] \in WantPcs /\ execPc'[q] = LockPc[execPc[q]]
        BY <1>1, <3>1, GotoLands DEF ExecEnqueue
      <4> QED BY <4>1 DEF WantPcs, LockPc
    <3>2. CASE ExecStandAside(q)
      <4>1. execPc[q] \in LockPcs /\ execPc'[q] = WantPc(execPc[q])
        BY <1>1, <3>2, GotoLands DEF ExecStandAside
      <4>2. execPc[q] = "lock_fail" => WantPc(execPc[q]) = "want_fail"
        BY DEF WantPc, WantPcs, LockPc
      <4> QED BY <4>1, <4>2, LockLocations
    <3> QED BY <2>2, <3>1, <3>2
  <2>3. CASE ExecOutside(q) /\ ~ExecEnqueue(q) /\ ~ExecStandAside(q)
    BY <1>1, <1>4, <2>3, GotoLands DEF ExecOutside, ExecBoot, ExecLoop,
       ExecRevalidate, ExecCreated, ExecPermission, ExecPermCheck, ExecPermStopped,
       ExecPermWrite, ExecTurnEnded, ExecError, ExecFinish, ExecDone, ExecClear
  <2> QED BY <1>3, <2>1, <2>2, <2>3
<1> QED BY <1>6, <1>7

(* A deadline stop that finds no agent leaves one that is not prompted.      *)
LEMMA DeadlineFinds ==
    ASSUME IndInv, ProgressInv, ProgressInv', NEW q \in Requests, run[q].status # "absent",
           ByShutdown(q), Active(run'[q]), stop'[<<"deadline", q>>] = "open",
           \/ StopUpdate("deadline", q) \/ StopCancelSettled("deadline", q)
           \/ StopRecordRefusal("deadline", q) \/ StopWait("deadline", q),
           Executing(q)
    PROVE  /\ run'[q].term # "none"
           /\ execPc[q] \in OnStep => agent[q][execStep[q]] \in {"none", "idle"}
<1> DEFINE i == execStep[q]
<1>1. /\ TypeOK /\ Fits(q) /\ Fits(q)' /\ run[q] \in Records /\ i \in Steps
      /\ <<"deadline", q>> \in StopKinds \X Requests
  BY AtHand DEF ProgressInv, StopKinds
<1>2. CASE StopUpdate("deadline", q)
  <2> DEFINE s == Stop(run[q], OrCancel(RequestedReason(q)))
  <2>1. OrCancel(RequestedReason(q)) \in Reasons
    BY <1>1, ReasonTypes DEF Reasons
  <2>2. /\ s \in Records /\ InOrder(s)
        /\ s # run[q] => s.term # "none"
        /\ Active(s) => s.term # "none"
    BY <1>1, <2>1, StopLawful DEF Fits, Lawful
  <2>3. /\ UpdateRun(q, s) /\ UNCHANGED <<agent, execPc, execStep>>
        /\ stop' = [stop EXCEPT ![<<"deadline", q>>] =
                       IF ShouldCancel(s) THEN "cancel_agent" ELSE ResultOf(s)]
    BY <1>2, Zenon DEF StopUpdate, exec
  <2> HIDE DEF s
  <2>4. run'[q] = s /\ ~ShouldCancel(s)
    BY <1>1, <2>2, <2>3, NeverRejected DEF TypeOK
  <2>5. ASSUME execPc[q] \in OnStep PROVE agent[q][i] \in {"none", "idle"}
    <3>1. LoopFits(s, agent[q], execPc[q], i, execReason'[q])
      BY <1>1, <2>3, <2>4 DEF Fits
    <3>2. IsActiveStep(s, i)
      BY <1>1, <2>2, <2>4, <2>5, <3>1, FrontierActive DEF LoopFits
    <3>3. ActiveStep(s) = i
      BY <1>1, <2>2, <3>2, OrderToForm
    <3>4. ~s.agents[i]
      BY <2>4, <3>3 DEF ShouldCancel
    <3> QED BY <2>4, <2>5, <3>1, <3>4 DEF LoopFits, OnStep
  <2> QED BY <2>2, <2>4, <2>5
<1>3. CASE StopRecordRefusal("deadline", q)
  <2> DEFINE s == StopRefused(run[q])
  <2>1. /\ s \in Records /\ Interrupts(run[q], s) /\ (s # run[q] => s.term # "none")
    BY <1>1, RefusedLawful DEF Fits, Lawful
  <2>2. /\ UpdateRun(q, s) /\ UNCHANGED <<agent, execPc, execStep>>
        /\ stop[<<"deadline", q>>] = "refused"
        /\ stop' = [stop EXCEPT ![<<"deadline", q>>] = ResultOf(s)]
    BY <1>3, Zenon DEF StopRecordRefusal, exec
  <2>3. /\ run[q].term # "none"
        /\ \A j \in Steps : IsActiveStep(run[q], j) => agent[q][j] \notin {"none", "idle"}
    BY <1>1, <2>2 DEF Fits, StopFits, StopKinds
  <2> HIDE DEF s
  <2>4. run'[q] = s /\ s.status # "stop_failed"
    BY <1>1, <2>1, <2>2, NeverRejected DEF TypeOK, ResultOf
  <2>5. execPc[q] \notin OnStep
    <3>1. SUFFICES ASSUME execPc[q] \in OnStep PROVE FALSE
      OBVIOUS
    <3>2. Active(run[q]) /\ InOrder(run[q])
      BY <1>1, <2>1, <2>4 DEF Interrupts, Fits
    <3>3. IsActiveStep(run[q], i) /\ ActiveForm(run[q], i)
      BY <1>1, <3>1, <3>2, FrontierActive DEF Fits, LoopFits
    <3>4. ActiveStep(run[q]) = i /\ HasActiveStep(run[q])
      BY <1>1, <3>2, <3>3, OrderToForm
    <3>5. run[q].agents[i]
      BY <1>1, <2>3, <3>1, <3>2, <3>3 DEF Fits, LoopFits, OnStep, Creating
    <3>6. /\ run[q].steps[i] \in {"stopping", "stop_failed"}
          /\ run[q].status = run[q].steps[i]
      BY <2>3, <3>3 DEF ActiveForm
    <3>7. s.status = "stop_failed"
      BY <1>1, <3>2, <3>4, <3>5, <3>6 DEF s, StopRefused, Records
    <3> QED BY <2>4, <3>7
  <2> QED BY <2>1, <2>3, <2>4, <2>5
<1>4. CASE StopCancelSettled("deadline", q)
  <2>1. run'[q] = run[q] /\ stop'[<<"deadline", q>>] = AfterCancel("deadline", q)
    BY <1>1, <1>4 DEF StopCancelSettled, TypeOK
  <2> QED BY <2>1 DEF AfterCancel, ByShutdown
<1>5. ~StopWait("deadline", q)
  BY DEF StopWait
<1> QED BY <1>2, <1>3, <1>4, <1>5

(* Every step keeps what the deadline handler counts on.                     *)
LEMMA DeadlineWaitsStep ==
    ASSUME IndInv, ProgressInv, EndingInv, ~WithShutdown, [Next]_vars, NEW q \in Requests
    PROVE  DeadlineWaits(q)'
<1> SUFFICES ASSUME AtDeadline(q)', Executing(q)', Active(run'[q])
             PROVE  /\ run'[q].term # "none"
                    /\ execPc'[q] \in OnStep =>
                          agent'[q][execStep'[q]] \in {"none", "idle"}
  BY DEF DeadlineWaits, AtDeadline
<1>1. /\ TypeOK /\ ~ShutdownSteps /\ DeadlineWaits(q) /\ ByShutdown(q) /\ execStep[q] \in Steps
      /\ ProgressInv'
  BY AtHand, StaysUp, ProgressStep DEF EndingInv
<1>2. run[q].status # "absent"
  BY BusyRunExists, DeadlineComes, <1>1 DEF HandlersIdle, AtDeadline, StopKinds
<1>3. Executing(q) /\ Active(run[q])
  BY <1>2, StaysOff, StaysEnded
<1>4. CASE AtDeadline(q)
  <2>1. /\ run[q].term # "none"
        /\ execPc[q] \in OnStep => agent[q][execStep[q]] \in {"none", "idle"}
    BY <1>1, <1>3, <1>4 DEF DeadlineWaits, AtDeadline
  <2>2. run'[q].term # "none"
    BY <1>2, <2>1, ReasonStays
  <2>3. ASSUME execPc'[q] \in OnStep PROVE agent'[q][execStep'[q]] \in {"none", "idle"}
    <3>1. execPc[q] \in OnStep /\ execStep'[q] = execStep[q]
      BY <1>3, <2>1, <2>3, StepStays
    <3>2. ~ExecAdmit(q) \/ Asked(q)
      BY <1>1, <2>1, NotAsked
    <3> QED BY <1>1, <2>1, <3>1, <3>2, AgentChanges
  <2> QED BY <2>2, <2>3
<1>5. CASE ~AtDeadline(q)
  <2>1. /\ stop'[<<"deadline", q>>] = "open"
        /\ \/ StopUpdate("deadline", q) \/ StopCancelSettled("deadline", q)
           \/ StopRecordRefusal("deadline", q) \/ StopWait("deadline", q)
    BY <1>1, <1>5, DeadlineComes
  <2>2. /\ run'[q].term # "none"
        /\ execPc[q] \in OnStep => agent[q][execStep[q]] \in {"none", "idle"}
    BY <1>1, <1>2, <1>3, <2>1, DeadlineFinds
  <2>3. UNCHANGED <<execPc, execStep>>
    BY <2>1 DEF StopUpdate, StopCancelSettled, StopRecordRefusal, StopWait, exec
  <2>4. UNCHANGED agent
    <3>1. ~StopCancelSettled("deadline", q)
      <4>1. StopCancelSettled("deadline", q) =>
                stop'[<<"deadline", q>>] = AfterCancel("deadline", q) /\ run' = run
        BY <1>1 DEF StopCancelSettled, TypeOK, StopKinds
      <4> QED BY <1>1, <2>1, <4>1 DEF AfterCancel, ByShutdown
    <3> QED BY <2>1, <3>1 DEF StopUpdate, StopRecordRefusal, StopWait, world
  <2> QED BY <2>2, <2>3, <2>4
<1> QED BY <1>4, <1>5

(* Then no update changes an ended record.                                   *)
LEMMA FrozenStep ==
    ASSUME IndInv, EndingInv, ~WithShutdown, [Next]_vars, NEW q \in Requests,
           Terminal(run[q])
    PROVE  run'[q] = run[q]
<1>1. /\ ~ShutdownSteps /\ Settling(q) /\ ~Active(run[q]) /\ run[q].status # "absent"
      /\ run[q].status # "queued"
  BY StaysUp DEF EndingInv, Active, Terminal, ActiveRunStatuses, TerminalRunStatuses
<1>2. SUFFICES ASSUME run'[q] # run[q] PROVE FALSE
  OBVIOUS
<1>3. Writer(q)
  BY <1>1, <1>2, RecordWriter
<1>4. ~(StartCreate(q) /\ ~Existing(q)) /\ ~ExecCompleteStop(q)
  BY <1>1 DEF Existing, Settling, ExecCompleteStop
<1>5. \A why : Stop(run[q], why) = run[q] /\ FinishTermination(run[q], why) = run[q]
  BY DEF Stop, FinishTermination
<1>6. /\ StopRefused(run[q]) = run[q] /\ BeginFirstStep(run[q]) = run[q]
      /\ PersistAgentCreated(run[q], execStep[q]) = run[q]
      /\ PermissionState(run[q], execStep[q], perm[q]) = run[q]
  BY <1>1 DEF StopRefused, BeginFirstStep, PersistAgentCreated, PermissionState
<1> QED BY <1>1, <1>2, <1>3, <1>4, <1>5, <1>6, Zenon DEF Writer

(* While nobody shuts the daemon down, nothing rewrites the record of a run  *)
(* that ended, whatever callback comes late: the one update that does not    *)
(* look whether the run is over, completeStep's, finds it active, because a  *)
(* cancellation or an elapsed deadline first waits for the execution.        *)
THEOREM EndedRecordsAreFrozen == ASSUME ~WithShutdown PROVE Spec => TerminalRecordFrozen
<1>1. Init => EndingInv
  BY DEF Init, EndingInv, ByShutdown, DeadlineWaits, Settling, Executing, Absent, StopKinds
<1>2. ASSUME IndInv, ProgressInv, EndingInv, [Next]_vars
      PROVE  EndingInv' /\ \A q \in Requests : Terminal(run[q]) => run'[q] = run[q]
  <2>1. EndingInv'
    BY <1>2, StaysUp, ByShutdownStep, DeadlineWaitsStep, SettlingStep DEF EndingInv
  <2>2. ASSUME NEW q \in Requests, Terminal(run[q]) PROVE run'[q] = run[q]
    BY <1>2, <2>2, FrozenStep
  <2> QED BY <2>1, <2>2
<1>3. IndInv /\ ProgressInv /\ EndingInv /\ [Next]_vars => EndingInv'
  BY <1>2
<1>4. IndInv /\ EndingInv /\ ProgressInv /\ [Next]_vars
          => [\A q \in Requests : Terminal(run[q]) => run'[q] = run[q]]_vars
  BY <1>2
<1> QED BY <1>1, <1>3, <1>4, InductiveInvariant, ProgressInvariant, PTL
        DEF Spec, TerminalRecordFrozen

-----------------------------------------------------------------------------
(* Refinement                                                                *)

(* What the abstract specification sees of the service.                      *)
Statuses == [q \in Requests |-> run[q].status]
StepStates == [q \in Requests |-> run[q].steps]
Owners == [w \in Workspaces |-> ActiveRunIn(w)]

(* It starts where the abstract specification does.                          *)
LEMMA InitRefines == Init => LC!LInit
<1> SUFFICES ASSUME Init PROVE LC!LInit
  OBVIOUS
<1>1. \A q \in Requests : run[q] = Absent
  BY DEF Init
<1>2. /\ Absent.status = "absent" /\ ~Active(Absent)
      /\ Absent.steps = [i \in LC!StepRange |-> "pending"]
  BY DEF Absent, Active, ActiveRunStatuses, Steps, LC!StepRange
<1>3. \A w \in Workspaces : ActiveRunIn(w) = {}
  BY <1>1, <1>2 DEF ActiveRunIn
<1> QED BY <1>1, <1>2, <1>3 DEF LC!LInit

(* createRun is Admit: it takes the workspace, which nobody owns.            *)
LEMMA AdmissionRefines ==
    ASSUME IndInv, NEW q \in Requests, Admits(q)
    PROVE  LC!Admit(q)
<1>1. TypeOK /\ WorkspaceOf[q] \in Workspaces
  BY ConfigAssumption DEF IndInv, ConfigAssumption
<1>2. run'[q] = Queued /\ \A p \in Requests : p # q => run'[p] = run[p]
  BY <1>1 DEF Admits, TypeOK
<1>3. run[q] = Absent
  BY DEF Admits, Existing, IndInv, AbsentRunsUntouched, Untouched
<1>4. Queued.status = "queued" /\ Active(Queued) /\ Queued.steps = Absent.steps
      /\ Absent.status = "absent" /\ ~Active(Absent)
  BY DEF Queued, Absent, Active, ActiveRunStatuses
<1>5. \A w \in Workspaces : ActiveRunIn(w)' = IF w = WorkspaceOf[q] THEN {q} ELSE ActiveRunIn(w)
  <2> TAKE w \in Workspaces
  <2>1. ActiveRunIn(w)' = {p \in Requests : WorkspaceOf[p] = w /\ Active(run'[p])}
    BY DEF ActiveRunIn, Active
  <2>2. CASE w = WorkspaceOf[q]
    <3>1. \A p \in Requests : WorkspaceOf[p] = w => ~Active(run[p])
      BY <2>2 DEF Admits, ActiveRunIn
    <3> QED BY <1>2, <1>4, <2>1, <2>2, <3>1
  <2>3. CASE w # WorkspaceOf[q]
    BY <1>2, <1>3, <1>4, <2>1, <2>3 DEF ActiveRunIn
  <2> QED BY <2>2, <2>3
<1>6. /\ Statuses[q] = "absent" /\ Owners[WorkspaceOf[q]] = {}
      /\ \A p \in Requests : KeyOf[p] = KeyOf[q] => Statuses[p] = "absent"
  BY <1>1, <1>3, <1>4 DEF Statuses, Owners, Admits, Existing
<1>7. Statuses' = [Statuses EXCEPT ![q] = "queued"]
  BY <1>2, <1>4 DEF Statuses
<1>8. Owners' = [Owners EXCEPT ![WorkspaceOf[q]] = {q}]
  BY <1>5 DEF Owners
<1>9. StepStates' = StepStates
  BY <1>2, <1>3, <1>4 DEF StepStates
<1> QED BY <1>6, <1>7, <1>8, <1>9 DEF LC!Admit, Statuses, StepStates, Owners

(* An update of an active run is a Checkpoint by the owner of its workspace, *)
(* and an update of an ended one is no step at all.                          *)
LEMMA UpdateRefines ==
    ASSUME IndInv, OneActiveRunPerWorkspace, RunsLawful
    PROVE  LC!LNext \/ UNCHANGED <<Statuses, StepStates, Owners>>
<1>1. TypeOK /\ WorkspaceOf \in [Requests -> Workspaces]
  BY ConfigAssumption DEF IndInv, ConfigAssumption
<1>2. ASSUME \A p \in Requests : /\ run'[p].status = run[p].status
                                /\ run'[p].steps = run[p].steps
      PROVE  UNCHANGED <<Statuses, StepStates, Owners>>
  <2>1. \A w \in Workspaces : ActiveRunIn(w)' = ActiveRunIn(w)
    BY <1>2 DEF ActiveRunIn, Active
  <2> QED BY <1>2, <2>1 DEF Statuses, StepStates, Owners
<1>3. ASSUME NEW q \in Requests, run[q].status # "absent", Lawful(run[q], run'[q]),
             \A p \in Requests \ {q} : run'[p] = run[p]
      PROVE  LC!LNext \/ UNCHANGED <<Statuses, StepStates, Owners>>
  <2> DEFINE r == run[q]
             s == run'[q]
             home == WorkspaceOf[q]
  <2>1. r \in Records /\ s \in Records /\ s.status # "absent" /\ home \in Workspaces
    BY <1>1, <1>3 DEF TypeOK, Lawful
  <2>2. CASE Terminal(r)
    BY <1>2, <1>3, <2>2 DEF Lawful, Outcome
  <2>3. CASE ~Terminal(r)
    <3>1. Active(r)
      BY <1>3, <2>1, <2>3 DEF Active, Terminal, Records
    <3>2. s.status \in DOMAIN LC!RunMoves /\ LC!CanMove(LC!RunMoves, r.status, s.status)
      BY <1>3, <2>1 DEF Lawful, Records, ActiveRunStatuses, TerminalRunStatuses, LC!RunMoves
    <3>3. s.steps \in [LC!StepRange -> DOMAIN LC!StepMoves]
      BY <2>1 DEF Records, StepStatuses, ActiveStepStatuses, TerminalRunStatuses, LC!StepMoves,
         LC!StepRange, Steps
    <3>4. \A i \in LC!StepRange : LC!CanMove(LC!StepMoves, r.steps[i], s.steps[i])
      BY <1>3 DEF Lawful, LC!StepRange, Steps
    <3>5. Owners[home] = {q}
      BY <2>1, <3>1 DEF Owners, ActiveRunIn, OneActiveRunPerWorkspace
    <3>6. Active(s) <=> s.status \notin LC!Ends
      BY <2>1 DEF Records, Active, ActiveRunStatuses, TerminalRunStatuses, LC!Ends
    <3>7. \A w \in Workspaces :
              ActiveRunIn(w)' = IF w = home THEN (IF s.status \in LC!Ends THEN {} ELSE {q})
                                ELSE ActiveRunIn(w)
      <4> TAKE w \in Workspaces
      <4>1. ActiveRunIn(w)' = {p \in Requests : WorkspaceOf[p] = w /\ Active(run'[p])}
        BY DEF ActiveRunIn, Active
      <4>2. CASE w = home
        <5>1. \A p \in Requests : WorkspaceOf[p] = w /\ p # q => ~Active(run'[p])
          BY <1>3, <3>1, <4>2 DEF OneActiveRunPerWorkspace
        <5> QED BY <3>6, <4>1, <4>2, <5>1
      <4>3. CASE w # home
        BY <1>3, <4>1, <4>3 DEF ActiveRunIn
      <4> QED BY <4>2, <4>3
    <3>8. Statuses' = [Statuses EXCEPT ![q] = s.status] /\ Statuses[q] = r.status
      BY <1>3 DEF Statuses
    <3>9. StepStates' = [StepStates EXCEPT ![q] = s.steps] /\ StepStates[q] = r.steps
      BY <1>3 DEF StepStates
    <3>10. Owners' = [Owners EXCEPT ![home] = IF s.status \in LC!Ends THEN {} ELSE {q}]
      BY <3>7 DEF Owners
    <3>11. LC!Checkpoint(q)
      BY <3>2, <3>3, <3>4, <3>5, <3>8, <3>9, <3>10
         DEF LC!Checkpoint, Statuses, StepStates, Owners
    <3> QED BY <3>11 DEF LC!LNext
  <2> QED BY <2>2, <2>3
<1> QED BY <1>2, <1>3 DEF RunsLawful, StepLawful

(* The service implements TeamRunLifecycle: a workspace is owned by one run  *)
(* from admission to its end, and runs and steps move only along the         *)
(* transition tables of model.ts, which updateRun itself does not consult.   *)
THEOREM ServiceImplementsLifecycle == Spec => Lifecycle
<1>1. IndInv /\ ProgressInv /\ OneActiveRunPerWorkspace /\ [Next]_vars
         => [LC!LNext]_<<Statuses, StepStates, Owners>>
  <2> SUFFICES ASSUME IndInv, ProgressInv, OneActiveRunPerWorkspace, [Next]_vars
               PROVE  [LC!LNext]_<<Statuses, StepStates, Owners>>
    OBVIOUS
  <2>1. ASSUME NEW q \in Requests, Admits(q) PROVE LC!LNext
    BY <2>1, AdmissionRefines DEF LC!LNext
  <2> QED BY <2>1, UpdateRefines, ProgressStep
<1> QED BY <1>1, InitRefines, InductiveInvariant, ProgressInvariant, WorkspaceLock,
           PTL DEF Spec, Lifecycle, LC!LSpec, LC!lifecycle, Statuses, StepStates, Owners
=============================================================================
