--------------------------- MODULE TeamRunsProofs ---------------------------
(***************************************************************************)
(* Theorems about TeamRuns, for any number of requests, workspaces, steps, *)
(* keys and restarts.                                                      *)
(*                                                                         *)
(* The proof goes over the steps of Next twice.  The first pass shows that *)
(* each preserves TypeOK and OperationsExclusive, the second that each     *)
(* moves the run records onward: a record never disappears, never becomes  *)
(* active again, never changes the reason it ends for, and only createRun  *)
(* makes a new one.  The workspace lock, idempotent admission and the      *)
(* permanence of the termination reason follow from the second pass alone. *)
(***************************************************************************)
EXTENDS TeamRunRecordProofs, TLAPS

USE NumStepsAssumption

-----------------------------------------------------------------------------
(* Types *)

(* Every reason the service computes for a termination is one of the four it *)
(* knows, and only requestedTerminationReason may find none.                 *)
LEMMA ReasonTypes ==
    ASSUME TypeOK, NEW q \in Requests, NEW reason \in Reasons
    PROVE  /\ RequestedReason(q) \in ReasonOrNone
           /\ OrCancel(RequestedReason(q)) \in Reasons
           /\ OrCancel(termReq[q]) \in Reasons
           /\ RequestTermination(termReq[q], reason) \in Reasons
<1>1. termReq[q] \in ReasonOrNone /\ run[q].term \in ReasonOrNone
  BY DEF TypeOK, Records
<1>2. RequestedReason(q) \in ReasonOrNone
  BY <1>1 DEF RequestedReason, ReasonOrNone, Reasons
<1>3. RequestTermination(termReq[q], reason) \in Reasons
  BY <1>1 DEF RequestTermination, ReasonOrNone, Reasons
<1> QED BY <1>1, <1>2, <1>3 DEF OrCancel, ReasonOrNone, Reasons

(* updateRun stores a well-shaped record or leaves the one it found.         *)
LEMMA UpdateRunType ==
    ASSUME TypeOK, NEW q \in Requests, NEW new \in Records, UpdateRun(q, new)
    PROVE  run' \in [Requests -> Records]
  BY DEF TypeOK, UpdateRun

(* Appending to a queue keeps its head; the tail of a queue is a queue.      *)
LEMMA SequenceTypes ==
    ASSUME NEW S, NEW s \in Seq(S), NEW e \in S
    PROVE  /\ Append(s, e) \in Seq(S) /\ Append(s, e) # << >>
           /\ s # << >> => Head(Append(s, e)) = Head(s) /\ Tail(s) \in Seq(S)
           /\ s = << >> => Head(Append(s, e)) = e
  OBVIOUS

(* The workspace queues stay queues of handlers: one leaves only a queue it  *)
(* holds.                                                                    *)
LEMMA QueueTypes ==
    ASSUME TypeOK, NEW w \in Workspaces, NEW p \in Procs
    PROVE  /\ Enqueue(p, w) => wsQ' \in [Workspaces -> Seq(Procs)]
           /\ StandAside(p, w) => wsQ' \in [Workspaces -> Seq(Procs)]
           /\ Holds(p, w) /\ Release(w) => wsQ' \in [Workspaces -> Seq(Procs)]
<1>1. wsQ \in [Workspaces -> Seq(Procs)] /\ wsQ[w] \in Seq(Procs)
  BY DEF TypeOK
<1>2. Append(wsQ[w], p) \in Seq(Procs)
  BY <1>1, SequenceTypes
<1>3. wsQ[w] # << >> => Tail(wsQ[w]) \in Seq(Procs)
  BY <1>1, SequenceTypes
<1> QED BY <1>1, <1>2, <1>3, Zenon DEF Enqueue, StandAside, Holds, Release

(* The same of the admission queue.                                          *)
LEMMA AdmissionTypes ==
    ASSUME TypeOK, NEW p \in Procs
    PROVE  /\ Append(admQ, p) \in Seq(Procs)
           /\ HoldsAdmission(p) => Tail(admQ) \in Seq(Procs)
<1>1. admQ \in Seq(Procs)
  BY DEF TypeOK
<1>2. Append(admQ, p) \in Seq(Procs)
  BY <1>1, SequenceTypes
<1>3. admQ # << >> => Tail(admQ) \in Seq(Procs)
  BY <1>1, SequenceTypes
<1> QED BY <1>2, <1>3, Zenon DEF HoldsAdmission

(* The handlers of a request queue in the workspace the request names.       *)
LEMMA ProcTypes ==
    ASSUME NEW q \in Requests
    PROVE  /\ WorkspaceOf[q] \in Workspaces
           /\ <<"start", q>> \in Procs /\ <<"exec", q>> \in Procs /\ <<"cancel", q>> \in Procs
  BY ConfigAssumption DEF ConfigAssumption, Procs

(* The locations of the execution loop outside a queue.                      *)
LEMMA LoopLocations ==
    {"off", "boot", "begin", "loop", "revalidate", "create_stop", "create_agent",
     "persist_agent", "created", "admit_stop", "stream", "perm_check", "perm_write",
     "perm_stop", "complete_stop", "complete_write", "err", "err_workspace",
     "finish", "done", "clearing"} \union WantPcs \subseteq ExecPcs
  BY DEF ExecPcs

(* An execution that moves on, or ends for a reason, keeps its types.        *)
LEMMA GotoTypes ==
    ASSUME TypeOK, NEW q \in Requests
    PROVE  /\ \A pc \in ExecPcs : Goto(q, pc) => execPc' \in [Requests -> ExecPcs]
           /\ \A reason \in ReasonOrNone : GotoFinish(q, reason) =>
                /\ execPc' \in [Requests -> ExecPcs]
                /\ execReason' \in [Requests -> ReasonOrNone]
<1>1. execPc \in [Requests -> ExecPcs] /\ execReason \in [Requests -> ReasonOrNone]
  BY DEF TypeOK
<1>2. ASSUME NEW pc \in ExecPcs, Goto(q, pc) PROVE execPc' \in [Requests -> ExecPcs]
  BY <1>1, <1>2 DEF Goto
<1>3. ASSUME NEW reason \in ReasonOrNone, GotoFinish(q, reason)
      PROVE  /\ execPc' \in [Requests -> ExecPcs]
             /\ execReason' \in [Requests -> ReasonOrNone]
  <2>1. "finish" \in ExecPcs
    BY LoopLocations
  <2>2. execPc' \in [Requests -> ExecPcs]
    BY <1>2, <1>3, <2>1 DEF GotoFinish
  <2>3. execReason' = [execReason EXCEPT ![q] = reason]
    BY <1>3 DEF GotoFinish
  <2> QED BY <1>1, <2>2, <2>3
<1> QED BY <1>2, <1>3

(* The locations that wait in a queue, and the way into them and back.       *)
LEMMA LockLocations ==
    /\ LockPcs = {"lock_create", "lock_admit", "lock_complete", "lock_fail"}
    /\ LockPcs \subseteq ExecPcs
    /\ \A p \in WantPcs : LockPc[p] \in LockPcs
    /\ \A p \in LockPcs : WantPc(p) \in WantPcs
<1>1. LockPcs = {"lock_create", "lock_admit", "lock_complete", "lock_fail"}
  BY DEF LockPcs, LockPc, WantPcs
<1>2. \A p \in WantPcs : LockPc[p] \in LockPcs
  BY DEF LockPcs
<1>3. \A p \in LockPcs : WantPc(p) \in WantPcs
  BY DEF LockPcs, WantPc
<1> QED BY <1>1, <1>2, <1>3 DEF ExecPcs

(* A new installation satisfies the inductive invariant.                     *)
LEMMA InitInvariant == Init => IndInv
<1> SUFFICES ASSUME Init PROVE IndInv
  OBVIOUS
<1>1. TypeOK
  <2>1. Absent \in Records
    BY DEF Absent, Records, StepStatuses, ReasonOrNone, Writers
  <2>2. << >> \in Seq(Procs)
    OBVIOUS
  <2> QED BY <2>1, <2>2, ConfigAssumption
     DEF TypeOK, Init, ConfigAssumption, AgentStates, ReasonOrNone, ExecPcs, StopPcs, Steps
<1>2. OperationsExclusive
  BY DEF Init, OperationsExclusive, InStart, InExec, InCancel
<1>3. AbsentRunsUntouched
  BY DEF Init, AbsentRunsUntouched, Untouched
<1> QED BY <1>1, <1>2, <1>3 DEF IndInv

(* Admission preserves the types: startRun and startAssignmentRun leave only *)
(* the queues they hold.                                                     *)
LEMMA StartTyped ==
    ASSUME IndInv, NEW q \in Requests, StartCall(q) \/ StartSteps(q)
    PROVE  TypeOK'
<1> DEFINE w == WorkspaceOf[q]
<1> USE DEF IndInv
<1>0. w \in Workspaces /\ <<"start", q>> \in Procs
  BY ProcTypes
<1>1. CASE StartCall(q)
  BY <1>1 DEF TypeOK, StartCall, world, memory, exec
<1>2. CASE StartEnqueue(q)
  <2>1. wsQ' \in [Workspaces -> Seq(Procs)]
    BY <1>0, <1>2, QueueTypes DEF StartEnqueue
  <2> QED BY <1>2, <2>1 DEF TypeOK, StartEnqueue, world, memory, exec
<1>3. CASE StartStandAside(q)
  <2>1. wsQ' \in [Workspaces -> Seq(Procs)]
    BY <1>0, <1>3, QueueTypes DEF StartStandAside
  <2> QED BY <1>3, <2>1 DEF TypeOK, StartStandAside, world, memory, exec
<1>4. CASE StartAdmission(q)
  <2>1. admQ' \in Seq(Procs)
    BY <1>0, <1>4, SequenceTypes DEF StartAdmission, TypeOK
  <2> QED BY <1>4, <2>1 DEF TypeOK, StartAdmission, world, memory, exec
<1>5. CASE StartCheck(q)
  <2>1. Holds(<<"start", q>>, w)
    BY <1>5 DEF StartCheck, OperationsExclusive, InStart
  <2>2. /\ wsQ' = wsQ \/ Release(w)
        /\ admQ' = admQ \/ admQ' = Tail(admQ)
        /\ \E pc \in {"create", "idle"} : startPc' = [startPc EXCEPT ![q] = pc]
        /\ HoldsAdmission(<<"start", q>>)
    BY <1>5, Zenon DEF StartCheck
  <2>3. wsQ' \in [Workspaces -> Seq(Procs)]
    BY <1>0, <2>1, <2>2, QueueTypes DEF TypeOK
  <2>4. admQ' \in Seq(Procs)
    BY <1>0, <2>2, AdmissionTypes DEF TypeOK
  <2>5. startPc' \in [Requests -> {"idle", "want", "lock", "admission", "create"}]
    BY <2>2 DEF TypeOK
  <2> QED BY <1>5, <2>3, <2>4, <2>5 DEF TypeOK, StartCheck, world, exec
<1>6. CASE StartCreate(q)
  <2>1. Holds(<<"start", q>>, w) /\ HoldsAdmission(<<"start", q>>)
    BY <1>6 DEF StartCreate, OperationsExclusive, InStart
  <2>2. wsQ' \in [Workspaces -> Seq(Procs)]
    BY <1>0, <1>6, <2>1, QueueTypes DEF StartCreate
  <2>3. admQ' \in Seq(Procs)
    BY <1>0, <1>6, <2>1, AdmissionTypes DEF StartCreate
  <2>4. /\ run' = run \/ run' = [run EXCEPT ![q] = Queued]
        /\ execPc' = execPc \/ execPc' = [execPc EXCEPT ![q] = "boot"]
        /\ dlPc' = dlPc \/ dlPc' = [dlPc EXCEPT ![q] = IF q \in Unattended THEN "armed" ELSE @]
    BY <1>6, Zenon DEF StartCreate
  <2>5. Queued \in Records
    BY DEF Queued, Absent, Records, ActiveRunStatuses, StepStatuses, ReasonOrNone, Writers
  <2>6. run' \in [Requests -> Records]
    <3>1. run \in [Requests -> Records]
      BY DEF TypeOK
    <3> QED BY <2>4, <2>5, <3>1
  <2>7. execPc' \in [Requests -> ExecPcs]
    BY <2>4, LoopLocations DEF TypeOK
  <2>8. dlPc' \in [Requests -> {"off", "armed", "stopping", "finish"}]
    <3>1. dlPc \in [Requests -> {"off", "armed", "stopping", "finish"}]
      BY DEF TypeOK
    <3> QED BY <2>4, <3>1
  <2> QED BY <1>6, <2>2, <2>3, <2>6, <2>7, <2>8 DEF TypeOK, StartCreate
<1> QED BY <1>1, <1>2, <1>3, <1>4, <1>5, <1>6 DEF StartSteps

(* stopActiveRun returns one of its three results.                           *)
LEMMA ResultType == \A r : ResultOf(r) \in StopPcs
  BY DEF ResultOf, StopPcs, StopResults

(* stopActiveRun preserves the types.                                        *)
LEMMA StopTyped ==
    ASSUME TypeOK, NEW q \in Requests, NEW k \in StopKinds, StopSteps(k, q)
    PROVE  TypeOK'
<1>1. CASE StopUpdate(k, q)
  <2> DEFINE new == Stop(run[q], OrCancel(RequestedReason(q)))
  <2>1. OrCancel(RequestedReason(q)) \in ReasonOrNone
    BY ReasonTypes DEF Reasons, ReasonOrNone
  <2>2. new \in Records
    BY <2>1, StopType DEF TypeOK
  <2>3. /\ UpdateRun(q, new)
        /\ \E pc : /\ pc = "cancel_agent" \/ pc = ResultOf(new)
                   /\ stop' = [stop EXCEPT ![<<k, q>>] = pc]
    BY <1>1, Zenon DEF StopUpdate
  <2> HIDE DEF new
  <2>4. run' \in [Requests -> Records]
    BY <2>2, <2>3, UpdateRunType
  <2>5. stop' \in [StopKinds \X Requests -> StopPcs]
    BY <2>3, ResultType DEF TypeOK, StopPcs
  <2> QED BY <1>1, <2>4, <2>5 DEF StopUpdate, TypeOK, memory, exec
<1>2. CASE StopCancelSettled(k, q)
  <2>1. AfterCancel(k, q) \in StopPcs
    BY ResultType DEF AfterCancel, StopPcs
  <2>2. stop' \in [StopKinds \X Requests -> StopPcs]
    BY <1>2, <2>1 DEF StopCancelSettled, TypeOK
  <2>3. agent' \in [Requests -> [Steps -> AgentStates]]
    BY <1>2 DEF StopCancelSettled, TypeOK, AgentStates
  <2> QED BY <1>2, <2>2, <2>3 DEF StopCancelSettled, TypeOK, memory, exec
<1>3. CASE StopCancelRefused(k, q)
  BY <1>3 DEF StopCancelRefused, TypeOK, StopPcs, world, memory, exec
<1>4. CASE StopRecordRefusal(k, q)
  <2>1. run' \in [Requests -> Records]
    BY <1>4, StopRefusedType, UpdateRunType DEF StopRecordRefusal, TypeOK
  <2>2. stop' \in [StopKinds \X Requests -> StopPcs]
    BY <1>4, ResultType DEF StopRecordRefusal, TypeOK
  <2> QED BY <1>4, <2>1, <2>2 DEF StopRecordRefusal, TypeOK, memory, exec
<1>5. CASE StopWait(k, q)
  <2>1. stop' \in [StopKinds \X Requests -> StopPcs]
    BY <1>5, ResultType DEF StopWait, TypeOK
  <2> QED BY <1>5, <2>1 DEF StopWait, TypeOK, world, memory, exec
<1> QED BY <1>1, <1>2, <1>3, <1>4, <1>5 DEF StopSteps

(* cancelRun preserves the types: it leaves only the workspace operation it  *)
(* holds.                                                                    *)
LEMMA CancelTyped ==
    ASSUME IndInv, NEW q \in Requests, CancelCall(q) \/ CancelSteps(q)
    PROVE  TypeOK'
<1> DEFINE w == WorkspaceOf[q]
<1>0. TypeOK /\ w \in Workspaces /\ <<"cancel", q>> \in Procs
  BY ProcTypes DEF IndInv
<1>1. CASE CancelCall(q)
  BY <1>0, <1>1 DEF TypeOK, CancelCall, world, memory, exec
<1>2. CASE CancelEnqueue(q)
  <2>1. wsQ' \in [Workspaces -> Seq(Procs)]
    BY <1>0, <1>2, QueueTypes DEF CancelEnqueue
  <2> QED BY <1>0, <1>2, <2>1 DEF TypeOK, CancelEnqueue, world, memory, exec
<1>3. CASE CancelStandAside(q)
  <2>1. wsQ' \in [Workspaces -> Seq(Procs)]
    BY <1>0, <1>3, QueueTypes DEF CancelStandAside
  <2> QED BY <1>0, <1>3, <2>1 DEF TypeOK, CancelStandAside, world, memory, exec
<1>4. CASE CancelRequest(q)
  <2>1. Holds(<<"cancel", q>>, w)
    BY <1>4 DEF CancelRequest, Admitted
  <2>2. CASE Active(run[q])
    <3>1. RequestTermination(termReq[q], "cancel") \in ReasonOrNone
      BY <1>0, ReasonTypes DEF Reasons, ReasonOrNone
    <3>2. termReq' \in [Requests -> ReasonOrNone]
      BY <1>0, <1>4, <2>2, <3>1 DEF CancelRequest, TypeOK
    <3>3. /\ stop' \in [StopKinds \X Requests -> StopPcs]
          /\ cancelPc' \in [Requests -> {"idle", "want", "lock", "stopping", "await"}]
      BY <1>0, <1>4, <2>2 DEF CancelRequest, StopCall, StopPcs, TypeOK
    <3> QED BY <1>0, <1>4, <2>2, <3>2, <3>3 DEF CancelRequest, TypeOK, world, exec
  <2>3. CASE ~Active(run[q])
    <3>1. wsQ' \in [Workspaces -> Seq(Procs)]
      BY <1>0, <1>4, <2>1, <2>3, QueueTypes DEF CancelRequest
    <3> QED BY <1>0, <1>4, <2>3, <3>1 DEF CancelRequest, TypeOK, world, exec
  <2> QED BY <2>2, <2>3
<1>5. CASE CancelStopped(q)
  <2>1. Holds(<<"cancel", q>>, w)
    BY <1>5 DEF CancelStopped, IndInv, OperationsExclusive, InCancel
  <2>2. wsQ' \in [Workspaces -> Seq(Procs)]
    BY <1>0, <1>5, <2>1, QueueTypes DEF CancelStopped
  <2> QED BY <1>0, <1>5, <2>2 DEF CancelStopped, StopDone, StopPcs, TypeOK, world, exec
<1>6. CASE CancelSettled(q)
  <2>1. OrCancel(termReq[q]) \in ReasonOrNone
    BY <1>0, ReasonTypes DEF Reasons, ReasonOrNone
  <2>2. FinishTermination(run[q], OrCancel(termReq[q])) \in Records
    BY <1>0, <2>1, FinishTerminationType DEF TypeOK
  <2>3. run' \in [Requests -> Records]
    BY <1>0, <1>6, <2>2, UpdateRunType DEF CancelSettled, TypeOK
  <2> QED BY <1>0, <1>6, <2>3 DEF CancelSettled, TypeOK, memory, exec
<1> QED BY <1>1, <1>2, <1>3, <1>4, <1>5, <1>6 DEF CancelSteps

(* The deadline timer and expireUnattendedRun preserve the types.            *)
LEMMA DeadlineTyped ==
    ASSUME TypeOK, NEW q \in Requests, ClockReachesDeadline(q) \/ DeadlineSteps(q)
    PROVE  TypeOK'
<1>1. CASE ClockReachesDeadline(q)
  BY <1>1 DEF TypeOK, ClockReachesDeadline, memory, exec, callers
<1>2. CASE DeadlineFire(q)
  <2>1. RequestTermination(termReq[q], "deadline") \in ReasonOrNone
    BY ReasonTypes DEF Reasons, ReasonOrNone
  <2>2. /\ termReq \in [Requests -> ReasonOrNone]
        /\ dlPc \in [Requests -> {"off", "armed", "stopping", "finish"}]
        /\ stop \in [StopKinds \X Requests -> StopPcs]
    BY DEF TypeOK
  <2>3. CASE Active(run[q])
    <3>1. termReq' \in [Requests -> ReasonOrNone]
      BY <1>2, <2>1, <2>2, <2>3 DEF DeadlineFire, DeadlineCall
    <3>2. stop' \in [StopKinds \X Requests -> StopPcs]
      BY <1>2, <2>2, <2>3 DEF DeadlineFire, DeadlineCall, StopCall, StopPcs
    <3>3. dlPc' \in [Requests -> {"off", "armed", "stopping", "finish"}]
      BY <1>2, <2>2, <2>3 DEF DeadlineFire, DeadlineCall
    <3> QED BY <1>2, <3>1, <3>2, <3>3 DEF DeadlineFire, TypeOK, world, exec
  <2>4. CASE ~Active(run[q])
    <3>1. /\ dlPc' \in [Requests -> {"off", "armed", "stopping", "finish"}]
          /\ UNCHANGED <<termReq, stop>>
      BY <1>2, <2>2, <2>4 DEF DeadlineFire
    <3> QED BY <1>2, <3>1 DEF DeadlineFire, TypeOK, world, exec
  <2> QED BY <2>3, <2>4
<1>3. CASE DeadlineStopped(q)
  BY <1>3 DEF DeadlineStopped, StopDone, StopPcs, TypeOK, world, memory, exec
<1>4. CASE DeadlineFinish(q)
  <2>1. FinishTermination(run[q], "deadline") \in Records
    BY FinishTerminationType DEF TypeOK, Reasons, ReasonOrNone
  <2>2. run' \in [Requests -> Records]
    BY <1>4, <2>1, UpdateRunType DEF DeadlineFinish
  <2> QED BY <1>4, <2>2 DEF DeadlineFinish, TypeOK, memory, exec
<1> QED BY <1>1, <1>2, <1>3, <1>4 DEF DeadlineSteps

(* The steps of an execution outside its workspace operation.                *)
ExecOutside(q) ==
    \/ ExecEnqueue(q) \/ ExecStandAside(q)
    \/ ExecBoot(q) \/ ExecBegin(q) \/ ExecLoop(q) \/ ExecRevalidate(q) \/ ExecCreated(q)
    \/ ExecPermission(q) \/ ExecPermCheck(q) \/ ExecPermStopped(q) \/ ExecPermWrite(q)
    \/ ExecTurnEnded(q) \/ ExecError(q) \/ ExecFinish(q) \/ ExecDone(q) \/ ExecClear(q)

(* The execution loop preserves the types while it holds no operation.       *)
LEMMA ExecOutsideTyped ==
    ASSUME TypeOK, NEW q \in Requests, ExecOutside(q)
    PROVE  TypeOK'
<1> DEFINE w == WorkspaceOf[q]
<1>0. /\ w \in Workspaces /\ <<"exec", q>> \in Procs
      /\ run[q] \in Records /\ RequestedReason(q) \in ReasonOrNone
      /\ OrCancel(termReq[q]) \in ReasonOrNone
  BY ProcTypes, ReasonTypes DEF TypeOK, Reasons, ReasonOrNone
<1>1. CASE ExecEnqueue(q)
  <2>1. wsQ' \in [Workspaces -> Seq(Procs)]
    BY <1>0, <1>1, QueueTypes DEF ExecEnqueue
  <2>2. execPc' \in [Requests -> ExecPcs]
    BY <1>1, LockLocations DEF ExecEnqueue, Goto, TypeOK
  <2> QED BY <1>1, <2>1, <2>2 DEF ExecEnqueue, TypeOK, world, callers
<1>2. CASE ExecStandAside(q)
  <2>1. wsQ' \in [Workspaces -> Seq(Procs)]
    BY <1>0, <1>2, QueueTypes DEF ExecStandAside
  <2>2. execPc' \in [Requests -> ExecPcs]
    BY <1>2, LockLocations, LoopLocations DEF ExecStandAside, Goto, TypeOK
  <2> QED BY <1>2, <2>1, <2>2 DEF ExecStandAside, TypeOK, world, callers
<1>3. CASE ExecBoot(q)
  <2>1. \/ Goto(q, "done") /\ UNCHANGED execReason
        \/ GotoFinish(q, RequestedReason(q))
        \/ Goto(q, "begin") /\ UNCHANGED execReason
    BY <1>3, Zenon DEF ExecBoot
  <2>2. execPc' \in [Requests -> ExecPcs] /\ execReason' \in [Requests -> ReasonOrNone]
    BY <1>0, <2>1, LoopLocations, GotoTypes DEF TypeOK
  <2> QED BY <1>3, <2>2 DEF ExecBoot, TypeOK, world, memory, callers
<1>4. CASE ExecBegin(q)
  <2>1. BeginFirstStep(run[q]) \in Records
    BY <1>0, ExecutionUpdateTypes DEF TypeOK
  <2>2. run' \in [Requests -> Records]
    BY <1>4, <2>1, UpdateRunType DEF ExecBegin
  <2>3. execPc' \in [Requests -> ExecPcs] /\ execStep' \in [Requests -> Steps]
    BY <1>4, LoopLocations DEF ExecBegin, Goto, WantPcs, TypeOK, Steps
  <2> QED BY <1>4, <2>2, <2>3 DEF ExecBegin, TypeOK, memory, callers
<1>5. CASE ExecLoop(q)
  <2>1. \/ Goto(q, "done") /\ UNCHANGED execReason
        \/ GotoFinish(q, OrCancel(termReq[q]))
        \/ Goto(q, "revalidate") /\ UNCHANGED execReason
    BY <1>5, Zenon DEF ExecLoop
  <2>2. execPc' \in [Requests -> ExecPcs] /\ execReason' \in [Requests -> ReasonOrNone]
    BY <1>0, <2>1, LoopLocations, GotoTypes DEF TypeOK
  <2> QED BY <1>5, <2>2 DEF ExecLoop, TypeOK, world, memory, callers
<1>6. CASE ExecRevalidate(q)
  BY <1>0, <1>6, LoopLocations DEF ExecRevalidate, TypeOK, Goto, GotoFinish, world, memory,
     callers, WantPcs
<1>7. CASE ExecCreated(q)
  BY <1>0, <1>7, LoopLocations DEF ExecCreated, TypeOK, Goto, GotoFinish, world, memory,
     callers, WantPcs
<1>8. CASE ExecPermission(q)
  BY <1>0, <1>8, LoopLocations DEF ExecPermission, TypeOK, Goto, GotoFinish, world, memory,
     callers
<1>9. CASE ExecPermCheck(q)
  <2>1. RequestedReason(q) # "none" =>
           RequestTermination(termReq[q], RequestedReason(q)) \in ReasonOrNone
    BY <1>0, ReasonTypes DEF Reasons, ReasonOrNone
  <2>2. \/ /\ Asked(q)
           /\ termReq' = [termReq EXCEPT ![q] = RequestTermination(@, RequestedReason(q))]
           /\ StopCall("exec", q) /\ Goto(q, "perm_stop")
        \/ Goto(q, "perm_write") /\ UNCHANGED <<termReq, stop>>
    BY <1>9, Zenon DEF ExecPermCheck
  <2>3. /\ termReq' \in [Requests -> ReasonOrNone]
        /\ stop' \in [StopKinds \X Requests -> StopPcs]
    BY <2>1, <2>2 DEF Asked, StopCall, StopPcs, TypeOK
  <2>4. execPc' \in [Requests -> ExecPcs]
    BY <2>2, LoopLocations DEF Goto, TypeOK
  <2> QED BY <1>9, <2>3, <2>4 DEF ExecPermCheck, TypeOK, world
<1>10. CASE ExecPermStopped(q)
  BY <1>10, LoopLocations DEF ExecPermStopped, StopDone, StopPcs, Goto, TypeOK, world, memory
<1>11. CASE ExecPermWrite(q)
  <2>1. PermissionState(run[q], execStep[q], perm[q]) \in Records
    BY <1>0, ExecutionUpdateTypes DEF TypeOK
  <2>2. run' \in [Requests -> Records]
    BY <1>11, <2>1, UpdateRunType DEF ExecPermWrite
  <2>3. execPc' \in [Requests -> ExecPcs]
    BY <1>11, LoopLocations DEF ExecPermWrite, Goto, TypeOK
  <2> QED BY <1>11, <2>2, <2>3 DEF ExecPermWrite, TypeOK, memory, callers
<1>12. CASE ExecTurnEnded(q)
  <2>1. \/ /\ Goto(q, "want_complete") \/ Goto(q, "want_fail") \/ Goto(q, "err")
           /\ UNCHANGED execReason
        \/ GotoFinish(q, OrCancel(termReq[q]))
    BY <1>12, Zenon DEF ExecTurnEnded
  <2>2. execPc' \in [Requests -> ExecPcs] /\ execReason' \in [Requests -> ReasonOrNone]
    BY <1>0, <2>1, LoopLocations, GotoTypes DEF WantPcs, TypeOK
  <2> QED BY <1>12, <2>2 DEF ExecTurnEnded, TypeOK, world, memory, callers
<1>13. CASE ExecError(q)
  <2>1. RequestTermination(termReq[q], "workspace") \in ReasonOrNone
    BY ReasonTypes DEF Reasons, ReasonOrNone
  <2>2. \/ /\ Goto(q, "done") \/ Goto(q, "want_fail")
           /\ UNCHANGED <<termReq, execReason>>
        \/ GotoFinish(q, RequestedReason(q)) /\ UNCHANGED termReq
        \/ /\ GotoFinish(q, "workspace")
           /\ termReq' = [termReq EXCEPT ![q] = RequestTermination(@, "workspace")]
    BY <1>13, Zenon DEF ExecError
  <2>3. termReq' \in [Requests -> ReasonOrNone]
    <3>1. termReq \in [Requests -> ReasonOrNone]
      BY DEF TypeOK
    <3> QED BY <2>1, <2>2, <3>1
  <2>4. execReason' \in [Requests -> ReasonOrNone]
    <3>1. "workspace" \in ReasonOrNone
      BY DEF Reasons, ReasonOrNone
    <3>2. \E reason \in ReasonOrNone :
             execReason' = execReason \/ execReason' = [execReason EXCEPT ![q] = reason]
      BY <1>0, <2>2, <3>1, Zenon DEF GotoFinish
    <3>3. execReason \in [Requests -> ReasonOrNone]
      BY DEF TypeOK
    <3> QED BY <3>2, <3>3
  <2>5. Goto(q, "done") \/ Goto(q, "want_fail") \/ Goto(q, "finish")
    BY <2>2, Zenon DEF GotoFinish
  <2>6. {"done", "want_fail", "finish"} \subseteq ExecPcs
    BY LoopLocations DEF WantPcs
  <2>7. execPc' \in [Requests -> ExecPcs]
    BY <2>5, <2>6, GotoTypes
  <2> QED BY <1>13, <2>3, <2>7, <2>4 DEF ExecError, TypeOK, world, callers
<1>14. CASE ExecFinish(q)
  <2>1. FinishTermination(run[q], execReason[q]) \in Records
    BY <1>0, FinishTerminationType DEF TypeOK
  <2>2. run' \in [Requests -> Records]
    BY <1>14, <2>1, UpdateRunType DEF ExecFinish
  <2> QED BY <1>14, <2>2, LoopLocations DEF ExecFinish, Goto, TypeOK, memory, callers
<1>15. CASE ExecDone(q)
  BY <1>0, <1>15, LoopLocations DEF ExecDone, TypeOK, Goto, GotoFinish, world, memory, callers
<1>16. CASE ExecClear(q)
  <2>1. execPc' \in [Requests -> ExecPcs]
    BY <1>16, LoopLocations DEF ExecClear, Goto, TypeOK
  <2>2. /\ termReq \in [Requests -> ReasonOrNone]
        /\ dlPc \in [Requests -> {"off", "armed", "stopping", "finish"}]
    BY DEF TypeOK
  <2>3. CASE Terminal(run[q])
    <3>1. termReq' \in [Requests -> ReasonOrNone]
      BY <1>16, <2>2, <2>3 DEF ExecClear, ReasonOrNone
    <3>2. dlPc' \in [Requests -> {"off", "armed", "stopping", "finish"}]
      BY <1>16, <2>2, <2>3 DEF ExecClear
    <3> QED BY <1>16, <2>1, <3>1, <3>2 DEF ExecClear, TypeOK, world
  <2>4. CASE ~Terminal(run[q])
    BY <1>16, <2>1, <2>4 DEF ExecClear, TypeOK, world
  <2> QED BY <2>3, <2>4
<1> QED BY <1>1, <1>2, <1>3, <1>4, <1>5, <1>6, <1>7, <1>8, <1>9, <1>10, <1>11, <1>12,
           <1>13, <1>14, <1>15, <1>16 DEF ExecOutside

(* The steps of an execution inside its workspace operation.                 *)
ExecInside(q) ==
    \/ ExecCreateCheck(q) \/ ExecCreateStop(q) \/ ExecCreateAgent(q)
    \/ ExecCreateAgentFails(q) \/ ExecPersistAgent(q) \/ ExecAdmit(q) \/ ExecAdmitStop(q)
    \/ ExecCompleteCheck(q) \/ ExecCompleteStop(q) \/ ExecCompleteWrite(q) \/ ExecFail(q)

(* A step of the execution inside its workspace operation is taken by the    *)
(* handler at the head of that workspace's queue.                            *)
LEMMA ExecInsideHolds ==
    ASSUME OperationsExclusive, NEW q \in Requests, ExecInside(q)
    PROVE  Holds(<<"exec", q>>, WorkspaceOf[q])
<1> USE DEF OperationsExclusive, InExec
<1>1. CASE ExecCreateCheck(q)
  BY <1>1, Zenon DEF ExecCreateCheck, ExecAdmitted, Admitted
<1>2. CASE ExecAdmit(q)
  BY <1>2, Zenon DEF ExecAdmit, ExecAdmitted, Admitted
<1>3. CASE ExecCompleteCheck(q)
  BY <1>3, Zenon DEF ExecCompleteCheck, ExecAdmitted, Admitted
<1>4. CASE ExecFail(q)
  BY <1>4, Zenon DEF ExecFail, ExecAdmitted, Admitted
<1>5. CASE execPc[q] \in {"create_stop", "create_agent", "persist_agent", "admit_stop",
                          "complete_stop", "complete_write"}
  BY <1>5
<1>6. ExecInside(q) => \/ ExecCreateCheck(q) \/ ExecAdmit(q)
                       \/ ExecCompleteCheck(q) \/ ExecFail(q)
                       \/ execPc[q] \in {"create_stop", "create_agent", "persist_agent",
                                         "admit_stop", "complete_stop", "complete_write"}
  BY Zenon DEF ExecInside, ExecCreateStop, ExecCreateAgent, ExecCreateAgentFails,
       ExecPersistAgent, ExecAdmitStop, ExecCompleteStop, ExecCompleteWrite
<1> QED BY <1>1, <1>2, <1>3, <1>4, <1>5, <1>6

(* The execution loop preserves the types inside its workspace operation.    *)
LEMMA ExecInsideTyped ==
    ASSUME IndInv, NEW q \in Requests, ExecInside(q)
    PROVE  TypeOK'
<1> DEFINE w == WorkspaceOf[q]
<1>0. /\ TypeOK /\ w \in Workspaces /\ run[q] \in Records
      /\ RequestedReason(q) \in ReasonOrNone /\ execReason[q] \in ReasonOrNone
      /\ execStep[q] \in Steps
  BY ProcTypes, ReasonTypes DEF IndInv, TypeOK, Reasons
<1>H. Release(w) => wsQ' \in [Workspaces -> Seq(Procs)]
  BY <1>0, ProcTypes, ExecInsideHolds, QueueTypes DEF IndInv
<1>Q. UNCHANGED wsQ => wsQ' \in [Workspaces -> Seq(Procs)]
  BY <1>0 DEF TypeOK
<1>U. \A new \in Records : UpdateRun(q, new) => run' \in [Requests -> Records]
  BY <1>0, UpdateRunType
<1>G. \A pc \in ExecPcs : Goto(q, pc) => execPc' \in [Requests -> ExecPcs]
  BY <1>0 DEF Goto, TypeOK
<1>S. \A pc \in ExecPcs : GotoStop(q, pc) =>
         execPc' \in [Requests -> ExecPcs] /\ execReason' \in [Requests -> ReasonOrNone]
  BY <1>0 DEF Goto, GotoStop, TypeOK
<1>R. UNCHANGED execReason => execReason' \in [Requests -> ReasonOrNone]
  BY <1>0 DEF TypeOK
<1>L. {"done", "err", "stream", "created", "create_stop", "create_agent", "persist_agent",
       "admit_stop", "complete_stop", "complete_write", "loop"} \subseteq ExecPcs
  BY LoopLocations
<1> HIDE DEF w
<1>1. CASE ExecCreateCheck(q)
  <2>1. /\ execPc' \in [Requests -> ExecPcs] /\ execReason' \in [Requests -> ReasonOrNone]
        /\ wsQ' \in [Workspaces -> Seq(Procs)]
    BY <1>1, <1>H, <1>Q, <1>G, <1>S, <1>R, <1>L, Zenon DEF ExecCreateCheck, w
  <2> QED BY <1>0, <1>1, <2>1 DEF ExecCreateCheck, TypeOK, world, callers
<1>2. CASE ExecCreateStop(q)
  <2>1. FinishTermination(run[q], execReason[q]) \in Records
    BY <1>0, FinishTerminationType
  <2>2. /\ run' \in [Requests -> Records] /\ execPc' \in [Requests -> ExecPcs]
        /\ wsQ' \in [Workspaces -> Seq(Procs)]
    BY <1>2, <2>1, <1>H, <1>U, <1>G, <1>L, Zenon DEF ExecCreateStop, w
  <2> QED BY <1>0, <1>2, <2>2 DEF ExecCreateStop, TypeOK, callers
<1>3. CASE ExecCreateAgent(q)
  <2>1. execPc' \in [Requests -> ExecPcs]
    BY <1>3, <1>G, <1>L DEF ExecCreateAgent
  <2>2. agent' \in [Requests -> [Steps -> AgentStates]]
    BY <1>0, <1>3 DEF ExecCreateAgent, TypeOK, AgentStates
  <2> QED BY <1>0, <1>3, <2>1, <2>2 DEF ExecCreateAgent, TypeOK, memory, callers
<1>4. CASE ExecCreateAgentFails(q)
  <2>1. execPc' \in [Requests -> ExecPcs] /\ wsQ' \in [Workspaces -> Seq(Procs)]
    BY <1>4, <1>H, <1>G, <1>L, Zenon DEF ExecCreateAgentFails, w
  <2> QED BY <1>0, <1>4, <2>1 DEF ExecCreateAgentFails, TypeOK, world, callers
<1>5. CASE ExecPersistAgent(q)
  <2> DEFINE new == PersistAgentCreated(run[q], execStep[q])
  <2>1. new \in Records
    BY <1>0, ExecutionUpdateTypes
  <2>2. /\ UpdateRun(q, new) /\ Release(w)
        /\ Goto(q, "err") \/ Goto(q, "created")
    BY <1>5, Zenon DEF ExecPersistAgent, w
  <2>3. /\ run' \in [Requests -> Records] /\ execPc' \in [Requests -> ExecPcs]
        /\ wsQ' \in [Workspaces -> Seq(Procs)]
    BY <2>1, <2>2, <1>H, <1>U, <1>G, <1>L, Zenon
  <2> QED BY <1>0, <1>5, <2>3 DEF ExecPersistAgent, TypeOK, callers
<1>6. CASE ExecAdmit(q)
  <2>1. /\ execPc' \in [Requests -> ExecPcs] /\ execReason' \in [Requests -> ReasonOrNone]
        /\ wsQ' \in [Workspaces -> Seq(Procs)]
    BY <1>6, <1>H, <1>Q, <1>G, <1>S, <1>R, <1>L, Zenon DEF ExecAdmit, w
  <2>2. agent' = agent \/ agent' = [agent EXCEPT ![q][execStep[q]] = "streaming"]
    BY <1>6, Zenon DEF ExecAdmit
  <2>3. agent' \in [Requests -> [Steps -> AgentStates]]
    <3>1. agent \in [Requests -> [Steps -> AgentStates]]
      BY <1>0 DEF TypeOK
    <3>2. [agent EXCEPT ![q][execStep[q]] = "streaming"] \in [Requests -> [Steps -> AgentStates]]
      BY <3>1 DEF AgentStates
    <3> QED BY <2>2, <3>1, <3>2
  <2> QED BY <1>0, <1>6, <2>1, <2>3 DEF ExecAdmit, TypeOK, callers
<1>7. CASE ExecAdmitStop(q)
  <2>1. FinishTermination(run[q], execReason[q]) \in Records
    BY <1>0, FinishTerminationType
  <2>2. /\ run' \in [Requests -> Records] /\ execPc' \in [Requests -> ExecPcs]
        /\ wsQ' \in [Workspaces -> Seq(Procs)]
    BY <1>7, <2>1, <1>H, <1>U, <1>G, <1>L, Zenon DEF ExecAdmitStop, w
  <2> QED BY <1>0, <1>7, <2>2 DEF ExecAdmitStop, TypeOK, callers
<1>8. CASE ExecCompleteCheck(q)
  <2>1. /\ execPc' \in [Requests -> ExecPcs] /\ execReason' \in [Requests -> ReasonOrNone]
        /\ wsQ' \in [Workspaces -> Seq(Procs)]
    BY <1>8, <1>H, <1>Q, <1>G, <1>S, <1>R, <1>L, Zenon DEF ExecCompleteCheck, w
  <2> QED BY <1>0, <1>8, <2>1 DEF ExecCompleteCheck, TypeOK, world, callers
<1>9. CASE ExecCompleteStop(q)
  <2>1. TerminationRunUpdate(run[q], execReason[q], "complete") \in Records
    BY <1>0, TerminationRunUpdateType DEF Writers
  <2>2. /\ run' \in [Requests -> Records] /\ execPc' \in [Requests -> ExecPcs]
        /\ wsQ' \in [Workspaces -> Seq(Procs)]
    BY <1>9, <2>1, <1>H, <1>U, <1>G, <1>L, Zenon DEF ExecCompleteStop, w
  <2> QED BY <1>0, <1>9, <2>2 DEF ExecCompleteStop, TypeOK, callers
<1>10. CASE ExecCompleteWrite(q)
  <2> DEFINE i == execStep[q]
             ended == TerminationRunUpdate(run[q], RequestedReason(q), "complete")
             next == StepSucceeded(run[q], i)
  <2>1. ended \in Records /\ next \in Records
    BY <1>0, TerminationRunUpdateType, ExecutionUpdateTypes DEF Writers
  <2>2. /\ UNCHANGED run \/ UpdateRun(q, ended) \/ UpdateRun(q, next)
        /\ Release(w)
        /\ Goto(q, "loop") \/ Goto(q, "done")
    BY <1>10, Zenon DEF ExecCompleteWrite, w
  <2> HIDE DEF ended, next
  <2>3. /\ execPc' \in [Requests -> ExecPcs] /\ wsQ' \in [Workspaces -> Seq(Procs)]
    BY <2>2, <1>H, <1>G, <1>L, Zenon
  <2>4. run' \in [Requests -> Records]
    BY <1>0, <2>1, <2>2, <1>U DEF TypeOK
  <2>5. \E next_i : /\ next_i = i \/ (~LastStep(i) /\ next_i = i + 1)
                   /\ execStep' = [execStep EXCEPT ![q] = next_i]
    BY <1>10, Zenon DEF ExecCompleteWrite
  <2>6. execStep' \in [Requests -> Steps]
    BY <1>0, <2>5 DEF LastStep, Steps, TypeOK
  <2> QED BY <1>0, <1>10, <2>3, <2>4, <2>6 DEF ExecCompleteWrite, TypeOK, callers
<1>11. CASE ExecFail(q)
  <2> DEFINE ended == TerminationRunUpdate(run[q], RequestedReason(q), "fail")
  <2>1. ended \in Records /\ Failed(run[q]) \in Records
    BY <1>0, TerminationRunUpdateType, ExecutionUpdateTypes DEF Writers
  <2>2. /\ UNCHANGED run \/ UpdateRun(q, ended) \/ UpdateRun(q, Failed(run[q]))
        /\ Release(w) /\ Goto(q, "done")
    BY <1>11, Zenon DEF ExecFail, w
  <2> HIDE DEF ended
  <2>3. execPc' \in [Requests -> ExecPcs] /\ wsQ' \in [Workspaces -> Seq(Procs)]
    BY <2>2, <1>H, <1>G, <1>L, Zenon
  <2>4. run' \in [Requests -> Records]
    BY <1>0, <2>1, <2>2, <1>U DEF TypeOK
  <2> QED BY <1>0, <1>11, <2>3, <2>4 DEF ExecFail, TypeOK, callers
<1> QED BY <1>1, <1>2, <1>3, <1>4, <1>5, <1>6, <1>7, <1>8, <1>9, <1>10, <1>11 DEF ExecInside

(* WorkspaceRegistry.archive and its Team Run boundary preserve the types.   *)
LEMMA ArchiveTyped ==
    ASSUME TypeOK, NEW w \in Workspaces, ArchiveStart(w) \/ ArchiveSteps(w)
    PROVE  TypeOK'
<1> DEFINE p == <<"archive", w>>
<1>0. p \in Procs
  BY DEF Procs
<1>1. Holds(p, w) /\ Release(w) => wsQ' \in [Workspaces -> Seq(Procs)]
  BY <1>0, QueueTypes
<1> HIDE DEF p
<1>2. CASE ArchiveStart(w)
  <2>1. wsQ' = wsQ \/ wsQ' = [wsQ EXCEPT ![w] = Append(@, p)]
    BY <1>2, Zenon DEF ArchiveStart, p
  <2>2. Append(wsQ[w], p) \in Seq(Procs)
    BY <1>0, SequenceTypes DEF TypeOK
  <2>3. wsQ' \in [Workspaces -> Seq(Procs)]
    BY <2>1, <2>2 DEF TypeOK
  <2>4. /\ fence' \in [Workspaces -> {"none", "pending", "committed"}]
        /\ archPc' \in [Workspaces -> {"idle", "lock", "notify", "stopping", "finish", "unfenced"}]
    BY <1>2 DEF ArchiveStart, TypeOK
  <2> QED BY <1>2, <2>3, <2>4 DEF ArchiveStart, TypeOK, world, exec
<1>3. CASE ArchiveCommit(w)
  <2>1. wsQ' \in [Workspaces -> Seq(Procs)]
    BY <1>1, <1>3 DEF ArchiveCommit, p
  <2> QED BY <1>3, <2>1 DEF ArchiveCommit, TypeOK, exec
<1>4. CASE ArchiveFail(w)
  <2>1. wsQ' \in [Workspaces -> Seq(Procs)]
    BY <1>1, <1>4 DEF ArchiveFail, p
  <2> QED BY <1>4, <2>1 DEF ArchiveFail, TypeOK, world, exec
<1>5. CASE ArchiveNotify(w)
  <2>1. \/ UNCHANGED <<termReq, stop>>
        \/ \E q \in Requests :
              /\ termReq' = [termReq EXCEPT ![q] = RequestTermination(@, "workspace")]
              /\ StopCall("archive", q)
    BY <1>5, Zenon DEF ArchiveNotify, ActiveRunIn
  <2>2. ASSUME NEW q \in Requests
        PROVE  RequestTermination(termReq[q], "workspace") \in ReasonOrNone
    BY ReasonTypes DEF Reasons, ReasonOrNone
  <2>3. termReq' \in [Requests -> ReasonOrNone]
    BY <2>1, <2>2 DEF TypeOK
  <2>4. stop' \in [StopKinds \X Requests -> StopPcs]
    BY <2>1 DEF StopCall, StopPcs, TypeOK
  <2>5. \E pc \in {"stopping", "finish"} : archPc' = [archPc EXCEPT ![w] = pc]
    BY <1>5, Zenon DEF ArchiveNotify
  <2>6. archPc' \in [Workspaces -> {"idle", "lock", "notify", "stopping", "finish", "unfenced"}]
    BY <2>5 DEF TypeOK
  <2> QED BY <1>5, <2>3, <2>4, <2>6 DEF ArchiveNotify, TypeOK, world, exec
<1>6. CASE ArchiveStopped(w)
  <2>1. stop' \in [StopKinds \X Requests -> StopPcs]
    BY <1>6 DEF ArchiveStopped, StopDone, StopPcs, TypeOK
  <2> QED BY <1>6, <2>1 DEF ArchiveStopped, TypeOK, world, memory, exec
<1>7. CASE ArchiveFinish(w)
  BY <1>7 DEF ArchiveFinish, TypeOK, world, exec
<1>8. CASE ArchiveUnfenced(w)
  BY <1>8 DEF ArchiveUnfenced, TypeOK, memory, exec
<1>9. CASE ArchiveDetached(w)
  <2>1. wsQ' \in [Workspaces -> Seq(Procs)]
    BY <1>1, <1>9 DEF ArchiveDetached, p
  <2> QED BY <1>9, <2>1 DEF ArchiveDetached, TypeOK, world, exec, callers
<1> QED BY <1>2, <1>3, <1>4, <1>5, <1>6, <1>7, <1>8, <1>9 DEF ArchiveSteps

(* shutdown preserves the types.                                             *)
LEMMA ShutdownTyped ==
    ASSUME TypeOK, ShutdownCall \/ ShutdownSteps
    PROVE  TypeOK'
<1>0. <<"shutdown">> \in Procs
  BY DEF Procs
<1>1. CASE ShutdownCall
  <2>1. admQ' \in Seq(Procs)
    BY <1>0, <1>1, AdmissionTypes DEF ShutdownCall
  <2> QED BY <1>1, <2>1 DEF ShutdownCall, TypeOK, world, exec
<1>2. CASE ShutdownFence
  <2>1. admQ' \in Seq(Procs)
    BY <1>0, <1>2, AdmissionTypes DEF ShutdownFence
  <2> QED BY <1>2, <2>1 DEF ShutdownFence, TypeOK, world, exec
<1>3. CASE ShutdownStop
  <2>1. ASSUME NEW q \in Requests
        PROVE  RequestTermination(termReq[q], "shutdown") \in ReasonOrNone
    BY ReasonTypes DEF Reasons, ReasonOrNone
  <2>2. termReq' \in [Requests -> ReasonOrNone]
    BY <1>3, <2>1 DEF ShutdownStop, TypeOK
  <2>3. stop' \in [StopKinds \X Requests -> StopPcs]
    BY <1>3 DEF ShutdownStop, StopPcs, TypeOK
  <2> QED BY <1>3, <2>2, <2>3 DEF ShutdownStop, TypeOK, world, exec
<1>4. CASE ShutdownSettled
  <2>1. stop' \in [StopKinds \X Requests -> StopPcs]
    BY <1>4 DEF ShutdownSettled, StopPcs, TypeOK
  <2> QED BY <1>4, <2>1 DEF ShutdownSettled, TypeOK, world, memory, exec
<1>5. ASSUME NEW q \in Requests, ShutdownFinish(q) PROVE TypeOK'
  <2>1. FinishTermination(run[q], "shutdown") \in Records
    BY FinishTerminationType DEF TypeOK, Reasons, ReasonOrNone
  <2>2. run' \in [Requests -> Records]
    BY <1>5, <2>1, UpdateRunType DEF ShutdownFinish
  <2> QED BY <1>5, <2>2 DEF ShutdownFinish, TypeOK, memory, exec, callers
<1>6. CASE ShutdownRelease
  BY <1>6 DEF ShutdownRelease, TypeOK, world, exec
<1> QED BY <1>1, <1>2, <1>3, <1>4, <1>5, <1>6 DEF ShutdownSteps

(* The end of the process, and initialize in the next one, preserve the      *)
(* types.                                                                    *)
LEMMA RestartTyped ==
    ASSUME TypeOK, Restart \/ RecoverSteps
    PROVE  TypeOK'
<1>1. CASE Restart
  <2>1. /\ wsQ' \in [Workspaces -> Seq(Procs)] /\ admQ' \in Seq(Procs)
        /\ restarts' \in 0..MaxRestarts
    BY <1>1, ConfigAssumption DEF Restart, TypeOK, ConfigAssumption
  <2>2. agent' \in [Requests -> [Steps -> AgentStates]]
    BY <1>1 DEF Restart, TypeOK, AgentStates
  <2>3. /\ execPc' \in [Requests -> ExecPcs]
        /\ stop' \in [StopKinds \X Requests -> StopPcs]
    BY <1>1, LoopLocations DEF Restart, StopPcs
  <2> QED BY <1>1, <2>1, <2>2, <2>3 DEF Restart, TypeOK, ReasonOrNone
<1>2. ASSUME NEW q \in Requests, RecoverExpired(q) PROVE TypeOK'
  <2>1. RequestTermination(termReq[q], "deadline") \in ReasonOrNone
    BY ReasonTypes DEF Reasons, ReasonOrNone
  <2>2. /\ termReq' \in [Requests -> ReasonOrNone]
        /\ stop' \in [StopKinds \X Requests -> StopPcs]
    BY <1>2, <2>1 DEF RecoverExpired, DeadlineCall, StopCall, StopPcs, TypeOK
  <2> QED BY <1>2, <2>2 DEF RecoverExpired, DeadlineCall, TypeOK, world, exec
<1>3. ASSUME NEW q \in Requests, RecoverInterrupted(q) PROVE TypeOK'
  <2>1. FinishTermination(run[q], "shutdown") \in Records
    BY FinishTerminationType DEF TypeOK, Reasons, ReasonOrNone
  <2>2. run' \in [Requests -> Records]
    BY <1>3, <2>1, UpdateRunType DEF RecoverInterrupted
  <2> QED BY <1>3, <2>2 DEF RecoverInterrupted, TypeOK, memory, exec, callers
<1>4. CASE RecoverDone
  BY <1>4 DEF RecoverDone, TypeOK, world, exec, callers
<1> QED BY <1>1, <1>2, <1>3, <1>4 DEF RecoverSteps

(* The end of a provider turn preserves the types.                           *)
LEMMA SettleTyped ==
    ASSUME TypeOK, NEW q \in Requests, NEW i \in Steps, AgentSettle(q, i)
    PROVE  TypeOK'
  BY DEF AgentSettle, SettledTurns, AgentStates, TypeOK, memory, exec, callers

(* Next, by the component that takes the step.                               *)
LEMMA NextCases ==
    ASSUME Next
    PROVE  \/ \E q \in Requests :
                \/ StartCall(q) \/ StartSteps(q)
                \/ CancelCall(q) \/ CancelSteps(q)
                \/ ClockReachesDeadline(q) \/ DeadlineSteps(q)
                \/ ExecOutside(q) \/ ExecInside(q)
                \/ \E i \in Steps : AgentSettle(q, i)
                \/ \E k \in StopKinds : StopSteps(k, q)
           \/ \E w \in Workspaces : ArchiveStart(w) \/ ArchiveSteps(w)
           \/ ShutdownCall \/ ShutdownSteps
           \/ Restart \/ RecoverSteps
<1>1. ASSUME NEW q \in Requests, ExecSteps(q) PROVE ExecOutside(q) \/ ExecInside(q)
  BY <1>1, Zenon DEF ExecSteps, ExecOutside, ExecInside
<1>2. ASSUME NEW q \in Requests, ExecPermission(q) PROVE ExecOutside(q)
  BY <1>2, Zenon DEF ExecOutside
<1> QED BY <1>1, <1>2, ZenonT(60) DEF Next, Environment

(* Every step preserves the types.                                           *)
LEMMA TypeStep == IndInv /\ [Next]_vars => TypeOK'
<1> SUFFICES ASSUME IndInv, [Next]_vars PROVE TypeOK'
  OBVIOUS
<1>0. TypeOK
  BY DEF IndInv
<1>1. CASE Next
  BY <1>0, <1>1, NextCases, StartTyped, CancelTyped, DeadlineTyped, ExecOutsideTyped,
     ExecInsideTyped, SettleTyped, StopTyped, ArchiveTyped, ShutdownTyped, RestartTyped, Zenon
<1>2. CASE UNCHANGED vars
  BY <1>0, <1>2 DEF vars, world, memory, exec, callers, TypeOK
<1> QED BY <1>1, <1>2

-----------------------------------------------------------------------------
(* OperationsExclusive.  Appending to a queue keeps its head; only the head  *)
(* leaves, and it leaves the operation with the same step.                   *)

Joins(w) == wsQ' = wsQ \/ \E x \in Procs : wsQ' = [wsQ EXCEPT ![w] = Append(@, x)]
Leaves(h, w) == Holds(h, w) /\ wsQ' = [wsQ EXCEPT ![w] = Tail(@)]

(* A handler at the head of a queue stays there, unless it is the one that   *)
(* leaves.                                                                   *)
LEMMA HoldsKept ==
    ASSUME TypeOK, NEW w \in Workspaces, NEW h,
           NEW v \in Workspaces, NEW x, Holds(x, v),
           Joins(w) \/ (Leaves(h, w) /\ x # h)
    PROVE  Holds(x, v)'
<1>1. wsQ \in [Workspaces -> Seq(Procs)] /\ wsQ[v] \in Seq(Procs)
  BY DEF TypeOK
<1>2. CASE wsQ'[v] = wsQ[v]
  BY <1>2 DEF Holds
<1>3. CASE v = w /\ \E y \in Procs : wsQ' = [wsQ EXCEPT ![w] = Append(@, y)]
  <2>1. PICK y \in Procs : wsQ' = [wsQ EXCEPT ![w] = Append(@, y)]
    BY <1>3
  <2>2. wsQ'[v] = Append(wsQ[v], y)
    BY <1>1, <1>3, <2>1
  <2>3. Append(wsQ[v], y) # << >> /\ Head(Append(wsQ[v], y)) = Head(wsQ[v])
    BY <1>1, SequenceTypes DEF Holds
  <2> QED BY <2>2, <2>3 DEF Holds
<1>4. CASE v # w
  BY <1>1, <1>2, <1>4 DEF Joins, Leaves
<1>5. CASE v = w /\ Leaves(h, w) /\ x # h
  BY <1>5 DEF Leaves, Holds
<1> QED BY <1>2, <1>3, <1>4, <1>5 DEF Joins

(* What the handlers inside an operation after a step were before it, and    *)
(* that h is not one of them.                                                *)
HeldBefore ==
    \A p \in Requests : /\ InStart(p)' => Holds(<<"start", p>>, WorkspaceOf[p])
                        /\ InExec(p)' => Holds(<<"exec", p>>, WorkspaceOf[p])
                        /\ InCancel(p)' => Holds(<<"cancel", p>>, WorkspaceOf[p])
OutsideAfter(h) ==
    \A p \in Requests : /\ InStart(p)' => <<"start", p>> # h
                        /\ InExec(p)' => <<"exec", p>> # h
                        /\ InCancel(p)' => <<"cancel", p>> # h
AdmissionAfter ==
    \A p \in Requests : startPc'[p] = "create" => HoldsAdmission(<<"start", p>>)'

(* The shape of every step that preserves OperationsExclusive: whoever is    *)
(* inside an operation after it held the operation before it, and the        *)
(* handler that leaves is inside no more.                                    *)
LEMMA ExclusiveStep ==
    ASSUME TypeOK, NEW w \in Workspaces, NEW h,
           Joins(w) \/ (Leaves(h, w) /\ OutsideAfter(h)),
           HeldBefore, AdmissionAfter
    PROVE  OperationsExclusive'
<1> SUFFICES ASSUME NEW p \in Requests
    PROVE  /\ InStart(p)' => Holds(<<"start", p>>, WorkspaceOf[p])'
           /\ InExec(p)' => Holds(<<"exec", p>>, WorkspaceOf[p])'
           /\ InCancel(p)' => Holds(<<"cancel", p>>, WorkspaceOf[p])'
           /\ startPc'[p] = "create" => HoldsAdmission(<<"start", p>>)'
  BY DEF OperationsExclusive
<1>1. WorkspaceOf[p] \in Workspaces
  BY ProcTypes
<1>2. \A x : Holds(x, WorkspaceOf[p]) /\ (Joins(w) \/ (Leaves(h, w) /\ x # h))
              => Holds(x, WorkspaceOf[p])'
  BY <1>1, HoldsKept
<1> QED BY <1>2, Zenon DEF HeldBefore, OutsideAfter, AdmissionAfter

(* Admission keeps workspace operations and admission exclusive: createRun   *)
(* runs at the head of both queues.                                          *)
LEMMA StartExclusive ==
    ASSUME IndInv, NEW q \in Requests, StartCall(q) \/ StartSteps(q)
    PROVE  OperationsExclusive'
<1> DEFINE w == WorkspaceOf[q]
           h == <<"start", q>>
<1>0. TypeOK /\ OperationsExclusive /\ w \in Workspaces /\ h \in Procs
  BY ProcTypes DEF IndInv
<1>1. \A p \in Requests : (InExec(p)' => InExec(p)) /\ (InCancel(p)' => InCancel(p))
  <2>1. cancelPc' = cancelPc /\ (execPc' = execPc \/ execPc' = [execPc EXCEPT ![q] = "boot"])
    BY Zenon DEF StartSteps, StartCall, StartEnqueue, StartStandAside, StartAdmission,
         StartCheck, StartCreate, exec
  <2> QED BY <1>0, <2>1 DEF InExec, InCancel, TypeOK
<1>2. \A p \in Requests : <<"exec", p>> # h /\ <<"cancel", p>> # h
                          /\ (p # q => <<"start", p>> # h)
  OBVIOUS
<1> HIDE DEF h, w
<1> DEFINE Moves(pc) == startPc' = [startPc EXCEPT ![q] = pc]
<1>3. ASSUME NEW pc, Moves(pc)
      PROVE  /\ startPc'[q] = pc
             /\ InStart(q)' <=> pc \in {"admission", "create"}
             /\ \A p \in Requests :
                   p # q => startPc'[p] = startPc[p] /\ (InStart(p)' <=> InStart(p))
  BY <1>0, <1>3 DEF TypeOK, InStart
<1> HIDE DEF Moves
<1>4. ASSUME NEW pc, Moves(pc), pc \in {"admission", "create"} => Holds(h, w)
      PROVE  HeldBefore
  BY <1>0, <1>1, <1>3, <1>4 DEF HeldBefore, OperationsExclusive, h, w
<1>5. ASSUME NEW pc \in {"idle", "want"}, Moves(pc)
      PROVE  OutsideAfter(h)
  BY <1>2, <1>3, <1>5 DEF OutsideAfter
<1>6. ASSUME NEW pc \in {"idle", "want", "lock", "admission"}, Moves(pc),
             UNCHANGED admQ \/ admQ' = Append(admQ, h)
             \/ (HoldsAdmission(h) /\ admQ' = Tail(admQ))
      PROVE  AdmissionAfter
  <2> SUFFICES ASSUME NEW p \in Requests, startPc'[p] = "create"
               PROVE  HoldsAdmission(<<"start", p>>)'
    BY DEF AdmissionAfter
  <2>1. p # q /\ startPc[p] = "create"
    BY <1>3, <1>6
  <2>2. HoldsAdmission(<<"start", p>>) /\ <<"start", p>> # h
    BY <1>0, <1>2, <2>1 DEF OperationsExclusive
  <2>3. admQ \in Seq(Procs)
    BY <1>0 DEF TypeOK
  <2>4. admQ # << >> => Append(admQ, h) # << >> /\ Head(Append(admQ, h)) = Head(admQ)
    BY <1>0, <2>3, SequenceTypes
  <2> QED BY <1>6, <2>2, <2>4 DEF HoldsAdmission
<1>7. CASE StartCall(q)
  <2>1. Moves("want") /\ Joins(w) /\ UNCHANGED admQ
    BY <1>7 DEF StartCall, Moves, Joins, memory
  <2>2. HeldBefore /\ AdmissionAfter
    BY <1>4, <1>6, <2>1
  <2> QED BY <1>0, <2>1, <2>2, ExclusiveStep
<1>8. CASE StartEnqueue(q)
  <2>1. Moves("lock") /\ Joins(w) /\ UNCHANGED admQ
    BY <1>0, <1>8 DEF StartEnqueue, Enqueue, Moves, Joins, w, h
  <2>2. HeldBefore /\ AdmissionAfter
    BY <1>4, <1>6, <2>1
  <2> QED BY <1>0, <2>1, <2>2, ExclusiveStep
<1>9. CASE StartStandAside(q)
  <2>1. Moves("want") /\ Leaves(h, w) /\ UNCHANGED admQ
    BY <1>9, Zenon DEF StartStandAside, StandAside, Moves, Leaves, w, h
  <2>2. HeldBefore /\ AdmissionAfter /\ OutsideAfter(h)
    BY <1>4, <1>5, <1>6, <2>1
  <2> QED BY <1>0, <2>1, <2>2, ExclusiveStep
<1>10. CASE StartAdmission(q)
  <2>1. Moves("admission") /\ Joins(w) /\ Holds(h, w) /\ admQ' = Append(admQ, h)
    BY <1>10, Zenon DEF StartAdmission, Admitted, Moves, Joins, w, h
  <2>2. HeldBefore /\ AdmissionAfter
    BY <1>4, <1>6, <2>1
  <2> QED BY <1>0, <2>1, <2>2, ExclusiveStep
<1>11. CASE StartCheck(q)
  <2>1. Holds(h, w)
    BY <1>0, <1>11 DEF StartCheck, OperationsExclusive, InStart, w, h
  <2>2. CASE Moves("create") /\ UNCHANGED <<wsQ, admQ>> /\ HoldsAdmission(h)
    <3>1. HeldBefore
      BY <1>4, <2>1, <2>2
    <3>2. AdmissionAfter
      BY <1>0, <1>3, <2>2 DEF AdmissionAfter, OperationsExclusive, HoldsAdmission, h
    <3>3. Joins(w)
      BY <2>2 DEF Joins
    <3> QED BY <1>0, <3>1, <3>2, <3>3, ExclusiveStep
  <2>3. CASE Moves("idle") /\ Leaves(h, w) /\ HoldsAdmission(h) /\ admQ' = Tail(admQ)
    <3>1. HeldBefore /\ AdmissionAfter /\ OutsideAfter(h)
      BY <1>4, <1>5, <1>6, <2>3
    <3> QED BY <1>0, <2>3, <3>1, ExclusiveStep
  <2> QED BY <1>11, <2>1, <2>2, <2>3, Zenon DEF StartCheck, Release, Leaves, Moves, w, h
<1>12. CASE StartCreate(q)
  <2>1. Holds(h, w) /\ HoldsAdmission(h)
    BY <1>0, <1>12 DEF StartCreate, OperationsExclusive, InStart, w, h
  <2>2. Moves("idle") /\ Leaves(h, w) /\ admQ' = Tail(admQ)
    BY <1>12, <2>1, Zenon DEF StartCreate, Release, Leaves, Moves, w
  <2>3. HeldBefore /\ AdmissionAfter /\ OutsideAfter(h)
    BY <1>4, <1>5, <1>6, <2>1, <2>2
  <2> QED BY <1>0, <2>2, <2>3, ExclusiveStep
<1> QED BY <1>7, <1>8, <1>9, <1>10, <1>11, <1>12 DEF StartSteps

(* A handler that takes no part in admission leaves it as it is.             *)
LEMMA OtherHandlers ==
    ASSUME IndInv, UNCHANGED <<startPc, admQ>>
    PROVE  /\ AdmissionAfter
           /\ \A p \in Requests : InStart(p)' <=> InStart(p)
  BY DEF AdmissionAfter, InStart, IndInv, OperationsExclusive, HoldsAdmission

(* cancelRun keeps workspace operations exclusive: it stops the run at the   *)
(* head of the queue and leaves with its result.                             *)
LEMMA CancelExclusive ==
    ASSUME IndInv, NEW q \in Requests, CancelCall(q) \/ CancelSteps(q)
    PROVE  OperationsExclusive'
<1> DEFINE w == WorkspaceOf[q]
           h == <<"cancel", q>>
           Moves(pc) == cancelPc' = [cancelPc EXCEPT ![q] = pc]
<1>0. TypeOK /\ OperationsExclusive /\ w \in Workspaces /\ h \in Procs
  BY ProcTypes DEF IndInv
<1>1. UNCHANGED <<startPc, admQ, execPc>>
  BY Zenon DEF CancelCall, CancelSteps, CancelEnqueue, CancelStandAside, CancelRequest,
       CancelStopped, CancelSettled, memory, exec
<1>2. \A p \in Requests : <<"exec", p>> # h /\ <<"start", p>> # h
                          /\ (p # q => <<"cancel", p>> # h)
  OBVIOUS
<1> HIDE DEF h, w
<1>3. ASSUME NEW pc, Moves(pc)
      PROVE  /\ InCancel(q)' <=> pc = "stopping"
             /\ \A p \in Requests : p # q => (InCancel(p)' <=> InCancel(p))
             /\ \A p \in Requests : InExec(p)' <=> InExec(p)
  BY <1>0, <1>1, <1>3 DEF TypeOK, InCancel, InExec
<1> HIDE DEF Moves
<1>4. ASSUME NEW pc, Moves(pc), pc = "stopping" => Holds(h, w)
      PROVE  HeldBefore
  BY <1>0, <1>1, <1>3, <1>4, OtherHandlers DEF HeldBefore, OperationsExclusive, h, w
<1>5. ASSUME NEW pc, Moves(pc), pc # "stopping"
      PROVE  OutsideAfter(h)
  BY <1>2, <1>3, <1>5 DEF OutsideAfter
<1>6. ASSUME NEW pc, Moves(pc),
             \/ Joins(w) /\ (pc = "stopping" => Holds(h, w))
             \/ Leaves(h, w) /\ pc # "stopping"
      PROVE  OperationsExclusive'
  BY <1>0, <1>1, <1>4, <1>5, <1>6, OtherHandlers, ExclusiveStep
<1>7. CASE CancelCall(q)
  BY <1>6, <1>7 DEF CancelCall, Moves, Joins, memory
<1>8. CASE CancelEnqueue(q)
  BY <1>0, <1>6, <1>8 DEF CancelEnqueue, Enqueue, Moves, Joins, w, h
<1>9. CASE CancelStandAside(q)
  <2>1. Moves("want") /\ Leaves(h, w)
    BY <1>9, Zenon DEF CancelStandAside, StandAside, Moves, Leaves, w, h
  <2> QED BY <1>6, <2>1
<1>10. CASE CancelRequest(q)
  <2>1. Holds(h, w)
    BY <1>10, Zenon DEF CancelRequest, Admitted, w, h
  <2>2. \/ Moves("stopping") /\ Joins(w)
        \/ Moves("idle") /\ Leaves(h, w)
    BY <1>10, <2>1, Zenon DEF CancelRequest, Release, Moves, Joins, Leaves, w
  <2> QED BY <1>6, <2>1, <2>2, "idle" # "stopping", Zenon
<1>11. CASE CancelStopped(q)
  <2>1. Holds(h, w)
    BY <1>0, <1>11 DEF CancelStopped, OperationsExclusive, InCancel, w, h
  <2>2. /\ Leaves(h, w)
        /\ \E pc \in {"await", "idle"} : Moves(pc)
    BY <1>11, <2>1, Zenon DEF CancelStopped, Release, Moves, Leaves, w
  <2> QED BY <1>6, <2>2
<1>12. CASE CancelSettled(q)
  BY <1>6, <1>12 DEF CancelSettled, Moves, Joins, memory
<1> QED BY <1>7, <1>8, <1>9, <1>10, <1>11, <1>12 DEF CancelSteps

(* The execution keeps workspace operations exclusive: agent creation,       *)
(* stream admission and completion hold the operation to their last write.   *)
LEMMA ExecExclusive ==
    ASSUME IndInv, NEW q \in Requests, ExecOutside(q) \/ ExecInside(q)
    PROVE  OperationsExclusive'
<1> DEFINE w == WorkspaceOf[q]
           h == <<"exec", q>>
           Moves(pc) == execPc' = [execPc EXCEPT ![q] = pc]
           Inside == {"create_stop", "create_agent", "persist_agent", "admit_stop",
                      "complete_stop", "complete_write"}
<1>0. TypeOK /\ OperationsExclusive /\ w \in Workspaces /\ h \in Procs
  BY ProcTypes DEF IndInv
<1>1. UNCHANGED <<startPc, admQ, cancelPc>>
  <2>1. ASSUME ExecOutside(q) PROVE UNCHANGED <<startPc, admQ, cancelPc>>
    BY <2>1, Zenon DEF ExecOutside, ExecEnqueue, ExecStandAside, ExecBoot, ExecBegin, ExecLoop,
       ExecRevalidate, ExecCreated, ExecPermission, ExecPermCheck, ExecPermStopped, ExecPermWrite,
       ExecTurnEnded, ExecError, ExecFinish, ExecDone, ExecClear, memory, callers
  <2>2. ASSUME ExecInside(q) PROVE UNCHANGED <<startPc, admQ, cancelPc>>
    BY <2>2, Zenon DEF ExecInside, ExecCreateCheck, ExecCreateStop, ExecCreateAgent,
       ExecCreateAgentFails, ExecPersistAgent, ExecAdmit, ExecAdmitStop, ExecCompleteCheck,
       ExecCompleteStop, ExecCompleteWrite, ExecFail, memory, callers
  <2> QED BY <2>1, <2>2
<1>2. \A p \in Requests : <<"cancel", p>> # h /\ <<"start", p>> # h
                          /\ (p # q => <<"exec", p>> # h)
  OBVIOUS
<1> HIDE DEF h, w
<1>3. ASSUME NEW pc, Moves(pc)
      PROVE  /\ InExec(q)' <=> pc \in Inside
             /\ \A p \in Requests : p # q => (InExec(p)' <=> InExec(p))
             /\ \A p \in Requests : InCancel(p)' <=> InCancel(p)
  BY <1>0, <1>1, <1>3 DEF TypeOK, InCancel, InExec
<1> HIDE DEF Moves, Inside
<1>4. ASSUME NEW pc, Moves(pc), pc \in Inside => Holds(h, w)
      PROVE  HeldBefore
  BY <1>0, <1>1, <1>3, <1>4, OtherHandlers DEF HeldBefore, OperationsExclusive, h, w
<1>5. ASSUME NEW pc, Moves(pc), pc \notin Inside
      PROVE  OutsideAfter(h)
  BY <1>2, <1>3, <1>5 DEF OutsideAfter
<1>6. ASSUME NEW pc, Moves(pc),
             \/ Joins(w) /\ (pc \in Inside => Holds(h, w))
             \/ Leaves(h, w) /\ pc \notin Inside
      PROVE  OperationsExclusive'
  BY <1>0, <1>1, <1>4, <1>5, <1>6, OtherHandlers, ExclusiveStep
<1>7. CASE ExecOutside(q)
  <2> DEFINE Elsewhere == {"off", "begin", "loop", "revalidate", "created", "stream", "perm_check",
                           "perm_write", "perm_stop", "err", "err_workspace", "finish", "done",
                           "clearing", "want_create", "want_admit", "want_complete", "want_fail"}
             Stays == UNCHANGED wsQ /\ \E pc \in Elsewhere : Moves(pc)
  <2>0. \A pc \in Elsewhere \union LockPcs \union WantPcs : pc \notin Inside
    BY LockLocations DEF Inside, WantPcs
  <2> USE DEF Moves, Goto, GotoFinish
  <2>1. CASE ExecEnqueue(q)
    <3>1. Joins(w) /\ Moves(LockPc[execPc[q]]) /\ LockPc[execPc[q]] \in LockPcs
      BY <1>0, <2>1, LockLocations DEF ExecEnqueue, Enqueue, Joins, w, h
    <3> QED BY <1>6, <2>0, <3>1
  <2>2. CASE ExecStandAside(q)
    <3>1. Leaves(h, w) /\ Moves(WantPc(execPc[q]))
      BY <2>2, Zenon DEF ExecStandAside, StandAside, Leaves, w, h
    <3>2. WantPc(execPc[q]) \in WantPcs
      BY <2>2, LockLocations DEF ExecStandAside
    <3> QED BY <1>6, <2>0, <3>1, <3>2
  <2>3. ASSUME ExecBoot(q) PROVE Stays
    BY <2>3, Zenon DEF ExecBoot, memory
  <2>4. ASSUME ExecBegin(q) PROVE Stays
    BY <2>4, Zenon DEF ExecBegin, memory
  <2>5. ASSUME ExecLoop(q) PROVE Stays
    BY <2>5, Zenon DEF ExecLoop, memory
  <2>6. ASSUME ExecRevalidate(q) PROVE Stays
    BY <2>6, Zenon DEF ExecRevalidate, memory
  <2>7. ASSUME ExecCreated(q) PROVE Stays
    BY <2>7, Zenon DEF ExecCreated, memory
  <2>8. ASSUME ExecPermission(q) PROVE Stays
    BY <2>8, Zenon DEF ExecPermission, memory
  <2>9. ASSUME ExecPermCheck(q) PROVE Stays
    BY <2>9, Zenon DEF ExecPermCheck, memory
  <2>10. ASSUME ExecPermStopped(q) PROVE Stays
    BY <2>10, Zenon DEF ExecPermStopped, memory
  <2>11. ASSUME ExecPermWrite(q) PROVE Stays
    BY <2>11, Zenon DEF ExecPermWrite, memory
  <2>12. ASSUME ExecTurnEnded(q) PROVE Stays
    BY <2>12, Zenon DEF ExecTurnEnded, memory
  <2>13. ASSUME ExecError(q) PROVE Stays
    BY <2>13, Zenon DEF ExecError, memory
  <2>14. ASSUME ExecFinish(q) PROVE Stays
    BY <2>14, Zenon DEF ExecFinish, memory
  <2>15. ASSUME ExecDone(q) PROVE Stays
    BY <2>15, Zenon DEF ExecDone, memory
  <2>16. ASSUME ExecClear(q) PROVE Stays
    BY <2>16, Zenon DEF ExecClear, memory
  <2> HIDE DEF Stays
  <2>17. CASE Stays
    BY <1>6, <2>0, <2>17 DEF Stays, Joins
  <2> QED BY <1>7, <2>1, <2>2, <2>3, <2>4, <2>5, <2>6, <2>7, <2>8, <2>9, <2>10, <2>11, <2>12,
     <2>13, <2>14, <2>15, <2>16, <2>17, Zenon
          DEF ExecOutside
<1>8. CASE ExecInside(q)
  <2>1. Holds(h, w)
    BY <1>0, <1>8, ExecInsideHolds DEF w, h
  <2> DEFINE Elsewhere == {"err", "created", "stream", "done", "loop"}
             Ends == Leaves(h, w) /\ \E pc \in Elsewhere : Moves(pc)
             Stays == UNCHANGED wsQ /\ \E pc : Moves(pc)
  <2>2. \A pc \in Elsewhere : pc \notin Inside
    BY DEF Inside
  <2>3. Release(w) => Leaves(h, w)
    BY <2>1, Zenon DEF Release, Leaves
  <2>4. ASSUME ExecCreateCheck(q) \/ ExecCreateAgent(q) \/ ExecAdmit(q) \/ ExecCompleteCheck(q)
        PROVE  Ends \/ Stays
    BY <2>3, <2>4, Zenon DEF ExecCreateCheck, ExecCreateAgent, ExecAdmit, ExecCompleteCheck,
       Goto, GotoStop, Moves, memory, w
  <2>5. ASSUME \/ ExecCreateStop(q) \/ ExecCreateAgentFails(q) \/ ExecPersistAgent(q)
               \/ ExecAdmitStop(q) \/ ExecCompleteStop(q) \/ ExecCompleteWrite(q) \/ ExecFail(q)
        PROVE  Ends
    BY <2>3, <2>5, Zenon DEF ExecCreateStop, ExecCreateAgentFails, ExecPersistAgent,
       ExecAdmitStop,
       ExecCompleteStop, ExecCompleteWrite, ExecFail, Goto, Moves, w
  <2>6. Ends \/ Stays
    BY <1>8, <2>4, <2>5, Zenon DEF ExecInside
  <2>7. \E pc : Moves(pc) /\ (Joins(w) \/ (Leaves(h, w) /\ pc \notin Inside))
    BY <2>2, <2>6, Zenon DEF Joins
  <2> QED BY <1>6, <2>1, <2>7, Zenon
<1> QED BY <1>7, <1>8

(* An archive is none of the handlers inside an operation.                   *)
LEMMA SameHandlers ==
    ASSUME IndInv, UNCHANGED <<startPc, admQ, execPc, cancelPc>>
    PROVE  /\ HeldBefore /\ AdmissionAfter
           /\ \A w \in Workspaces : OutsideAfter(<<"archive", w>>)
<1>1. HeldBefore
  BY DEF IndInv, OperationsExclusive, HeldBefore, InStart, InExec, InCancel
<1>2. \A w \in Workspaces : OutsideAfter(<<"archive", w>>)
  BY DEF OutsideAfter
<1> QED BY <1>1, <1>2, OtherHandlers

(* The archive boundary keeps workspace operations exclusive, also when      *)
(* shutdown detached it.                                                     *)
LEMMA ArchiveExclusive ==
    ASSUME IndInv, NEW w \in Workspaces, ArchiveStart(w) \/ ArchiveSteps(w)
    PROVE  OperationsExclusive'
<1> DEFINE h == <<"archive", w>>
<1>0. TypeOK /\ h \in Procs
  BY DEF IndInv, Procs
<1>1. UNCHANGED <<startPc, admQ, execPc, cancelPc>>
  <2>1. CASE ArchiveStart(w) \/ ArchiveCommit(w) \/ ArchiveFail(w) \/ ArchiveDetached(w)
    BY <2>1 DEF ArchiveStart, ArchiveCommit, ArchiveFail, ArchiveDetached, exec, callers
  <2>2. CASE ArchiveNotify(w) \/ ArchiveStopped(w) \/ ArchiveFinish(w) \/ ArchiveUnfenced(w)
    BY <2>2 DEF ArchiveNotify, ArchiveStopped, ArchiveFinish, ArchiveUnfenced, memory, exec
  <2> QED BY <2>1, <2>2 DEF ArchiveSteps
<1>2. HeldBefore /\ AdmissionAfter /\ OutsideAfter(h)
  BY <1>1, SameHandlers
<1> HIDE DEF h
<1>3. CASE ArchiveStart(w)
  <2>1. Joins(w)
    BY <1>0, <1>3, Zenon DEF ArchiveStart, Joins, h
  <2> QED BY <1>0, <1>2, <2>1, ExclusiveStep
<1>4. CASE ArchiveCommit(w) \/ ArchiveFail(w) \/ ArchiveDetached(w)
  <2>1. Leaves(h, w)
    BY <1>4, Zenon DEF ArchiveCommit, ArchiveFail, ArchiveDetached, Release, Leaves, h
  <2> QED BY <1>0, <1>2, <2>1, ExclusiveStep
<1>5. CASE ArchiveNotify(w) \/ ArchiveStopped(w) \/ ArchiveFinish(w) \/ ArchiveUnfenced(w)
  <2>1. Joins(w)
    BY <1>5, Zenon DEF ArchiveNotify, ArchiveStopped, ArchiveFinish, ArchiveUnfenced, Joins,
       memory
  <2> QED BY <1>0, <1>2, <2>1, ExclusiveStep
<1> QED BY <1>3, <1>4, <1>5 DEF ArchiveSteps

(* A step that touches neither the queues nor their members keeps operations *)
(* exclusive.                                                                *)
LEMMA AsideExclusive ==
    ASSUME IndInv, UNCHANGED <<wsQ, startPc, admQ, execPc, cancelPc>>
    PROVE  OperationsExclusive'
  BY DEF IndInv, OperationsExclusive, InStart, InExec, InCancel, Holds, HoldsAdmission

(* shutdown keeps operations exclusive: it waits for admission and takes no  *)
(* workspace operation.                                                      *)
LEMMA ShutdownExclusive ==
    ASSUME IndInv, ShutdownCall \/ ShutdownSteps
    PROVE  OperationsExclusive'
<1> DEFINE h == <<"shutdown">>
<1>0. /\ UNCHANGED <<wsQ, startPc, execPc, cancelPc>>
      /\ \/ UNCHANGED admQ \/ admQ' = Append(admQ, h)
         \/ HoldsAdmission(h) /\ admQ' = Tail(admQ)
  BY Zenon DEF ShutdownCall, ShutdownSteps, ShutdownFence, ShutdownStop, ShutdownSettled,
     ShutdownFinish, ShutdownRelease, memory, exec, callers
<1>1. ASSUME NEW q \in Requests, HoldsAdmission(<<"start", q>>)
      PROVE  HoldsAdmission(<<"start", q>>)'
  <2>1. h \in Procs /\ <<"start", q>> # h
    BY DEF Procs
  <2>2. admQ \in Seq(Procs)
    BY DEF IndInv, TypeOK
  <2> HIDE DEF h
  <2>3. admQ # << >> => Append(admQ, h) # << >> /\ Head(Append(admQ, h)) = Head(admQ)
    BY <2>1, <2>2, SequenceTypes
  <2> QED BY <1>0, <1>1, <2>1, <2>3 DEF HoldsAdmission
<1> HIDE DEF h
<1> QED BY <1>0, <1>1 DEF IndInv, OperationsExclusive, InStart, InExec, InCancel, Holds

(* Every step keeps operations exclusive.                                    *)
LEMMA ExclusiveInvariant == IndInv /\ [Next]_vars => OperationsExclusive'
<1> SUFFICES ASSUME IndInv, [Next]_vars PROVE OperationsExclusive'
  OBVIOUS
<1>1. ASSUME NEW q \in Requests, ClockReachesDeadline(q) \/ DeadlineSteps(q)
      PROVE  OperationsExclusive'
  BY <1>1, AsideExclusive, Zenon DEF ClockReachesDeadline, DeadlineSteps, DeadlineFire,
     DeadlineStopped, DeadlineFinish, memory, exec, callers
<1>2. ASSUME NEW q \in Requests, NEW k \in StopKinds, StopSteps(k, q)
      PROVE  OperationsExclusive'
  BY <1>2, AsideExclusive, Zenon DEF StopSteps, StopUpdate, StopCancelSettled,
     StopCancelRefused,
     StopRecordRefusal, StopWait, memory, exec
<1>3. ASSUME NEW q \in Requests, NEW i \in Steps, AgentSettle(q, i)
      PROVE  OperationsExclusive'
  BY <1>3, AsideExclusive, Zenon DEF AgentSettle, memory, exec, callers
<1>4. CASE Restart
  BY <1>4 DEF Restart, OperationsExclusive, InStart, InExec, InCancel
<1>5. CASE RecoverSteps
  BY <1>5, AsideExclusive, Zenon DEF RecoverSteps, RecoverExpired, RecoverInterrupted,
     RecoverDone,
     memory, exec, callers
<1>6. CASE UNCHANGED vars
  BY <1>6, AsideExclusive, Zenon DEF vars, memory, exec, callers
<1>7. CASE Next
  BY <1>1, <1>2, <1>3, <1>4, <1>5, <1>7, NextCases, StartExclusive, CancelExclusive,
     ExecExclusive, ArchiveExclusive, ShutdownExclusive, Zenon
<1> QED BY <1>6, <1>7

-----------------------------------------------------------------------------
(* AbsentRunsUntouched, and how a record moves.                              *)

(* An update keeps a record in existence, never makes it active again and    *)
(* keeps the termination reason it has.                                      *)
Onward(r, s) ==
    /\ s.status # "absent" /\ (Active(s) => Active(r))
    /\ r.term # "none" => s.term = r.term

(* terminationRunUpdate moves a record onward.                               *)
LEMMA TerminationOnward ==
    ASSUME NEW r \in Records, NEW reason, NEW writer
    PROVE  Onward(r, TerminationRunUpdate(r, reason, writer))
<1> DEFINE s == TerminationRunUpdate(r, reason, writer)
<1>1. /\ s.status \in TerminalRunStatuses
      /\ r.term # "none" => s.term = r.term
  BY OutcomeType DEF TerminationRunUpdate, EffectiveReason, Records
<1>2. Onward(r, s)
  <2> HIDE DEF s
  <2> QED BY <1>1 DEF Onward, Active, ActiveRunStatuses, TerminalRunStatuses
<1> QED BY <1>2

(* Every updater the service passes to updateRun moves an existing record    *)
(* onward: none creates a run, revives an ended one or replaces a reason.    *)
LEMMA UpdatesOnward ==
    ASSUME NEW r \in Records, r.status # "absent", NEW reason, NEW i, NEW isWaiting
    PROVE  /\ Onward(r, r)
           /\ Onward(r, FinishTermination(r, reason))
           /\ Onward(r, Stop(r, reason))
           /\ Onward(r, StopRefused(r))
           /\ Onward(r, BeginFirstStep(r))
           /\ Onward(r, PersistAgentCreated(r, i))
           /\ Onward(r, PermissionState(r, i, isWaiting))
           /\ Active(r) => Onward(r, StepSucceeded(r, i))
           /\ Onward(r, Failed(r))
<1> USE DEF Onward, Active, Records, ActiveRunStatuses, TerminalRunStatuses
<1>1. Onward(r, r)
  OBVIOUS
<1>2. Onward(r, FinishTermination(r, reason))
  BY <1>1, TerminationOnward DEF FinishTermination
<1>3. Onward(r, Stop(r, reason))
  <2>1. ASSUME ~Terminal(r)
        PROVE  Onward(r, [r EXCEPT !.status = "stopping", !.steps[ActiveStep(r)] = "stopping",
                                   !.term = EffectiveReason(r, reason)])
    BY <2>1 DEF Terminal, EffectiveReason
  <2> QED BY <1>1, <2>1, TerminationOnward DEF Stop
<1>4. Onward(r, StopRefused(r))
  BY DEF StopRefused
<1>5. Onward(r, BeginFirstStep(r))
  BY DEF BeginFirstStep
<1>6. Onward(r, PersistAgentCreated(r, i))
  BY DEF PersistAgentCreated
<1>7. Onward(r, PermissionState(r, i, isWaiting))
  BY DEF PermissionState
<1>8. Active(r) => Onward(r, StepSucceeded(r, i))
  BY DEF StepSucceeded
<1>9. Onward(r, Failed(r))
  BY DEF Failed
<1> QED BY <1>1, <1>2, <1>3, <1>4, <1>5, <1>6, <1>7, <1>8, <1>9

RunsOnward ==
    \A p \in Requests : \/ run'[p] = run[p]
                        \/ run[p].status # "absent" /\ Onward(run[p], run'[p])
HandlersIdle(p) ==
    /\ execPc[p] = "off" /\ cancelPc[p] = "idle" /\ dlPc[p] = "off"
    /\ \A k \in StopKinds : stop[<<k, p>>] = "idle"

(* updateRun moves one record onward and leaves the others alone.            *)
LEMMA UpdateOnward ==
    ASSUME TypeOK, NEW q \in Requests, run[q].status # "absent",
           NEW new, Onward(run[q], new), UpdateRun(q, new)
    PROVE  RunsOnward
  BY DEF UpdateRun, RunsOnward, TypeOK

(* A step that writes no record moves all of them onward.                    *)
LEMMA SameRuns == ASSUME UNCHANGED run PROVE RunsOnward
  BY DEF RunsOnward

(* A handler works only on a run that admission has written.                 *)
LEMMA BusyRunExists ==
    ASSUME IndInv, NEW q \in Requests, ~HandlersIdle(q) \/ Active(run[q])
    PROVE  run[q].status # "absent"
  BY DEF IndInv, AbsentRunsUntouched, Untouched, HandlersIdle, Active, ActiveRunStatuses

(* A step about an existing run leaves the absent ones untouched.            *)
LEMMA UntouchedStep ==
    ASSUME IndInv, NEW q \in Requests, run[q].status # "absent", RunsOnward,
           \A p \in Requests : p # q /\ HandlersIdle(p) => HandlersIdle(p)'
    PROVE  AbsentRunsUntouched'
<1> SUFFICES ASSUME NEW p \in Requests, run'[p].status = "absent" PROVE Untouched(p)'
  BY DEF AbsentRunsUntouched
<1>1. run'[p] = run[p] /\ p # q
  BY DEF RunsOnward, Onward
<1>2. Untouched(p)
  BY <1>1 DEF IndInv, AbsentRunsUntouched
<1>3. HandlersIdle(p)'
  BY <1>1, <1>2 DEF Untouched, HandlersIdle
<1> QED BY <1>1, <1>2, <1>3 DEF Untouched, HandlersIdle

(* stopActiveRun moves its run onward.                                       *)
LEMMA StopOnward ==
    ASSUME IndInv, NEW q \in Requests, NEW k \in StopKinds, StopSteps(k, q)
    PROVE  RunsOnward /\ AbsentRunsUntouched'
<1>1. TypeOK /\ run[q] \in Records
  BY DEF IndInv, TypeOK
<1>2. run[q].status # "absent"
  <2>1. stop[<<k, q>>] # "idle"
    BY DEF StopSteps, StopUpdate, StopCancelSettled, StopCancelRefused, StopRecordRefusal,
       StopWait
  <2> QED BY <2>1, BusyRunExists DEF HandlersIdle
<1>3. RunsOnward
  <2>1. CASE StopUpdate(k, q)
    BY <1>1, <1>2, <2>1, UpdatesOnward, UpdateOnward DEF StopUpdate
  <2>2. CASE StopRecordRefusal(k, q)
    BY <1>1, <1>2, <2>2, UpdatesOnward, UpdateOnward DEF StopRecordRefusal
  <2>3. CASE StopCancelSettled(k, q) \/ StopCancelRefused(k, q) \/ StopWait(k, q)
    BY <2>3, SameRuns DEF StopCancelSettled, StopCancelRefused, StopWait, world
  <2> QED BY <2>1, <2>2, <2>3 DEF StopSteps
<1>4. UNCHANGED <<execPc, cancelPc, dlPc>> /\ \E pc : stop' = [stop EXCEPT ![<<k, q>>] = pc]
  BY Zenon DEF StopSteps, StopUpdate, StopCancelSettled, StopCancelRefused, StopRecordRefusal,
     StopWait, exec
<1>5. \A p \in Requests : p # q /\ HandlersIdle(p) => HandlersIdle(p)'
  BY <1>1, <1>4 DEF HandlersIdle, TypeOK
<1> QED BY <1>2, <1>3, <1>5, UntouchedStep

(* The execution moves its run onward. completeStep and failRun write only   *)
(* what requestTermination or an active run allows.                          *)
LEMMA ExecOnward ==
    ASSUME IndInv, NEW q \in Requests, ExecOutside(q) \/ ExecInside(q)
    PROVE  RunsOnward /\ AbsentRunsUntouched'
<1>1. TypeOK /\ run[q] \in Records
  BY DEF IndInv, TypeOK
<1>2. run[q].status # "absent"
  <2>1. ASSUME ExecOutside(q) PROVE execPc[q] # "off"
    BY <2>1, LockLocations DEF ExecOutside, ExecEnqueue, ExecStandAside, ExecBoot, ExecBegin,
       ExecLoop, ExecRevalidate, ExecCreated, ExecPermission, ExecPermCheck, ExecPermStopped,
       ExecPermWrite, ExecTurnEnded, ExecError, ExecFinish, ExecDone, ExecClear, WantPcs
  <2>2. ASSUME ExecInside(q) PROVE execPc[q] # "off"
    BY <2>2 DEF ExecInside, ExecCreateCheck, ExecCreateStop, ExecCreateAgent,
       ExecCreateAgentFails,
       ExecPersistAgent, ExecAdmit, ExecAdmitStop, ExecCompleteCheck, ExecCompleteStop,
       ExecCompleteWrite, ExecFail
  <2> QED BY <2>1, <2>2, BusyRunExists DEF HandlersIdle
<1>3. RunsOnward
  <2> DEFINE Updated(new) == Onward(run[q], new) /\ UpdateRun(q, new)
  <2>0. ASSUME NEW new, Updated(new) PROVE RunsOnward
    BY <1>1, <1>2, <2>0, UpdateOnward
  <2>1. CASE ExecOutside(q)
    <3>1. CASE ExecBegin(q)
      BY <1>1, <1>2, <2>0, <3>1, UpdatesOnward DEF ExecBegin
    <3>2. CASE ExecPermWrite(q)
      BY <1>1, <1>2, <2>0, <3>2, UpdatesOnward DEF ExecPermWrite
    <3>3. CASE ExecFinish(q)
      BY <1>1, <1>2, <2>0, <3>3, UpdatesOnward DEF ExecFinish
    <3>4. ASSUME ~ExecBegin(q), ~ExecPermWrite(q), ~ExecFinish(q)
          PROVE  UNCHANGED run
      BY <2>1, <3>4, Zenon DEF ExecOutside, ExecEnqueue, ExecStandAside, ExecBoot, ExecLoop,
         ExecRevalidate, ExecCreated, ExecPermission, ExecPermCheck, ExecPermStopped,
         ExecTurnEnded, ExecError, ExecDone, ExecClear, world
    <3> QED BY <3>1, <3>2, <3>3, <3>4, SameRuns
  <2>2. CASE ExecInside(q)
    <3>1. CASE ExecCreateStop(q) \/ ExecAdmitStop(q)
      BY <1>1, <1>2, <2>0, <3>1, UpdatesOnward DEF ExecCreateStop, ExecAdmitStop
    <3>2. CASE ExecPersistAgent(q)
      BY <1>1, <1>2, <2>0, <3>2, UpdatesOnward DEF ExecPersistAgent
    <3>3. CASE ExecCompleteStop(q)
      BY <1>1, <2>0, <3>3, TerminationOnward DEF ExecCompleteStop
    <3>4. CASE ExecCompleteWrite(q)
      <4>1. \/ UNCHANGED run
            \/ UpdateRun(q, TerminationRunUpdate(run[q], RequestedReason(q), "complete"))
            \/ Active(run[q]) /\ UpdateRun(q, StepSucceeded(run[q], execStep[q]))
        BY <3>4, Zenon DEF ExecCompleteWrite
      <4> QED BY <1>1, <1>2, <2>0, <4>1, TerminationOnward, UpdatesOnward, SameRuns
    <3>5. CASE ExecFail(q)
      <4>1. \/ UNCHANGED run
            \/ UpdateRun(q, TerminationRunUpdate(run[q], RequestedReason(q), "fail"))
            \/ UpdateRun(q, Failed(run[q]))
        BY <3>5, Zenon DEF ExecFail
      <4> QED BY <1>1, <1>2, <2>0, <4>1, TerminationOnward, UpdatesOnward, SameRuns
    <3>6. CASE \/ ExecCreateCheck(q) \/ ExecCreateAgent(q) \/ ExecCreateAgentFails(q)
               \/ ExecAdmit(q) \/ ExecCompleteCheck(q)
      BY <3>6, SameRuns, Zenon DEF ExecCreateCheck, ExecCreateAgent, ExecCreateAgentFails,
         ExecAdmit, ExecCompleteCheck, world
    <3> QED BY <2>2, <3>1, <3>2, <3>3, <3>4, <3>5, <3>6, Zenon DEF ExecInside
  <2> QED BY <2>1, <2>2
<1>4. /\ \E pc : execPc' = [execPc EXCEPT ![q] = pc]
      /\ cancelPc' = cancelPc
      /\ dlPc' = dlPc \/ \E pc : dlPc' = [dlPc EXCEPT ![q] = pc]
      /\ stop' = stop \/ \E pc : stop' = [stop EXCEPT ![<<"exec", q>>] = pc]
  <2>1. CASE ExecPermCheck(q) \/ ExecPermStopped(q)
    BY <2>1, Zenon DEF ExecPermCheck, ExecPermStopped, StopCall, StopDone, Goto
  <2>2. CASE ExecClear(q)
    <3>1. \/ dlPc' = dlPc \/ dlPc' = [dlPc EXCEPT ![q] = IF dlPc[q] = "armed" THEN "off" ELSE dlPc[q]]
      BY <2>2 DEF ExecClear
    <3> QED BY <2>2, <3>1, Zenon DEF ExecClear, Goto
  <2>3. CASE \/ ExecEnqueue(q) \/ ExecStandAside(q) \/ ExecBoot(q) \/ ExecBegin(q)
             \/ ExecLoop(q) \/ ExecRevalidate(q) \/ ExecCreated(q)
    BY <2>3, Zenon DEF ExecEnqueue, ExecStandAside, ExecBoot, ExecBegin, ExecLoop,
       ExecRevalidate,
       ExecCreated, Goto, GotoFinish, callers
  <2>4. CASE \/ ExecPermission(q) \/ ExecPermWrite(q) \/ ExecTurnEnded(q) \/ ExecError(q)
             \/ ExecFinish(q) \/ ExecDone(q)
    BY <2>4, Zenon DEF ExecPermission, ExecPermWrite, ExecTurnEnded, ExecError, ExecFinish,
       ExecDone, Goto, GotoFinish, callers
  <2>5. CASE ExecInside(q)
    BY <2>5, Zenon DEF ExecInside, ExecCreateCheck, ExecCreateStop, ExecCreateAgent,
       ExecCreateAgentFails, ExecPersistAgent, ExecAdmit, ExecAdmitStop, ExecCompleteCheck,
       ExecCompleteStop, ExecCompleteWrite, ExecFail, Goto, GotoStop, callers
  <2> QED BY <2>1, <2>2, <2>3, <2>4, <2>5, Zenon DEF ExecOutside
<1>5. \A p \in Requests : p # q /\ HandlersIdle(p) => HandlersIdle(p)'
  BY <1>1, <1>4 DEF HandlersIdle, TypeOK
<1> QED BY <1>2, <1>3, <1>5, UntouchedStep

(* cancelRun moves its run onward.                                           *)
LEMMA CancelOnward ==
    ASSUME IndInv, NEW q \in Requests, CancelCall(q) \/ CancelSteps(q)
    PROVE  RunsOnward /\ AbsentRunsUntouched'
<1>1. TypeOK /\ run[q] \in Records
  BY DEF IndInv, TypeOK
<1>2. run[q].status # "absent"
  <2>1. cancelPc[q] # "idle" \/ Active(run[q])
    BY DEF CancelCall, CancelSteps, CancelEnqueue, CancelStandAside, CancelRequest,
       CancelStopped, CancelSettled
  <2> QED BY <2>1, BusyRunExists DEF HandlersIdle
<1>3. RunsOnward
  <2>1. CASE CancelSettled(q)
    <3>1. UNCHANGED run \/ UpdateRun(q, FinishTermination(run[q], OrCancel(termReq[q])))
      BY <2>1, Zenon DEF CancelSettled
    <3> QED BY <1>1, <1>2, <3>1, UpdatesOnward, UpdateOnward, SameRuns
  <2>2. CASE CancelCall(q) \/ CancelEnqueue(q) \/ CancelStandAside(q) \/ CancelRequest(q)
             \/ CancelStopped(q)
    BY <2>2, SameRuns, Zenon DEF CancelCall, CancelEnqueue, CancelStandAside, CancelRequest,
       CancelStopped, world
  <2> QED BY <2>1, <2>2 DEF CancelSteps
<1>4. /\ UNCHANGED <<execPc, dlPc>>
      /\ \E pc : cancelPc' = [cancelPc EXCEPT ![q] = pc]
      /\ stop' = stop \/ \E pc : stop' = [stop EXCEPT ![<<"cancel", q>>] = pc]
  BY Zenon DEF CancelCall, CancelSteps, CancelEnqueue, CancelStandAside, CancelRequest,
     CancelStopped, CancelSettled, StopCall, StopDone, exec
<1>5. \A p \in Requests : p # q /\ HandlersIdle(p) => HandlersIdle(p)'
  BY <1>1, <1>4 DEF HandlersIdle, TypeOK
<1> QED BY <1>2, <1>3, <1>5, UntouchedStep

(* The deadline timer, in service and in recovery, moves its run onward.     *)
LEMMA DeadlineOnward ==
    ASSUME IndInv, NEW q \in Requests,
           ClockReachesDeadline(q) \/ DeadlineSteps(q) \/ RecoverExpired(q)
    PROVE  RunsOnward /\ AbsentRunsUntouched'
<1>1. TypeOK /\ run[q] \in Records
  BY DEF IndInv, TypeOK
<1>2. run[q].status # "absent"
  <2>1. dlPc[q] # "off" \/ Active(run[q]) \/ run[q].status # "absent"
    BY DEF ClockReachesDeadline, DeadlineSteps, DeadlineFire, DeadlineStopped, DeadlineFinish,
       RecoverExpired
  <2> QED BY <2>1, BusyRunExists DEF HandlersIdle
<1>3. RunsOnward
  <2>1. CASE DeadlineFinish(q)
    BY <1>1, <1>2, <2>1, UpdatesOnward, UpdateOnward DEF DeadlineFinish
  <2>2. CASE ClockReachesDeadline(q) \/ DeadlineFire(q) \/ DeadlineStopped(q) \/ RecoverExpired(q)
    BY <2>2, SameRuns, Zenon DEF ClockReachesDeadline, DeadlineFire, DeadlineStopped,
       RecoverExpired, world
  <2> QED BY <2>1, <2>2 DEF DeadlineSteps
<1>4. /\ UNCHANGED <<execPc, cancelPc>>
      /\ dlPc' = dlPc \/ \E pc : dlPc' = [dlPc EXCEPT ![q] = pc]
      /\ stop' = stop \/ \E pc : stop' = [stop EXCEPT ![<<"deadline", q>>] = pc]
  BY Zenon DEF ClockReachesDeadline, DeadlineSteps, DeadlineFire, DeadlineStopped,
     DeadlineFinish,
     RecoverExpired, DeadlineCall, StopCall, StopDone, exec, callers
<1>5. \A p \in Requests : p # q /\ HandlersIdle(p) => HandlersIdle(p)'
  BY <1>1, <1>4 DEF HandlersIdle, TypeOK
<1> QED BY <1>2, <1>3, <1>5, UntouchedStep

(* A step that leaves the runs alone and wakes no handler of an absent run.  *)
LEMMA QuietStep ==
    ASSUME IndInv, UNCHANGED run,
           \A p \in Requests : run[p].status = "absent" /\ HandlersIdle(p) => HandlersIdle(p)'
    PROVE  RunsOnward /\ AbsentRunsUntouched'
<1>1. AbsentRunsUntouched'
  BY DEF IndInv, AbsentRunsUntouched, Untouched, HandlersIdle
<1> QED BY <1>1, SameRuns

(* An archive writes no record itself; it stops only an active run.          *)
LEMMA ArchiveOnward ==
    ASSUME IndInv, NEW w \in Workspaces, ArchiveStart(w) \/ ArchiveSteps(w)
    PROVE  RunsOnward /\ AbsentRunsUntouched'
<1>0. stop \in [StopKinds \X Requests -> StopPcs]
  BY DEF IndInv, TypeOK
<1>1. UNCHANGED <<run, execPc, cancelPc, dlPc>>
  <2>1. CASE ArchiveStart(w) \/ ArchiveCommit(w) \/ ArchiveFail(w) \/ ArchiveDetached(w)
    BY <2>1 DEF ArchiveStart, ArchiveCommit, ArchiveFail, ArchiveDetached, world, exec, callers
  <2>2. CASE ArchiveNotify(w) \/ ArchiveStopped(w) \/ ArchiveFinish(w) \/ ArchiveUnfenced(w)
    BY <2>2 DEF ArchiveNotify, ArchiveStopped, ArchiveFinish, ArchiveUnfenced, world, memory,
       exec
  <2> QED BY <2>1, <2>2 DEF ArchiveSteps
<1>2. \/ stop' = stop
      \/ \E q \in Requests : \/ stop' = [stop EXCEPT ![<<"archive", q>>] = "idle"]
                            \/ /\ run[q].status # "absent"
                               /\ stop' = [stop EXCEPT ![<<"archive", q>>] = "update"]
  <2>1. CASE ArchiveNotify(w)
    <3>1. \/ stop' = stop
          \/ \E q \in Requests : Active(run[q]) /\ StopCall("archive", q)
      BY <2>1, Zenon DEF ArchiveNotify, ActiveRunIn
    <3>2. CASE stop' = stop
      BY <3>2
    <3>3. CASE \E q \in Requests : Active(run[q]) /\ StopCall("archive", q)
      <4>1. PICK q \in Requests : Active(run[q]) /\ StopCall("archive", q)
        BY <3>3
      <4>2. run[q].status # "absent"
        BY <4>1, BusyRunExists
      <4> QED BY <4>1, <4>2, Zenon DEF StopCall
    <3> QED BY <3>1, <3>2, <3>3
  <2>2. CASE ArchiveStopped(w)
    BY <2>2, Zenon DEF ArchiveStopped, StopDone
  <2>3. CASE ArchiveStart(w) \/ ArchiveCommit(w) \/ ArchiveFail(w) \/ ArchiveDetached(w)
             \/ ArchiveFinish(w) \/ ArchiveUnfenced(w)
    BY <2>3, Zenon DEF ArchiveStart, ArchiveCommit, ArchiveFail, ArchiveDetached, ArchiveFinish,
       ArchiveUnfenced, callers
  <2> QED BY <2>1, <2>2, <2>3, Zenon DEF ArchiveSteps
<1>3. ASSUME NEW p \in Requests, run[p].status = "absent", HandlersIdle(p)
      PROVE  HandlersIdle(p)'
  BY <1>0, <1>1, <1>2, <1>3 DEF HandlersIdle
<1> QED BY <1>1, <1>3, QuietStep

(* shutdown ends active runs only, and a crash writes nothing.               *)
LEMMA ShutdownOnward ==
    ASSUME IndInv, ShutdownCall \/ ShutdownSteps \/ Restart \/ RecoverDone
    PROVE  RunsOnward /\ AbsentRunsUntouched'
<1>0. TypeOK
  BY DEF IndInv
<1>1. ASSUME NEW q \in Requests, ShutdownFinish(q)
      PROVE  RunsOnward /\ AbsentRunsUntouched'
  <2>1. run[q].status # "absent" /\ run[q] \in Records
    BY <1>0, <1>1, BusyRunExists DEF ShutdownFinish, TypeOK
  <2>2. RunsOnward
    BY <1>0, <1>1, <2>1, UpdatesOnward, UpdateOnward DEF ShutdownFinish
  <2>3. \A p \in Requests : HandlersIdle(p) => HandlersIdle(p)'
    BY <1>1 DEF ShutdownFinish, HandlersIdle, exec, callers
  <2> QED BY <2>1, <2>2, <2>3, UntouchedStep
<1>2. ASSUME \/ ShutdownCall \/ ShutdownFence \/ ShutdownStop \/ ShutdownSettled
             \/ ShutdownRelease \/ Restart \/ RecoverDone
      PROVE  RunsOnward /\ AbsentRunsUntouched'
  <2>1. UNCHANGED run
    BY <1>2, Zenon DEF ShutdownCall, ShutdownFence, ShutdownStop, ShutdownSettled,
       ShutdownRelease,
       Restart, RecoverDone, world
  <2>2. ASSUME NEW p \in Requests, run[p].status = "absent", HandlersIdle(p)
        PROVE  HandlersIdle(p)'
    <3>1. CASE ShutdownCall \/ ShutdownRelease \/ RecoverDone
      BY <2>2, <3>1 DEF ShutdownCall, ShutdownRelease, RecoverDone, HandlersIdle, exec, callers
    <3>2. CASE ShutdownFence
      BY <2>2, <3>2 DEF ShutdownFence, HandlersIdle, exec
    <3>3. CASE ShutdownStop
      <4>1. ~Active(run[p])
        BY <2>2, BusyRunExists
      <4> QED BY <2>2, <3>3, <4>1 DEF ShutdownStop, HandlersIdle, exec
    <3>4. CASE ShutdownSettled
      BY <2>2, <3>4 DEF ShutdownSettled, HandlersIdle, exec
    <3>5. CASE Restart
      BY <3>5 DEF Restart, HandlersIdle
    <3> QED BY <1>2, <3>1, <3>2, <3>3, <3>4, <3>5
  <2> QED BY <2>1, <2>2, QuietStep
<1> QED BY <1>1, <1>2, Zenon DEF ShutdownSteps

(* initialize interrupts active runs only.                                   *)
LEMMA RecoverOnward ==
    ASSUME IndInv, NEW q \in Requests, RecoverInterrupted(q)
    PROVE  RunsOnward /\ AbsentRunsUntouched'
<1>1. TypeOK /\ run[q].status # "absent" /\ run[q] \in Records
  BY BusyRunExists DEF RecoverInterrupted, IndInv, TypeOK
<1>2. RunsOnward
  BY <1>1, UpdatesOnward, UpdateOnward DEF RecoverInterrupted
<1>3. \A p \in Requests : HandlersIdle(p) => HandlersIdle(p)'
  BY DEF RecoverInterrupted, HandlersIdle, exec, callers
<1> QED BY <1>1, <1>2, <1>3, UntouchedStep

(* A provider turn that ends writes no record.                               *)
LEMMA SettleOnward ==
    ASSUME IndInv, NEW q \in Requests, NEW i \in Steps, AgentSettle(q, i)
    PROVE  RunsOnward /\ AbsentRunsUntouched'
<1>1. UNCHANGED <<run, execPc, cancelPc, dlPc, stop>>
  BY DEF AgentSettle, exec, callers
<1> QED BY <1>1, QuietStep DEF HandlersIdle

(* createRun admits q: no run has its key, and none is active where it works.*)
Admits(q) ==
    /\ ~Existing(q) /\ ActiveRunIn(WorkspaceOf[q]) = {}
    /\ run' = [run EXCEPT ![q] = Queued]

(* Admission writes at most one record, of a key and in a workspace that     *)
(* have none.                                                                *)
LEMMA StartOnward ==
    ASSUME IndInv, NEW q \in Requests, StartCall(q) \/ StartSteps(q)
    PROVE  RunsOnward \/ Admits(q)
<1>1. CASE StartCreate(q)
  BY <1>1, SameRuns, Zenon DEF StartCreate, Admits
<1>2. CASE ~StartCreate(q)
  BY <1>2, SameRuns, Zenon DEF StartCall, StartSteps, StartEnqueue, StartStandAside,
     StartAdmission,
     StartCheck, world
<1> QED BY <1>1, <1>2

(* Admission wakes no handler before the record of its run is written.       *)
LEMMA StartUntouched ==
    ASSUME IndInv, NEW q \in Requests, StartCall(q) \/ StartSteps(q)
    PROVE  AbsentRunsUntouched'
<1> SUFFICES ASSUME NEW p \in Requests, run'[p].status = "absent" PROVE Untouched(p)'
  BY DEF AbsentRunsUntouched
<1>0. TypeOK /\ UNCHANGED <<cancelPc, stop>>
  BY Zenon DEF IndInv, StartCall, StartSteps, StartEnqueue, StartStandAside, StartAdmission,
     StartCheck, StartCreate
<1>1. CASE UNCHANGED <<run, execPc, dlPc>>
  BY <1>0, <1>1 DEF IndInv, AbsentRunsUntouched, Untouched
<1>2. CASE /\ run' = [run EXCEPT ![q] = Queued] /\ execPc' = [execPc EXCEPT ![q] = "boot"]
           /\ \E pc : dlPc' = [dlPc EXCEPT ![q] = pc]
  <2>1. Queued.status # "absent"
    BY DEF Queued, Absent
  <2>2. p # q /\ run'[p] = run[p] /\ execPc'[p] = execPc[p] /\ dlPc'[p] = dlPc[p]
    BY <1>0, <1>2, <2>1 DEF TypeOK
  <2> QED BY <1>0, <2>2 DEF IndInv, AbsentRunsUntouched, Untouched
<1>3. CASE StartCreate(q)
  BY <1>1, <1>2, <1>3, Zenon DEF StartCreate
<1>4. CASE ~StartCreate(q)
  <2>1. UNCHANGED <<run, execPc, dlPc>>
    BY <1>4, Zenon DEF StartCall, StartSteps, StartEnqueue, StartStandAside, StartAdmission,
       StartCheck, world, exec
  <2> QED BY <1>1, <2>1
<1> QED BY <1>3, <1>4

(* How the records move in any step: onward, or by one admission.            *)
LEMMA RunStep ==
    ASSUME IndInv, [Next]_vars
    PROVE  /\ RunsOnward \/ \E q \in Requests : Admits(q)
           /\ AbsentRunsUntouched'
<1>1. CASE UNCHANGED vars
  <2>1. UNCHANGED <<run, execPc, cancelPc, dlPc, stop>>
    BY <1>1 DEF vars, world, exec, callers
  <2> QED BY <2>1, QuietStep DEF HandlersIdle
<1>2. CASE RecoverSteps
  BY <1>2, DeadlineOnward, RecoverOnward, ShutdownOnward, Zenon DEF RecoverSteps
<1>3. CASE Next
  BY <1>2, <1>3, NextCases, StartOnward, StartUntouched, CancelOnward, DeadlineOnward,
     ExecOnward,
     SettleOnward, StopOnward, ArchiveOnward, ShutdownOnward, Zenon
<1> QED BY <1>1, <1>3

-----------------------------------------------------------------------------
(* Theorems *)

(* In every reachable state the variables have their types, workspace        *)
(* operations and admission are exclusive, and no handler touches a run that *)
(* does not exist. The three parts need each other: a queue keeps its type   *)
(* because only its head leaves it, and an updater is harmless because its   *)
(* record exists.                                                            *)
THEOREM InductiveInvariant == Spec => []IndInv
<1>1. IndInv /\ [Next]_vars => IndInv'
  BY TypeStep, ExclusiveInvariant, RunStep DEF IndInv
<1> QED BY <1>1, InitInvariant, PTL DEF Spec

(* Type correctness: in particular every record the service writes has the   *)
(* persisted shape, and every queue holds handlers only.                     *)
THEOREM TypeCorrect == Spec => []TypeOK
<1>1. IndInv => TypeOK
  BY DEF IndInv
<1> QED BY <1>1, InductiveInvariant, PTL

(* The workspace lock: createRun refuses a second active run in a workspace, *)
(* and no update, timer, retry or recovery makes an ended run active again.  *)
THEOREM WorkspaceLock == Spec => []OneActiveRunPerWorkspace
<1>1. Init => OneActiveRunPerWorkspace
  BY DEF Init, OneActiveRunPerWorkspace, Absent, Active, ActiveRunStatuses
<1>2. ASSUME IndInv, OneActiveRunPerWorkspace, [Next]_vars
      PROVE  OneActiveRunPerWorkspace'
  <2> SUFFICES ASSUME NEW p \in Requests, NEW q \in Requests,
                      Active(run'[p]), Active(run'[q]), WorkspaceOf[p] = WorkspaceOf[q]
               PROVE  p = q
    BY DEF OneActiveRunPerWorkspace, Active
  <2>1. CASE RunsOnward
    BY <1>2, <2>1 DEF RunsOnward, Onward, OneActiveRunPerWorkspace
  <2>2. ASSUME NEW r \in Requests, Admits(r) PROVE p = q
    <3>1. \A x \in Requests : x # r => run'[x] = run[x]
      BY <1>2, <2>2 DEF Admits, IndInv, TypeOK
    <3>2. \A x \in Requests : WorkspaceOf[x] = WorkspaceOf[r] => ~Active(run[x])
      BY <2>2 DEF Admits, ActiveRunIn
    <3> QED BY <1>2, <3>1, <3>2 DEF OneActiveRunPerWorkspace
  <2> QED BY <1>2, <2>1, <2>2, RunStep
<1> QED BY <1>1, <1>2, InductiveInvariant, PTL DEF Spec

(* Idempotent admission: concurrent and repeated startRun calls with one     *)
(* idempotency key create one run, over any number of restarts.              *)
THEOREM AdmissionIdempotent == Spec => []IdempotentAdmission
<1>1. Init => IdempotentAdmission
  BY DEF Init, IdempotentAdmission, Absent
<1>2. ASSUME IndInv, IdempotentAdmission, [Next]_vars
      PROVE  IdempotentAdmission'
  <2> SUFFICES ASSUME NEW p \in Requests, NEW q \in Requests, KeyOf[p] = KeyOf[q],
                      run'[p].status # "absent", run'[q].status # "absent"
               PROVE  p = q
    BY DEF IdempotentAdmission
  <2>1. CASE RunsOnward
    BY <1>2, <2>1 DEF RunsOnward, IdempotentAdmission
  <2>2. ASSUME NEW r \in Requests, Admits(r) PROVE p = q
    <3>1. \A x \in Requests : x # r => run'[x] = run[x]
      BY <1>2, <2>2 DEF Admits, IndInv, TypeOK
    <3>2. \A x \in Requests : KeyOf[x] = KeyOf[r] => run[x].status = "absent"
      BY <2>2 DEF Admits, Existing
    <3> QED BY <1>2, <3>1, <3>2 DEF IdempotentAdmission
  <2> QED BY <1>2, <2>1, <2>2, RunStep
<1> QED BY <1>1, <1>2, InductiveInvariant, PTL DEF Spec

(* The first recorded termination reason of a run is never replaced or       *)
(* dropped: whatever asks next, terminationRunUpdate keeps the reason it     *)
(* finds.                                                                    *)
THEOREM TerminationKept == Spec => TerminationImmutable
<1>1. ASSUME IndInv, [Next]_vars, NEW q \in Requests, run[q].term # "none"
      PROVE  run'[q].term = run[q].term
  <2>1. CASE RunsOnward
    BY <1>1, <2>1 DEF RunsOnward, Onward
  <2>2. ASSUME NEW r \in Requests, Admits(r) PROVE run'[q].term = run[q].term
    <3>1. run[r] = Absent
      BY <1>1, <2>2 DEF Admits, Existing, IndInv, AbsentRunsUntouched, Untouched
    <3>2. q # r
      BY <1>1, <3>1 DEF Absent
    <3> QED BY <1>1, <2>2, <3>2 DEF Admits, IndInv, TypeOK
  <2> QED BY <1>1, <2>1, <2>2, RunStep
<1>2. IndInv /\ [Next]_vars =>
         [\A q \in Requests : run[q].term # "none" => run'[q].term = run[q].term]_vars
  BY <1>1
<1> QED BY <1>2, InductiveInvariant, PTL DEF Spec, TerminationImmutable
=============================================================================
