------------------------ MODULE TeamRunRecordProofs ------------------------
(***************************************************************************)
(* Lemmas about the record of a Team Run and the updaters of the service,  *)
(* for any number of workflow steps.                                       *)
(*                                                                         *)
(* An updater is a function of the record alone, so what it does to a      *)
(* record is settled here once, without a step of the service in sight:    *)
(* from a record in good order, and under what its caller has checked, it  *)
(* makes another one in good order, along the transition tables, and it    *)
(* leaves the outcome of an ended run alone.  TeamRunOutcomeProofs shows   *)
(* that every caller does check that.                                      *)
(*                                                                         *)
(* The argument is about one step of the run, the active one: everything   *)
(* before it has succeeded, everything after it is pending, and the run    *)
(* and the step show the same checkpoint (ActiveForm).  An updater changes *)
(* that checkpoint, ends it, or passes it on to the next step.             *)
(***************************************************************************)
EXTENDS TeamRuns, TLAPS

USE NumStepsAssumption

-----------------------------------------------------------------------------
(* Types *)

(* terminalBoundaryState: whatever the reason, a termination ends the run.   *)
LEMMA OutcomeType == \A reason : OutcomeOf(reason) \in TerminalRunStatuses
  BY DEF OutcomeOf, TerminalRunStatuses

(* terminationRunUpdate returns a record of the persisted shape.             *)
LEMMA TerminationRunUpdateType ==
    ASSUME NEW r \in Records, NEW reason \in ReasonOrNone, NEW writer \in Writers
    PROVE  TerminationRunUpdate(r, reason, writer) \in Records
<1> DEFINE why == EffectiveReason(r, reason)
           out == OutcomeOf(why)
<1>1. why \in ReasonOrNone
  BY DEF EffectiveReason, Records
<1>2. out \in TerminalRunStatuses
  BY OutcomeType
<1>3. [i \in Steps |-> IF HasActiveStep(r) /\ i = ActiveStep(r) THEN out ELSE r.steps[i]]
        \in [Steps -> StepStatuses]
  BY <1>2 DEF Records, StepStatuses
<1> HIDE DEF why, out
<1> QED BY <1>1, <1>2, <1>3 DEF TerminationRunUpdate, Records, why, out

(* So does finishTermination, which leaves an ended run as it is.            *)
LEMMA FinishTerminationType ==
    ASSUME NEW r \in Records, NEW reason \in ReasonOrNone
    PROVE  FinishTermination(r, reason) \in Records
  BY TerminationRunUpdateType DEF FinishTermination, Writers

(* So does stopActiveRun's request for a stop.                               *)
LEMMA StopType ==
    ASSUME NEW r \in Records, NEW reason \in ReasonOrNone
    PROVE  Stop(r, reason) \in Records
<1>1. TerminationRunUpdate(r, reason, "stop") \in Records
  BY TerminationRunUpdateType DEF Writers
<1>2. EffectiveReason(r, reason) \in ReasonOrNone
  BY DEF EffectiveReason, Records
<1>3. [r EXCEPT !.status = "stopping", !.steps[ActiveStep(r)] = "stopping",
                !.term = EffectiveReason(r, reason)] \in Records
  BY <1>2 DEF Records, StepStatuses, ActiveStepStatuses, ActiveRunStatuses
<1> QED BY <1>1, <1>3 DEF Stop

(* And so does its record of a refused cancellation.                         *)
LEMMA StopRefusedType ==
    ASSUME NEW r \in Records
    PROVE  StopRefused(r) \in Records
  BY DEF StopRefused, Records, StepStatuses, ActiveStepStatuses, ActiveRunStatuses

(* The updaters of the execution loop return records of the persisted shape. *)
LEMMA ExecutionUpdateTypes ==
    ASSUME NEW r \in Records, NEW i \in Steps, NEW isWaiting \in BOOLEAN
    PROVE  /\ BeginFirstStep(r) \in Records
           /\ PersistAgentCreated(r, i) \in Records
           /\ PermissionState(r, i, isWaiting) \in Records
           /\ StepSucceeded(r, i) \in Records
           /\ Failed(r) \in Records
<1> USE DEF Records, StepStatuses, ActiveStepStatuses, ActiveRunStatuses,
            TerminalRunStatuses, Writers
<1>1. BeginFirstStep(r) \in Records
  BY DEF BeginFirstStep
<1>2. PersistAgentCreated(r, i) \in Records
  BY DEF PersistAgentCreated
<1>3. PermissionState(r, i, isWaiting) \in Records
  BY DEF PermissionState
<1>4. StepSucceeded(r, i) \in Records
  BY DEF StepSucceeded
<1>5. Failed(r) \in Records
  BY DEF Failed
<1> QED BY <1>1, <1>2, <1>3, <1>4, <1>5

-----------------------------------------------------------------------------
(* Records in good order *)

(* What a record shows whatever updater wrote it: the schema accepts it, the *)
(* checkpoints of run and step agree, a stop has its reason on record, an    *)
(* active step implies that the run has started, and a step has an agent     *)
(* only once it has been created, and always if that agent refused to stop.  *)
InOrder(r) ==
    /\ ValidRun(r) /\ CheckpointsAgree(r)
    /\ HasActiveStep(r) => r.started
    /\ r.status \in {"stopping", "stop_failed", "canceled", "interrupted"} => r.term # "none"
    /\ Terminal(r) /\ r.term = "deadline" => r.started
    /\ \A i \in Steps : r.agents[i] => r.steps[i] \notin {"pending", "creating"}
    /\ \A i \in Steps : r.steps[i] = "stop_failed" => r.agents[i]

(* The steps before i have succeeded, the steps after it are pending.        *)
Around(r, i) ==
    \A j \in Steps : /\ j < i => r.steps[j] = "succeeded"
                     /\ j > i => r.steps[j] = "pending"

(* The same for a run whose active step is i, said of that step.             *)
ActiveForm(r, i) ==
    /\ Around(r, i)
    /\ r.steps[i] \in ActiveStepStatuses
    /\ r.status = IF r.steps[i] = "creating" THEN "running" ELSE r.steps[i]
    /\ r.started
    /\ r.term # "none" <=> r.steps[i] \in {"stopping", "stop_failed"}
    /\ \A j \in Steps : r.agents[j] => j < i \/ (j = i /\ r.steps[i] # "creating")
    /\ r.steps[i] = "stop_failed" => r.agents[i]

(* A run that waits to begin.                                                *)
QueuedForm(r) ==
    /\ r.status = "queued" /\ r.term = "none"
    /\ \A j \in Steps : r.steps[j] = "pending" /\ ~r.agents[j]

-----------------------------------------------------------------------------
(* The active step *)

(* findActiveStep finds the only active step.                                *)
LEMMA OnlyActive ==
    ASSUME NEW r, NEW i \in Steps, IsActiveStep(r, i),
           \A j \in Steps : IsActiveStep(r, j) => j = i
    PROVE  HasActiveStep(r) /\ ActiveStep(r) = i
<1>1. \A j \in 1..(i - 1) : j \in Steps /\ j # i
  BY DEF Steps
<1>2. \A j \in 1..(i - 1) : ~IsActiveStep(r, j)
  BY <1>1
<1>3. \A x \in Steps : (IsActiveStep(r, x) /\ \A j \in 1..(x - 1) : ~IsActiveStep(r, j)) <=> x = i
  BY <1>2
<1> QED BY <1>3 DEF HasActiveStep, ActiveStep

(* A step that is neither done nor pending is the frontier of the workflow.  *)
LEMMA Frontier ==
    ASSUME NEW r \in Records, SequentialSteps(r), NEW i \in Steps,
           r.steps[i] \notin {"succeeded", "pending"}
    PROVE  Around(r, i)
<1>1. PICK f \in 1..(NumSteps + 1) :
           \A j \in Steps : /\ j < f => r.steps[j] = "succeeded"
                            /\ j > f => r.steps[j] = "pending"
  BY DEF SequentialSteps
<1>2. i = f
  BY <1>1 DEF Steps
<1> QED BY <1>1, <1>2 DEF Around

(* And the only step that can be active.                                     *)
LEMMA AroundOnly ==
    ASSUME NEW r \in Records, NEW i \in Steps, Around(r, i)
    PROVE  /\ SequentialSteps(r)
           /\ \A j \in Steps : IsActiveStep(r, j) => j = i
           /\ IsActiveStep(r, i) => HasActiveStep(r) /\ ActiveStep(r) = i
           /\ ~IsActiveStep(r, i) => ~HasActiveStep(r)
<1>1. i \in 1..(NumSteps + 1)
  BY DEF Steps
<1>2. SequentialSteps(r)
  BY <1>1 DEF Around, SequentialSteps
<1>3. \A j \in Steps : IsActiveStep(r, j) => j = i
  BY DEF Around, IsActiveStep, ActiveStepStatuses, Steps
<1>4. IsActiveStep(r, i) => HasActiveStep(r) /\ ActiveStep(r) = i
  BY <1>3, OnlyActive
<1>5. ~IsActiveStep(r, i) => ~HasActiveStep(r)
  BY <1>3 DEF HasActiveStep
<1> QED BY <1>2, <1>3, <1>4, <1>5

(* A record in good order with an active step has the active form.           *)
LEMMA OrderToForm ==
    ASSUME NEW r \in Records, InOrder(r), NEW i \in Steps, IsActiveStep(r, i)
    PROVE  ActiveForm(r, i) /\ ActiveStep(r) = i /\ HasActiveStep(r) /\ Active(r)
<1> USE DEF IsActiveStep, ActiveStepStatuses
<1>1. Around(r, i)
  BY Frontier DEF InOrder, ValidRun
<1>2. ActiveStep(r) = i /\ HasActiveStep(r) /\ Active(r)
  BY <1>1, AroundOnly DEF InOrder, CheckpointsAgree
<1>3. (r.status \in Paused \/ r.steps[i] \in Paused) => r.status = r.steps[i]
  BY DEF InOrder, CheckpointsAgree
<1>4. r.status # "queued"
  BY DEF InOrder, ValidRun
<1>5. r.status = IF r.steps[i] = "creating" THEN "running" ELSE r.steps[i]
  BY <1>2, <1>3, <1>4 DEF Active, ActiveRunStatuses, Paused
<1>6. r.term # "none" <=> r.steps[i] \in {"stopping", "stop_failed"}
  <2>1. r.status \in {"stopping", "stop_failed"} => r.term # "none"
    BY DEF InOrder
  <2>2. r.term # "none" => r.status \in {"stopping", "stop_failed", TerminalStatusByReason[r.term]}
    BY DEF InOrder, ValidRun
  <2>3. r.term # "none" => TerminalStatusByReason[r.term] \in TerminalRunStatuses
    BY DEF Records, ReasonOrNone, Reasons, TerminalStatusByReason, TerminalRunStatuses
  <2> QED BY <1>2, <1>5, <2>1, <2>2, <2>3 DEF Active, ActiveRunStatuses, TerminalRunStatuses
<1>7. \A j \in Steps : r.agents[j] => j < i \/ (j = i /\ r.steps[i] # "creating")
  BY <1>1 DEF InOrder, Around, Steps
<1> QED BY <1>1, <1>2, <1>5, <1>6, <1>7 DEF ActiveForm, InOrder

(* And a record of the active form is in good order.                         *)
LEMMA FormToOrder ==
    ASSUME NEW r \in Records, NEW i \in Steps, ActiveForm(r, i)
    PROVE  InOrder(r) /\ ActiveStep(r) = i /\ HasActiveStep(r) /\ Active(r) /\ ~Terminal(r)
<1> USE DEF ActiveForm, IsActiveStep, ActiveStepStatuses
<1>1. /\ SequentialSteps(r) /\ HasActiveStep(r) /\ ActiveStep(r) = i
      /\ \A j \in Steps : IsActiveStep(r, j) => j = i
  BY AroundOnly
<1>2. Active(r) /\ ~Terminal(r)
  BY DEF Active, Terminal, ActiveRunStatuses, TerminalRunStatuses
<1>3. ValidRun(r)
  <2>1. r.status # "creating" /\ r.status \notin TerminalRunStatuses \union {"queued"}
    BY DEF TerminalRunStatuses
  <2>2. r.status \in {"waiting_for_permission", "stopping", "stop_failed"} => SomeStep(r, r.status)
    BY DEF SomeStep
  <2>3. r.status = "running" => SomeStep(r, "creating") \/ SomeStep(r, "running")
    BY DEF SomeStep
  <2> QED BY <1>1, <1>2, <2>1, <2>2, <2>3 DEF ValidRun, TerminalRunStatuses
<1>4. CheckpointsAgree(r)
  BY <1>1, <1>2 DEF CheckpointsAgree, Paused
<1>5. \A j \in Steps : r.agents[j] => r.steps[j] \notin {"pending", "creating"}
  BY DEF Around, Steps
<1>6. \A j \in Steps : r.steps[j] = "stop_failed" => r.agents[j]
  BY <1>1
<1> QED BY <1>1, <1>2, <1>3, <1>4, <1>5, <1>6 DEF InOrder, TerminalRunStatuses

(* An active run without an active step waits to begin.                      *)
LEMMA QueuedOrder ==
    ASSUME NEW r \in Records, InOrder(r), Active(r), ~HasActiveStep(r)
    PROVE  QueuedForm(r)
<1>1. \A i \in Steps : r.steps[i] \notin ActiveStepStatuses
  BY DEF HasActiveStep, IsActiveStep
<1>2. r.status = "queued"
  BY <1>1 DEF InOrder, ValidRun, SomeStep, Active, ActiveRunStatuses, ActiveStepStatuses
<1>3. r.term = "none"
  BY <1>2 DEF InOrder, ValidRun, Records, ReasonOrNone, Reasons, TerminalStatusByReason
<1>4. \A i \in Steps : r.steps[i] = "pending" /\ ~r.agents[i]
  BY <1>2 DEF InOrder, ValidRun
<1> QED BY <1>2, <1>3, <1>4 DEF QueuedForm

(* The frontier of an active run is its active step.                         *)
LEMMA FrontierActive ==
    ASSUME NEW r \in Records, InOrder(r), Active(r), NEW i \in Steps,
           r.steps[i] \notin {"pending", "succeeded"}
    PROVE  IsActiveStep(r, i) /\ ActiveForm(r, i)
<1>1. HasActiveStep(r)
  BY QueuedOrder DEF QueuedForm
<1>2. PICK j \in Steps : IsActiveStep(r, j)
  BY <1>1 DEF HasActiveStep
<1>3. Around(r, j)
  BY <1>2, OrderToForm DEF ActiveForm
<1>4. i = j
  BY <1>3 DEF Around, Steps
<1> QED BY <1>2, <1>4, OrderToForm

(* A run that ended in step i.                                               *)
EndedForm(r, i) ==
    /\ Around(r, i)
    /\ r.status \in {"failed", "canceled", "interrupted"} /\ r.steps[i] = r.status
    /\ r.started
    /\ IF r.term = "none" THEN r.status = "failed" ELSE r.status = TerminalStatusByReason[r.term]
    /\ \A j \in Steps : r.agents[j] => j <= i

(* A run that ended before it began.                                         *)
UnbegunForm(r) ==
    /\ \A j \in Steps : r.steps[j] = "pending" /\ ~r.agents[j]
    /\ r.status \in {"failed", "canceled", "interrupted"}
    /\ IF r.term = "none" THEN r.status = "failed" ELSE r.status = TerminalStatusByReason[r.term]
    /\ r.status = "failed" => r.started

(* Both are in good order.                                                   *)
LEMMA EndedToOrder ==
    ASSUME NEW r \in Records, NEW i \in Steps, EndedForm(r, i)
    PROVE  InOrder(r) /\ Terminal(r) /\ ~Active(r)
<1> USE DEF EndedForm
<1>1. Terminal(r) /\ ~Active(r)
  BY DEF Active, Terminal, ActiveRunStatuses, TerminalRunStatuses
<1>2. /\ SequentialSteps(r) /\ ~HasActiveStep(r)
      /\ \A j \in Steps : ~IsActiveStep(r, j)
  BY AroundOnly DEF IsActiveStep, HasActiveStep, ActiveStepStatuses
<1>3. ValidRun(r)
  <2>1. SomeStep(r, r.status)
    BY DEF SomeStep
  <2>2. r.term # "none" => r.status = TerminalStatusByReason[r.term]
    OBVIOUS
  <2> QED BY <1>1, <1>2, <2>1, <2>2 DEF ValidRun
<1>4. CheckpointsAgree(r)
  BY <1>2 DEF CheckpointsAgree
<1>5. \A j \in Steps : r.agents[j] => r.steps[j] \notin {"pending", "creating"}
  BY DEF Around, Steps
<1>6. \A j \in Steps : r.steps[j] # "stop_failed"
  BY <1>2 DEF IsActiveStep, ActiveStepStatuses
<1> QED BY <1>1, <1>2, <1>3, <1>4, <1>5, <1>6 DEF InOrder

LEMMA UnbegunToOrder ==
    ASSUME NEW r \in Records, UnbegunForm(r)
    PROVE  InOrder(r) /\ Terminal(r) /\ ~Active(r)
<1> USE DEF UnbegunForm
<1>1. Terminal(r) /\ ~Active(r)
  BY DEF Active, Terminal, ActiveRunStatuses, TerminalRunStatuses
<1>2. SequentialSteps(r)
  BY DEF SequentialSteps, Steps
<1>3. ~HasActiveStep(r) /\ \A j \in Steps : ~IsActiveStep(r, j)
  BY DEF HasActiveStep, IsActiveStep, ActiveStepStatuses
<1>4. ValidRun(r)
  <2>1. AtStepBoundary(r)
    BY DEF AtStepBoundary, SomeStep, Steps
  <2>2. r.term # "none" => r.status = TerminalStatusByReason[r.term]
    OBVIOUS
  <2> QED BY <1>1, <1>2, <1>3, <2>1, <2>2 DEF ValidRun
<1>5. CheckpointsAgree(r)
  BY <1>3 DEF CheckpointsAgree
<1>6. Terminal(r) /\ r.term = "deadline" => r.started
  BY DEF TerminalStatusByReason
<1> QED BY <1>1, <1>3, <1>4, <1>5, <1>6 DEF InOrder

-----------------------------------------------------------------------------
(* What an update may do                                                     *)

(* Every update: the record stays in good order, run and steps move along    *)
(* their transition tables, and the outcome of an ended run stays.           *)
Lawful(r, s) ==
    /\ s \in Records /\ InOrder(s) /\ s.status # "absent"
    /\ LC!CanMove(LC!RunMoves, r.status, s.status)
    /\ \A j \in Steps : LC!CanMove(LC!StepMoves, r.steps[j], s.steps[j])
    /\ Terminal(r) => Outcome(s) = Outcome(r)

(* An update by a handler that is not the execution: it stops or ends the    *)
(* active step, for a reason it puts on record, and changes nothing else.    *)
Interrupts(r, s) ==
    /\ s.agents = r.agents
    /\ Active(s) => Active(r)
    /\ Active(s) /\ r.status = "queued" => s.status = "queued"
    /\ \A j \in Steps :
          \/ s.steps[j] = r.steps[j]
          \/ /\ IsActiveStep(r, j)
             /\ s.steps[j] \in {"stopping", "stop_failed", "failed", "canceled", "interrupted"}
    /\ s = r \/ s.term # "none"

(* No update at all is one of both kinds.                                    *)
LEMMA SameLawful ==
    ASSUME NEW r \in Records, InOrder(r), r.status # "absent"
    PROVE  Lawful(r, r) /\ Interrupts(r, r)
  BY DEF Lawful, Interrupts, LC!CanMove

(* A reason on record decides the outcome.                                   *)
LEMMA ReasonOutcome ==
    ASSUME NEW why \in Reasons
    PROVE  /\ OutcomeOf(why) = TerminalStatusByReason[why]
           /\ OutcomeOf(why) \in {"failed", "canceled", "interrupted"}
           /\ OutcomeOf(why) = "failed" => why = "deadline"
           /\ why = "deadline" => OutcomeOf(why) = "failed"
  BY DEF OutcomeOf, Reasons, TerminalStatusByReason

-----------------------------------------------------------------------------
(* The updaters                                                              *)

(* terminationRunUpdate ends an active run with the outcome of its reason.   *)
LEMMA TerminationLawful ==
    ASSUME NEW r \in Records, InOrder(r), Active(r),
           NEW reason \in Reasons, NEW writer \in Writers,
           NEW s, s = TerminationRunUpdate(r, reason, writer)
    PROVE  Lawful(r, s) /\ Interrupts(r, s) /\ Terminal(s) /\ ~Active(s) /\ s.term # "none"
<1> DEFINE why == EffectiveReason(r, reason)
           out == OutcomeOf(why)
<1>1. why \in Reasons /\ (r.term # "none" => why = r.term)
  BY DEF EffectiveReason, Records, ReasonOrNone
<1>2. /\ out = TerminalStatusByReason[why] /\ out \in {"failed", "canceled", "interrupted"}
      /\ out = "failed" => why = "deadline"
      /\ why = "deadline" => out = "failed"
  BY <1>1, ReasonOutcome
<1>3. /\ s \in Records /\ s.status = out /\ s.term = why /\ s.agents = r.agents
      /\ s.started = (r.started \/ why = "deadline")
      /\ \A j \in Steps : s.steps[j] = IF HasActiveStep(r) /\ j = ActiveStep(r)
                                       THEN out ELSE r.steps[j]
  <2>1. [j \in Steps |-> IF HasActiveStep(r) /\ j = ActiveStep(r) THEN out ELSE r.steps[j]]
           \in [Steps -> StepStatuses]
    BY <1>2 DEF Records, StepStatuses, TerminalRunStatuses
  <2> HIDE DEF why, out
  <2> QED BY <1>1, <1>2, <2>1 DEF TerminationRunUpdate, Records, TerminalRunStatuses, why, out,
                 ReasonOrNone
<1>4. ~Terminal(r) /\ r.status # "absent" /\ why # "none"
  BY <1>1 DEF Active, Terminal, ActiveRunStatuses, TerminalRunStatuses, Reasons
<1> HIDE DEF why, out
<1>5. LC!CanMove(LC!RunMoves, r.status, s.status)
  BY <1>2, <1>3 DEF Active, ActiveRunStatuses, LC!CanMove, LC!RunMoves, LC!Ends
<1>6. CASE HasActiveStep(r)
  <2> DEFINE i == ActiveStep(r)
  <2>1. i \in Steps /\ IsActiveStep(r, i) /\ ActiveForm(r, i)
    BY <1>6, OrderToForm DEF HasActiveStep
  <2>2. s.steps[i] = out /\ \A j \in Steps : j # i => s.steps[j] = r.steps[j]
    BY <1>3, <1>6, <2>1
  <2> HIDE DEF i
  <2>3. EndedForm(s, i)
    <3>1. Around(s, i)
      BY <2>1, <2>2 DEF ActiveForm, Around, Steps
    <3>2. \A j \in Steps : s.agents[j] => j <= i
      BY <1>3, <2>1 DEF ActiveForm, Steps
    <3>3. s.started
      BY <1>3, <2>1 DEF ActiveForm
    <3> QED BY <1>2, <1>3, <1>4, <2>2, <3>1, <3>2, <3>3 DEF EndedForm
  <2>4. InOrder(s) /\ Terminal(s) /\ ~Active(s)
    BY <1>3, <2>1, <2>3, EndedToOrder
  <2>5. \A j \in Steps : LC!CanMove(LC!StepMoves, r.steps[j], s.steps[j])
    BY <1>2, <2>1, <2>2 DEF IsActiveStep, ActiveStepStatuses, LC!CanMove, LC!StepMoves, LC!Ends
  <2>6. Interrupts(r, s)
    BY <1>2, <1>3, <1>4, <2>1, <2>2, <2>4 DEF Interrupts
  <2> QED BY <1>2, <1>3, <1>4, <1>5, <2>4, <2>5, <2>6 DEF Lawful
<1>7. CASE ~HasActiveStep(r)
  <2>1. QueuedForm(r)
    BY <1>7, QueuedOrder
  <2>2. UnbegunForm(s)
    BY <1>2, <1>3, <1>4, <1>7, <2>1 DEF UnbegunForm, QueuedForm
  <2>3. InOrder(s) /\ Terminal(s) /\ ~Active(s)
    BY <1>3, <2>2, UnbegunToOrder
  <2>4. \A j \in Steps : LC!CanMove(LC!StepMoves, r.steps[j], s.steps[j])
    BY <1>3, <1>7 DEF LC!CanMove
  <2>5. Interrupts(r, s)
    BY <1>3, <1>4, <1>7, <2>3 DEF Interrupts
  <2> QED BY <1>2, <1>3, <1>4, <1>5, <2>3, <2>4, <2>5 DEF Lawful
<1> QED BY <1>6, <1>7

(* completeStep applies it to a run that may have ended meanwhile: a run     *)
(* that ended for the reason on record ends for that reason once more.       *)
LEMMA TerminationRepeated ==
    ASSUME NEW r \in Records, InOrder(r), Terminal(r), r.term # "none",
           NEW reason \in Reasons, NEW writer \in Writers,
           NEW s, s = TerminationRunUpdate(r, reason, writer)
    PROVE  /\ Lawful(r, s) /\ Interrupts(r, s) /\ ~Active(s) /\ s.term # "none"
           /\ Outcome(s) = Outcome(r)
<1>1. ~HasActiveStep(r) /\ r.status \in TerminalRunStatuses
  BY DEF InOrder, ValidRun, Terminal
<1>2. r.term \in Reasons /\ EffectiveReason(r, reason) = r.term
  BY DEF Records, ReasonOrNone, EffectiveReason
<1>3. r.status = OutcomeOf(r.term)
  BY <1>1, <1>2, ReasonOutcome DEF InOrder, ValidRun, TerminalRunStatuses
<1>4. (r.started \/ r.term = "deadline") = r.started
  BY DEF InOrder, Records
<1>5. [i \in Steps |-> IF HasActiveStep(r) /\ i = ActiveStep(r) THEN OutcomeOf(r.term) ELSE r.steps[i]]
        = r.steps
  BY <1>1 DEF Records
<1>6. s = [r EXCEPT !.endedBy = writer]
  <2>1. s = [r EXCEPT !.status = OutcomeOf(r.term), !.started = (r.started \/ r.term = "deadline"),
                      !.steps = [i \in Steps |-> IF HasActiveStep(r) /\ i = ActiveStep(r)
                                                 THEN OutcomeOf(r.term) ELSE r.steps[i]],
                      !.term = r.term, !.endedBy = writer]
    BY <1>2 DEF TerminationRunUpdate
  <2> QED BY <1>3, <1>4, <1>5, <2>1 DEF Records
<1>7. /\ s \in Records /\ s.status = r.status /\ s.started = r.started /\ s.steps = r.steps
      /\ s.agents = r.agents /\ s.term = r.term
  BY <1>6 DEF Records
<1>8. InOrder(s)
  <2>1. HasActiveStep(s) = HasActiveStep(r)
    BY <1>7 DEF HasActiveStep, IsActiveStep
  <2>2. ValidRun(s)
    BY <1>7, <2>1 DEF InOrder, ValidRun, SequentialSteps, Terminal, SomeStep, AtStepBoundary
  <2>3. CheckpointsAgree(s)
    BY <1>1, <1>7 DEF CheckpointsAgree, HasActiveStep, IsActiveStep
  <2> QED BY <1>7, <2>1, <2>2, <2>3 DEF InOrder, Terminal
<1>9. ~Active(s) /\ s.status # "absent"
  BY <1>1, <1>7 DEF Active, ActiveRunStatuses, TerminalRunStatuses
<1> QED BY <1>7, <1>8, <1>9 DEF Lawful, Interrupts, Outcome, LC!CanMove

(* finishTermination ends an active run and leaves an ended one alone.       *)
LEMMA FinishLawful ==
    ASSUME NEW r \in Records, InOrder(r), r.status # "absent", NEW reason \in Reasons,
           NEW s, s = FinishTermination(r, reason)
    PROVE  Lawful(r, s) /\ Interrupts(r, s) /\ ~Active(s) /\ (s # r => s.term # "none")
<1>1. CASE Terminal(r)
  BY <1>1, SameLawful DEF FinishTermination, Terminal, Active, TerminalRunStatuses,
     ActiveRunStatuses
<1>2. CASE ~Terminal(r)
  <2>1. Active(r)
    BY <1>2 DEF Records, Terminal, Active
  <2> QED BY <1>2, <2>1, TerminationLawful DEF FinishTermination, Writers
<1> QED BY <1>1, <1>2

(* stopActiveRun's request: an active run that is left has its stop on       *)
(* record, and no agent is said to have refused it.                          *)
LEMMA StopLawful ==
    ASSUME NEW r \in Records, InOrder(r), r.status # "absent", NEW reason \in Reasons,
           NEW s, s = Stop(r, reason)
    PROVE  /\ Lawful(r, s) /\ Interrupts(r, s)
           /\ s # r => s.term # "none"
           /\ Active(s) => s.term # "none"
           /\ ShouldCancel(s) => \A j \in Steps : IsActiveStep(s, j) => s.agents[j]
           /\ \A j \in Steps : s.steps[j] = "stop_failed" => r.steps[j] = "stop_failed"
<1>1. CASE Terminal(r)
  <2>1. s = r /\ ~Active(s) /\ \A j \in Steps : ~IsActiveStep(s, j)
    BY <1>1 DEF Stop, Terminal, Active, TerminalRunStatuses, ActiveRunStatuses, InOrder,
       ValidRun, HasActiveStep
  <2> QED BY <2>1, SameLawful DEF ShouldCancel
<1>2. CASE Active(r) /\ ~HasActiveStep(r)
  <2>1. s = TerminationRunUpdate(r, reason, "stop")
    BY <1>2 DEF Stop, Terminal, Active, TerminalRunStatuses, ActiveRunStatuses
  <2>2. Lawful(r, s) /\ Interrupts(r, s) /\ ~Active(s) /\ s.term # "none"
    BY <1>2, <2>1, TerminationLawful DEF Writers
  <2> QED BY <1>2, <2>2 DEF ShouldCancel, Interrupts, HasActiveStep
<1>3. CASE Active(r) /\ HasActiveStep(r)
  <2> DEFINE i == ActiveStep(r)
  <2>1. i \in Steps /\ IsActiveStep(r, i) /\ ActiveForm(r, i) /\ ~Terminal(r)
    BY <1>3, OrderToForm, FormToOrder DEF HasActiveStep
  <2>2. CASE r.steps[i] = "stopping"
    <3>1. s = r
      BY <1>3, <2>1, <2>2 DEF Stop
    <3>2. \A j \in Steps : IsActiveStep(r, j) => j = i
      BY OrderToForm
    <3>3. r.term # "none"
      BY <2>1, <2>2 DEF ActiveForm
    <3> QED BY <3>1, <3>2, <3>3, SameLawful DEF ShouldCancel
  <2>3. CASE r.steps[i] # "stopping"
    <3>1. s = [r EXCEPT !.status = "stopping", !.steps[i] = "stopping",
                        !.term = EffectiveReason(r, reason)]
      BY <1>3, <2>1, <2>3 DEF Stop
    <3> HIDE DEF i
    <3>2. EffectiveReason(r, reason) \in Reasons
      BY DEF EffectiveReason, Records, ReasonOrNone
    <3>3. /\ s \in Records /\ s.status = "stopping" /\ s.steps[i] = "stopping"
          /\ \A j \in Steps : j # i => s.steps[j] = r.steps[j]
          /\ s.term # "none" /\ s.agents = r.agents /\ s.started = r.started
      <4>1. s.steps = [r.steps EXCEPT ![i] = "stopping"]
        BY <3>1 DEF Records
      <4>2. s.term = EffectiveReason(r, reason)
        BY <3>1 DEF Records
      <4>3. s \in Records
        BY StopType DEF ReasonOrNone
      <4> QED BY <2>1, <3>1, <3>2, <4>1, <4>2, <4>3 DEF Records, Reasons
    <3>4. ActiveForm(s, i)
      BY <2>1, <3>3 DEF ActiveForm, Around, ActiveStepStatuses, Steps
    <3>5. InOrder(s) /\ Active(s) /\ ActiveStep(s) = i
      BY <2>1, <3>3, <3>4, FormToOrder
    <3>6. /\ LC!CanMove(LC!RunMoves, r.status, s.status)
          /\ \A j \in Steps : LC!CanMove(LC!StepMoves, r.steps[j], s.steps[j])
      <4>1. LC!CanMove(LC!RunMoves, r.status, s.status)
        BY <2>1, <3>3 DEF ActiveForm, ActiveStepStatuses, LC!CanMove, LC!RunMoves
      <4>2. LC!CanMove(LC!StepMoves, r.steps[i], s.steps[i])
        BY <2>1, <3>3 DEF ActiveForm, ActiveStepStatuses, LC!CanMove, LC!StepMoves
      <4>3. \A j \in Steps : j # i => LC!CanMove(LC!StepMoves, r.steps[j], s.steps[j])
        BY <3>3 DEF LC!CanMove
      <4> QED BY <4>1, <4>2, <4>3
    <3>7. Lawful(r, s)
      BY <2>1, <3>3, <3>5, <3>6 DEF Lawful
    <3>8. Interrupts(r, s)
      BY <1>3, <2>1, <3>3 DEF Interrupts, ActiveForm, ActiveStepStatuses
    <3>9. \A j \in Steps : IsActiveStep(s, j) => j = i
      BY <3>3, <3>5, OrderToForm
    <3> QED BY <3>3, <3>5, <3>7, <3>8, <3>9 DEF ShouldCancel
  <2> QED BY <2>2, <2>3
<1> QED BY <1>1, <1>2, <1>3 DEF Records, Terminal, Active

(* And its record of a refused cancellation, which only a step that has an   *)
(* agent and a stop on record can show.                                      *)
LEMMA RefusedLawful ==
    ASSUME NEW r \in Records, InOrder(r), r.status # "absent",
           NEW s, s = StopRefused(r)
    PROVE  /\ Lawful(r, s) /\ Interrupts(r, s)
           /\ s # r => s.term # "none"
           /\ \A j \in Steps : s.steps[j] = "stop_failed" =>
                  r.steps[j] = "stop_failed" \/ IsActiveStep(r, j)
<1>1. CASE ~(/\ Active(r) /\ HasActiveStep(r) /\ r.steps[ActiveStep(r)] = "stopping"
             /\ r.agents[ActiveStep(r)])
  <2>1. s = r
    BY <1>1 DEF StopRefused
  <2> QED BY <2>1, SameLawful
<1>2. CASE /\ Active(r) /\ HasActiveStep(r) /\ r.steps[ActiveStep(r)] = "stopping"
           /\ r.agents[ActiveStep(r)]
  <2> DEFINE i == ActiveStep(r)
  <2>1. i \in Steps /\ IsActiveStep(r, i) /\ ActiveForm(r, i) /\ ~Terminal(r)
    BY <1>2, OrderToForm, FormToOrder DEF HasActiveStep
  <2>2. r.steps[i] = "stopping" /\ r.agents[i]
    BY <1>2
  <2>3. s = [r EXCEPT !.status = "stop_failed", !.steps[i] = "stop_failed"]
    BY <1>2 DEF StopRefused
  <2> HIDE DEF i
  <2>4. /\ s \in Records /\ s.status = "stop_failed" /\ s.steps[i] = "stop_failed"
        /\ \A j \in Steps : j # i => s.steps[j] = r.steps[j]
        /\ s.term = r.term /\ s.agents = r.agents /\ s.started = r.started
    <3>1. s.steps = [r.steps EXCEPT ![i] = "stop_failed"]
      BY <2>3 DEF Records
    <3>2. s \in Records
      BY StopRefusedType
    <3> QED BY <2>1, <2>3, <3>1, <3>2 DEF Records
  <2>5. ActiveForm(s, i)
    BY <2>1, <2>2, <2>4 DEF ActiveForm, Around, ActiveStepStatuses, Steps
  <2>6. InOrder(s) /\ Active(s)
    BY <2>1, <2>4, <2>5, FormToOrder
  <2>7. r.status = "stopping" /\ r.term # "none"
    BY <2>1, <2>2 DEF ActiveForm
  <2>8. \A j \in Steps : LC!CanMove(LC!StepMoves, r.steps[j], s.steps[j])
    BY <2>1, <2>2, <2>4 DEF LC!CanMove, LC!StepMoves
  <2>9. Lawful(r, s)
    BY <2>1, <2>4, <2>6, <2>7, <2>8 DEF Lawful, LC!CanMove, LC!RunMoves
  <2>10. Interrupts(r, s)
    BY <1>2, <2>1, <2>4, <2>7 DEF Interrupts
  <2> QED BY <2>1, <2>4, <2>7, <2>9, <2>10
<1> QED BY <1>1, <1>2

-----------------------------------------------------------------------------
(* The updaters of the execution loop                                        *)

(* A step moves from one active checkpoint to another.                       *)
LEMMA CheckpointLawful ==
    ASSUME NEW r \in Records, NEW i \in Steps, ActiveForm(r, i),
           NEW s \in Records, ActiveForm(s, i),
           \A j \in Steps : j # i => s.steps[j] = r.steps[j],
           s.steps[i] = r.steps[i]
              \/ (r.steps[i] = "creating" /\ s.steps[i] = "running")
              \/ (/\ r.steps[i] \in {"running", "waiting_for_permission"}
                  /\ s.steps[i] \in {"running", "waiting_for_permission"})
    PROVE  Lawful(r, s) /\ Active(s)
<1>1. InOrder(s) /\ Active(s) /\ ~Terminal(r)
  BY FormToOrder
<1>2. LC!CanMove(LC!RunMoves, r.status, s.status)
  BY DEF ActiveForm, ActiveStepStatuses, LC!CanMove, LC!RunMoves
<1>3. \A j \in Steps : LC!CanMove(LC!StepMoves, r.steps[j], s.steps[j])
  BY DEF LC!CanMove, LC!StepMoves
<1>4. s.status # "absent"
  BY <1>1 DEF Active, ActiveRunStatuses
<1> QED BY <1>1, <1>2, <1>3, <1>4 DEF Lawful

(* beginFirstStep starts the first step of a queued run, and nothing else.   *)
LEMMA BeginLawful ==
    ASSUME NEW r \in Records, InOrder(r), r.status # "absent",
           Active(r) => r.status = "queued",
           NEW s, s = BeginFirstStep(r)
    PROVE  /\ Lawful(r, s) /\ (Active(s) <=> Active(r)) /\ s.agents = r.agents
           /\ Active(r) => s.steps[1] = "creating" /\ ~s.agents[1]
           /\ \A j \in Steps : j # 1 \/ ~Active(r) => s.steps[j] = r.steps[j]
           /\ s # r => r.term = "none" /\ s.term = "none"
<1>0. 1 \in Steps
  BY DEF Steps
<1>1. CASE ~Active(r)
  <2>1. s = r
    BY <1>1 DEF BeginFirstStep, Active, ActiveRunStatuses
  <2> QED BY <1>1, <2>1, SameLawful
<1>2. CASE Active(r)
  <2>1. ~HasActiveStep(r)
    BY <1>2 DEF InOrder, ValidRun, HasActiveStep, IsActiveStep, ActiveStepStatuses
  <2>2. QueuedForm(r)
    BY <1>2, <2>1, QueuedOrder
  <2>3. s = [r EXCEPT !.status = "running", !.started = TRUE, !.steps[1] = "creating"]
    BY <1>2 DEF BeginFirstStep
  <2>4. /\ s \in Records /\ s.status = "running" /\ s.steps[1] = "creating"
        /\ \A j \in Steps : j # 1 => s.steps[j] = r.steps[j]
        /\ s.term = r.term /\ s.agents = r.agents /\ s.started
    <3>1. s.steps = [r.steps EXCEPT ![1] = "creating"]
      BY <2>3 DEF Records
    <3>2. TRUE \in BOOLEAN /\ BeginFirstStep(r) \in Records
      BY <1>0, ExecutionUpdateTypes
    <3> QED BY <1>0, <2>3, <3>1, <3>2 DEF Records
  <2>5. ActiveForm(s, 1)
    BY <1>0, <2>2, <2>4 DEF ActiveForm, QueuedForm, Around, ActiveStepStatuses, Steps
  <2>6. InOrder(s) /\ Active(s)
    BY <1>0, <2>4, <2>5, FormToOrder
  <2>7. \A j \in Steps : LC!CanMove(LC!StepMoves, r.steps[j], s.steps[j])
    BY <2>2, <2>4 DEF QueuedForm, LC!CanMove, LC!StepMoves
  <2>8. Lawful(r, s)
    BY <2>2, <2>4, <2>6, <2>7 DEF QueuedForm, Lawful, LC!CanMove, LC!RunMoves, Terminal,
       TerminalRunStatuses
  <2> QED BY <1>0, <1>2, <2>2, <2>4, <2>6, <2>8 DEF QueuedForm
<1> QED BY <1>1, <1>2

(* persistAgentCreated gives the step its agent, whether it is wanted still  *)
(* or a stop overtook its creation.                                          *)
LEMMA PersistLawful ==
    ASSUME NEW r \in Records, InOrder(r), r.status # "absent", NEW i \in Steps,
           Active(r) => r.steps[i] \in {"creating", "stopping"},
           NEW s, s = PersistAgentCreated(r, i)
    PROVE  /\ Lawful(r, s) /\ (Active(s) <=> Active(r))
           /\ Active(r) => s.agents[i] /\ s.steps[i] \in {"running", "stopping"}
           /\ ~Active(r) => s = r
           /\ s.term = r.term
           /\ \A j \in Steps : /\ j # i => s.steps[j] = r.steps[j] /\ s.agents[j] = r.agents[j]
                               /\ r.agents[j] => s.agents[j]
<1>1. CASE ~Active(r)
  <2>1. s = r
    BY <1>1 DEF PersistAgentCreated
  <2> QED BY <1>1, <2>1, SameLawful
<1>2. CASE Active(r)
  <2>1. ActiveForm(r, i)
    BY <1>2, OrderToForm DEF IsActiveStep, ActiveStepStatuses
  <2>2. /\ s \in Records /\ s.term = r.term /\ s.started = r.started
        /\ s.steps[i] = (IF r.steps[i] = "stopping" THEN "stopping" ELSE "running")
        /\ s.status = s.steps[i]
        /\ s.agents = [r.agents EXCEPT ![i] = TRUE]
        /\ \A j \in Steps : j # i => s.steps[j] = r.steps[j]
    <3>1. CASE r.steps[i] = "stopping"
      <4>1. s = [r EXCEPT !.agents[i] = TRUE]
        BY <1>2, <3>1 DEF PersistAgentCreated
      <4>2. s \in Records
        BY ExecutionUpdateTypes
      <4> QED BY <2>1, <3>1, <4>1, <4>2 DEF Records, ActiveForm
    <3>2. CASE r.steps[i] = "creating"
      <4>1. s = [r EXCEPT !.status = "running", !.steps[i] = "running", !.agents[i] = TRUE]
        BY <1>2, <3>2 DEF PersistAgentCreated
      <4>2. s \in Records
        BY ExecutionUpdateTypes
      <4>3. s.steps = [r.steps EXCEPT ![i] = "running"]
        BY <4>1 DEF Records
      <4> QED BY <3>2, <4>1, <4>2, <4>3 DEF Records
    <3> QED BY <1>2, <3>1, <3>2
  <2>3. s.agents[i] /\ \A j \in Steps : j # i => s.agents[j] = r.agents[j]
    BY <2>2 DEF Records
  <2>4. ActiveForm(s, i)
    BY <1>2, <2>1, <2>2, <2>3 DEF ActiveForm, Around, ActiveStepStatuses, Steps
  <2>5. Lawful(r, s) /\ Active(s)
    BY <1>2, <2>1, <2>2, <2>4, CheckpointLawful
  <2> QED BY <1>2, <2>2, <2>3, <2>5
<1> QED BY <1>1, <1>2

(* persistPermissionState moves the step between running and waiting.        *)
LEMMA PermissionLawful ==
    ASSUME NEW r \in Records, InOrder(r), r.status # "absent", NEW i \in Steps,
           Active(r) => IsActiveStep(r, i), NEW isWaiting \in BOOLEAN,
           NEW s, s = PermissionState(r, i, isWaiting)
    PROVE  /\ Lawful(r, s) /\ (Active(s) <=> Active(r)) /\ s.agents = r.agents
           /\ s.steps[i] = r.steps[i] \/ s.steps[i] \in {"running", "waiting_for_permission"}
           /\ \A j \in Steps : j # i \/ ~Active(r) => s.steps[j] = r.steps[j]
           /\ s.term = r.term /\ (s # r => s.term = "none")
<1>1. CASE ~Active(r) \/ r.status \in {"stopping", "stop_failed"} \/ ~r.agents[i]
  <2>1. s = r
    BY <1>1 DEF PermissionState
  <2> QED BY <2>1, SameLawful
<1>2. CASE ~(~Active(r) \/ r.status \in {"stopping", "stop_failed"} \/ ~r.agents[i])
  <2>1. ActiveForm(r, i)
    BY <1>2, OrderToForm
  <2> DEFINE x == IF isWaiting THEN "waiting_for_permission" ELSE "running"
  <2>2. s = [r EXCEPT !.status = x, !.steps[i] = x]
    BY <1>2 DEF PermissionState
  <2>3. x \in {"running", "waiting_for_permission"}
    OBVIOUS
  <2> HIDE DEF x
  <2>4. /\ s \in Records /\ s.status = x /\ s.steps[i] = x
        /\ \A j \in Steps : j # i => s.steps[j] = r.steps[j]
        /\ s.term = r.term /\ s.agents = r.agents /\ s.started = r.started
    <3>1. s.steps = [r.steps EXCEPT ![i] = x]
      BY <2>2 DEF Records
    <3>2. s \in Records
      BY ExecutionUpdateTypes
    <3> QED BY <2>2, <3>1, <3>2 DEF Records
  <2>5. r.steps[i] \in {"running", "waiting_for_permission"} /\ r.term = "none"
    BY <1>2, <2>1 DEF ActiveForm, ActiveStepStatuses, Steps
  <2>6. ActiveForm(s, i)
    BY <2>1, <2>3, <2>4, <2>5 DEF ActiveForm, Around, ActiveStepStatuses
  <2>7. Lawful(r, s) /\ Active(s)
    BY <2>1, <2>3, <2>4, <2>5, <2>6, CheckpointLawful
  <2> QED BY <1>2, <2>3, <2>4, <2>5, <2>7
<1> QED BY <1>1, <1>2

(* completeStep's last update: the run has succeeded in every step.          *)
LEMMA LastStepLawful ==
    ASSUME NEW r \in Records, NEW i \in Steps, ActiveForm(r, i), r.agents[i], r.term = "none",
           LastStep(i), NEW s, s = StepSucceeded(r, i)
    PROVE  /\ Lawful(r, s) /\ ~Active(s) /\ s.agents = r.agents /\ s.term = "none"
           /\ s.steps[i] = "succeeded" /\ \A j \in Steps : j # i => s.steps[j] = r.steps[j]
<1>1. s = [r EXCEPT !.status = "succeeded", !.steps[i] = "succeeded", !.endedBy = "complete"]
  BY DEF StepSucceeded
<1>2. /\ s \in Records /\ s.status = "succeeded" /\ s.steps[i] = "succeeded"
      /\ \A j \in Steps : j # i => s.steps[j] = r.steps[j]
      /\ s.term = "none" /\ s.agents = r.agents
  <2>1. s.steps = [r.steps EXCEPT ![i] = "succeeded"]
    BY <1>1 DEF Records
  <2>2. TRUE \in BOOLEAN /\ s \in Records
    BY ExecutionUpdateTypes
  <2> QED BY <1>1, <2>1, <2>2 DEF Records
<1>3. \A j \in Steps : s.steps[j] = "succeeded"
  BY <1>2 DEF LastStep, ActiveForm, Around, Steps
<1>4. ~HasActiveStep(s) /\ \A j \in Steps : ~IsActiveStep(s, j)
  BY <1>3 DEF HasActiveStep, IsActiveStep, ActiveStepStatuses
<1>5. SequentialSteps(s)
  <2>1. \A j \in Steps : j < NumSteps + 1 /\ ~(j > NumSteps + 1)
    BY DEF Steps
  <2>2. NumSteps + 1 \in 1..(NumSteps + 1)
    OBVIOUS
  <2> QED BY <1>3, <2>1, <2>2 DEF SequentialSteps
<1>6. InOrder(s)
  <2>1. ValidRun(s)
    BY <1>2, <1>3, <1>4, <1>5 DEF ValidRun
  <2>2. CheckpointsAgree(s)
    BY <1>4 DEF CheckpointsAgree
  <2> QED BY <1>2, <1>3, <1>4, <2>1, <2>2 DEF InOrder
<1>7. ~Terminal(r) /\ ~Active(s)
  BY <1>2, FormToOrder DEF Active, ActiveRunStatuses
<1>8. r.steps[i] \in {"running", "waiting_for_permission"} /\ r.status = r.steps[i]
  BY DEF ActiveForm, ActiveStepStatuses, Steps
<1>9. /\ LC!CanMove(LC!RunMoves, r.status, s.status)
      /\ \A j \in Steps : LC!CanMove(LC!StepMoves, r.steps[j], s.steps[j])
  BY <1>2, <1>8 DEF LC!CanMove, LC!StepMoves, LC!RunMoves, LC!Ends
<1> QED BY <1>2, <1>6, <1>7, <1>9 DEF Lawful

(* completeStep's other update: the active checkpoint passes on.             *)
LEMMA NextStepLawful ==
    ASSUME NEW r \in Records, NEW i \in Steps, ActiveForm(r, i), r.agents[i], r.term = "none",
           ~LastStep(i), NEW s, s = StepSucceeded(r, i)
    PROVE  /\ i + 1 \in Steps
           /\ Lawful(r, s) /\ Active(s) /\ s.agents = r.agents /\ s.term = "none"
           /\ s.steps[i] = "succeeded" /\ s.steps[i + 1] = "creating" /\ ~s.agents[i + 1]
           /\ r.steps[i + 1] = "pending"
           /\ \A j \in Steps : j # i /\ j # i + 1 => s.steps[j] = r.steps[j]
<1>1. PICK n \in Steps : n = i + 1
  BY DEF LastStep, Steps
<1>2. \A j \in Steps : j < n <=> j < i \/ j = i
  BY <1>1 DEF Steps
<1>3. s = [r EXCEPT !.status = "running",
                    !.steps = [r.steps EXCEPT ![i] = "succeeded", ![n] = "creating"]]
  BY <1>1 DEF StepSucceeded
<1>4. n # i
  BY <1>1 DEF Steps
<1>5. /\ s \in Records /\ s.status = "running" /\ s.term = "none"
      /\ s.steps[i] = "succeeded" /\ s.steps[n] = "creating"
      /\ \A j \in Steps : j # i /\ j # n => s.steps[j] = r.steps[j]
      /\ s.agents = r.agents /\ s.started = r.started
  <2>1. s.steps = [r.steps EXCEPT ![i] = "succeeded", ![n] = "creating"]
    BY <1>3 DEF Records
  <2>2. TRUE \in BOOLEAN /\ s \in Records
    BY ExecutionUpdateTypes
  <2> QED BY <1>3, <1>4, <2>1, <2>2 DEF Records
<1>6. r.steps[n] = "pending" /\ ~r.agents[n]
  BY <1>1 DEF ActiveForm, Around, Steps
<1>7. Around(s, n)
  BY <1>2, <1>5 DEF ActiveForm, Around, Steps
<1>8. ActiveForm(s, n)
  <2>1. \A j \in Steps : s.agents[j] => j < n
    BY <1>2, <1>5 DEF ActiveForm
  <2> QED BY <1>5, <1>6, <1>7, <2>1 DEF ActiveForm, ActiveStepStatuses
<1>9. InOrder(s) /\ Active(s) /\ ~Terminal(r)
  BY <1>5, <1>8, FormToOrder
<1>10. r.steps[i] \in {"running", "waiting_for_permission"} /\ r.status = r.steps[i]
  BY DEF ActiveForm, ActiveStepStatuses, Steps
<1>11. LC!CanMove(LC!RunMoves, r.status, s.status)
  BY <1>5, <1>10 DEF LC!CanMove, LC!RunMoves, LC!Ends
<1>12. \A j \in Steps : LC!CanMove(LC!StepMoves, r.steps[j], s.steps[j])
  BY <1>5, <1>6, <1>10 DEF LC!CanMove, LC!StepMoves, LC!Ends
<1> QED BY <1>1, <1>5, <1>6, <1>9, <1>11, <1>12 DEF Lawful

(* failRun ends an active run that nobody asked to stop.                     *)
LEMMA FailedLawful ==
    ASSUME NEW r \in Records, InOrder(r), Active(r), r.term = "none",
           NEW s, s = Failed(r)
    PROVE  /\ Lawful(r, s) /\ ~Active(s) /\ s.agents = r.agents /\ s.term = "none"
           /\ \A j \in Steps : \/ s.steps[j] = r.steps[j]
                               \/ IsActiveStep(r, j) /\ s.steps[j] = "failed"
<1>1. /\ s \in Records /\ s.status = "failed" /\ s.started /\ s.term = "none"
      /\ s.agents = r.agents
      /\ \A j \in Steps : s.steps[j] = IF HasActiveStep(r) /\ j = ActiveStep(r)
                                       THEN "failed" ELSE r.steps[j]
  <2>1. TRUE \in BOOLEAN /\ 1 \in Steps
    BY DEF Steps
  <2>2. s \in Records
    BY <2>1, ExecutionUpdateTypes
  <2> QED BY <2>2 DEF Failed, Records
<1>2. ~Terminal(r) /\ r.status # "absent"
  BY DEF Active, Terminal, ActiveRunStatuses, TerminalRunStatuses
<1>3. LC!CanMove(LC!RunMoves, r.status, s.status)
  BY <1>1 DEF Active, ActiveRunStatuses, LC!CanMove, LC!RunMoves, LC!Ends
<1>4. CASE HasActiveStep(r)
  <2> DEFINE i == ActiveStep(r)
  <2>1. i \in Steps /\ IsActiveStep(r, i) /\ ActiveForm(r, i)
    BY <1>4, OrderToForm DEF HasActiveStep
  <2>2. s.steps[i] = "failed" /\ \A j \in Steps : j # i => s.steps[j] = r.steps[j]
    BY <1>1, <1>4, <2>1
  <2> HIDE DEF i
  <2>3. EndedForm(s, i)
    <3>1. Around(s, i)
      BY <2>1, <2>2 DEF ActiveForm, Around, Steps
    <3>2. \A j \in Steps : s.agents[j] => j <= i
      BY <1>1, <2>1 DEF ActiveForm, Steps
    <3> QED BY <1>1, <2>2, <3>1, <3>2 DEF EndedForm
  <2>4. InOrder(s) /\ ~Active(s)
    BY <1>1, <2>1, <2>3, EndedToOrder
  <2>5. \A j \in Steps : LC!CanMove(LC!StepMoves, r.steps[j], s.steps[j])
    BY <2>1, <2>2 DEF IsActiveStep, ActiveStepStatuses, LC!CanMove, LC!StepMoves, LC!Ends
  <2> QED BY <1>1, <1>2, <1>3, <2>1, <2>2, <2>4, <2>5 DEF Lawful
<1>5. CASE ~HasActiveStep(r)
  <2>1. QueuedForm(r)
    BY <1>5, QueuedOrder
  <2>2. UnbegunForm(s)
    BY <1>1, <1>5, <2>1 DEF UnbegunForm, QueuedForm
  <2>3. InOrder(s) /\ ~Active(s)
    BY <1>1, <2>2, UnbegunToOrder
  <2>4. \A j \in Steps : LC!CanMove(LC!StepMoves, r.steps[j], s.steps[j])
    BY <1>1, <1>5 DEF LC!CanMove
  <2> QED BY <1>1, <1>2, <1>3, <1>5, <2>3, <2>4 DEF Lawful
<1> QED BY <1>4, <1>5

-----------------------------------------------------------------------------
(* A record, its agents and the handlers that work on it                     *)

(* A step has succeeded only when its turn completed, a step that has not    *)
(* begun has no agent, and one that refused to stop has been prompted.       *)
AgentsFit(r, a) ==
    \A i \in Steps :
        /\ r.steps[i] = "succeeded" => a[i] = "completed"
        /\ r.steps[i] = "pending" => a[i] = "none"
        /\ r.steps[i] = "stop_failed" => a[i] \notin {"none", "idle"}

(* Where the execution is tells how far its step has come: before the agent  *)
(* is created, created, prompted, or completed.  The step stays the frontier *)
(* of the workflow, even of a run that another handler has ended meanwhile.  *)
Creating == {"loop", "revalidate", "want_create", "lock_create", "create_stop", "create_agent"}
Unprompted == {"created", "want_admit", "lock_admit", "admit_stop"}
Streaming == {"stream", "perm_check", "perm_write", "perm_stop"}
Completing == {"want_complete", "lock_complete", "complete_stop", "complete_write"}
Stopping == {"finish", "create_stop", "admit_stop", "complete_stop"}
OnStep == Creating \union {"persist_agent"} \union Unprompted \union Streaming \union Completing

LoopFits(r, a, pc, i, why) ==
    /\ pc \in OnStep => r.steps[i] \notin {"pending", "succeeded"}
    /\ pc \in Creating => a[i] = "none"
    /\ pc \in Creating \union {"persist_agent"} =>
          ~r.agents[i] /\ r.steps[i] \notin {"running", "waiting_for_permission"}
    /\ pc \in {"persist_agent"} \union Unprompted => a[i] = "idle"
    /\ pc \in Unprompted => r.steps[i] \notin {"creating", "waiting_for_permission"}
    /\ pc \in Unprompted \union Streaming \union Completing /\ Active(r) => r.agents[i]
    /\ pc \in Completing => a[i] = "completed"
    /\ pc \in {"boot", "begin"} /\ Active(r) => r.status = "queued"
    /\ pc \in Stopping => why # "none"
    /\ pc = "complete_stop" /\ Terminal(r) => r.term # "none"
    /\ pc \in {"done", "clearing"} => ~Active(r)

(* A cancellation on its way, or refused, has its reason on record and       *)
(* addresses the agent of the active step.                                   *)
StopFits(r, a, pc) ==
    /\ pc \in {"cancel_agent", "refused"} => r.term # "none"
    /\ pc = "cancel_agent" => \A i \in Steps : IsActiveStep(r, i) => r.agents[i]
    /\ pc = "refused" => \A i \in Steps : IsActiveStep(r, i) => a[i] \notin {"none", "idle"}

(* The execution may be anywhere when another handler interrupts its run:    *)
(* what it has established stays true.                                       *)
LEMMA InterruptFits ==
    ASSUME NEW r \in Records, NEW s \in Records, NEW a, NEW i \in Steps, NEW pc, NEW why,
           Interrupts(r, s), AgentsFit(r, a), LoopFits(r, a, pc, i, why),
           \A j \in Steps : s.steps[j] = "stop_failed" =>
               r.steps[j] = "stop_failed" \/ a[j] \notin {"none", "idle"}
    PROVE  AgentsFit(s, a) /\ LoopFits(s, a, pc, i, why)
<1>1. \A j \in Steps :
         \/ s.steps[j] = r.steps[j]
         \/ /\ r.steps[j] \in ActiveStepStatuses
            /\ s.steps[j] \in {"stopping", "stop_failed", "failed", "canceled", "interrupted"}
  BY DEF Interrupts, IsActiveStep
<1>2. AgentsFit(s, a)
  BY <1>1 DEF AgentsFit, ActiveStepStatuses
<1>3. /\ r.steps[i] \notin {"pending", "succeeded"} => s.steps[i] \notin {"pending", "succeeded"}
      /\ r.steps[i] \notin {"running", "waiting_for_permission"} =>
             s.steps[i] \notin {"running", "waiting_for_permission"}
      /\ r.steps[i] \notin {"creating", "waiting_for_permission"} =>
             s.steps[i] \notin {"creating", "waiting_for_permission"}
  BY <1>1 DEF ActiveStepStatuses
<1>4. pc = "complete_stop" /\ Terminal(s) => s.term # "none"
  BY DEF Interrupts, LoopFits
<1>5. /\ s.agents = r.agents /\ (Active(s) => Active(r))
      /\ Active(s) /\ r.status = "queued" => s.status = "queued"
  BY DEF Interrupts
<1> QED BY <1>2, <1>3, <1>4, <1>5 DEF LoopFits

(* So does what a cancellation on its way counts on.                         *)
LEMMA InterruptStops ==
    ASSUME NEW r \in Records, NEW s \in Records, NEW a, NEW pc,
           Interrupts(r, s), StopFits(r, a, pc)
    PROVE  StopFits(s, a, pc)
<1>1. \A j \in Steps : IsActiveStep(s, j) => IsActiveStep(r, j)
  BY DEF Interrupts, IsActiveStep
<1>2. s.agents = r.agents /\ (s.term # "none" \/ s = r)
  BY DEF Interrupts
<1> QED BY <1>1, <1>2 DEF StopFits

(* And without a reason on record no cancellation is on its way.             *)
LEMMA NoStopOnItsWay ==
    ASSUME NEW r, r.term = "none", NEW a, NEW pc, StopFits(r, a, pc), NEW s, NEW b
    PROVE  StopFits(s, b, pc)
  BY DEF StopFits

=============================================================================
