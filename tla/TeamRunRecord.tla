--------------------------- MODULE TeamRunRecord ---------------------------
(***************************************************************************)
(* The persisted record of a sequential Team Run, and the pure updates the *)
(* run service applies to it inside TeamRepository.updateRun.              *)
(*                                                                         *)
(*   packages/server/src/server/team/model.ts     statuses and lifecycle   *)
(*   packages/server/src/server/team/service.ts   the updater functions    *)
(*                                                                         *)
(* A record keeps what the properties tell apart:                          *)
(*   status   the run's checkpoint, "absent" before admission writes it    *)
(*   started  startedAt is not null                                        *)
(*   steps    the checkpoint of each workflow step                         *)
(*   agents   the step's state carries a non-null agentId                  *)
(*   term     the reason of the termination record, "none" without one     *)
(*   endedBy  which service operation wrote the terminal state; it stands  *)
(*            for endedAt and the error text, which every writer stamps    *)
(*            afresh                                                       *)
(* Snapshots, prompts, usage and error wording are left out.               *)
(*                                                                         *)
(* A definition whose name ends in _Slip is a plausible mistake in the     *)
(* code the next definition models.  No specification uses one: it stands  *)
(* in for that definition to show that a property notices the mistake.     *)
(***************************************************************************)
EXTENDS Integers

CONSTANT NumSteps      \* workflow steps of every Team definition in the model

ASSUME NumStepsAssumption == NumSteps \in Nat \ {0}

Steps == 1..NumSteps

TerminalRunStatuses == {"succeeded", "failed", "canceled", "interrupted"}
ActiveRunStatuses ==
    {"queued", "running", "waiting_for_permission", "stopping", "stop_failed"}
ActiveStepStatuses ==
    {"creating", "running", "waiting_for_permission", "stopping", "stop_failed"}
StepStatuses == {"pending"} \union ActiveStepStatuses \union TerminalRunStatuses

Reasons == {"cancel", "workspace", "shutdown", "deadline"}
ReasonOrNone == Reasons \union {"none"}
Writers == {"none", "stop", "finish", "complete", "fail"}

Records ==
    [status  : ActiveRunStatuses \union TerminalRunStatuses \union {"absent"},
     started : BOOLEAN,
     steps   : [Steps -> StepStatuses],
     agents  : [Steps -> BOOLEAN],
     term    : ReasonOrNone,
     endedBy : Writers]

Absent ==
    [status |-> "absent", started |-> FALSE,
     steps  |-> [i \in Steps |-> "pending"], agents |-> [i \in Steps |-> FALSE],
     term   |-> "none", endedBy |-> "none"]

Queued == [Absent EXCEPT !.status = "queued"]

Active(r) == r.status \in ActiveRunStatuses
Terminal(r) == r.status \in TerminalRunStatuses

(***************************************************************************)
(* findActiveStep: the first step in an active checkpoint.                 *)
(***************************************************************************)
IsActiveStep(r, i) == r.steps[i] \in ActiveStepStatuses
HasActiveStep(r) == \E i \in Steps : IsActiveStep(r, i)
ActiveStep(r) ==
    CHOOSE i \in Steps :
        IsActiveStep(r, i) /\ \A j \in 1..(i - 1) : ~IsActiveStep(r, j)

(***************************************************************************)
(* terminationRunUpdate: the first recorded reason wins, and it alone      *)
(* decides the outcome of the run and of its active step.                  *)
(***************************************************************************)
OutcomeOf_Slip(reason) == IF reason = "shutdown" THEN "interrupted" ELSE "canceled"

OutcomeOf(reason) ==
    CASE reason = "shutdown" -> "interrupted"
      [] reason = "deadline" -> "failed"
      [] OTHER               -> "canceled"

EffectiveReason_Slip(r, reason) == reason

EffectiveReason(r, reason) == IF r.term = "none" THEN reason ELSE r.term

TerminationRunUpdate(r, reason, writer) ==
    LET why == EffectiveReason(r, reason)
        out == OutcomeOf(why)
    IN  [r EXCEPT !.status  = out,
                  !.started = (@ \/ why = "deadline"),
                  !.steps   = [i \in Steps |->
                                 IF HasActiveStep(r) /\ i = ActiveStep(r)
                                 THEN out ELSE r.steps[i]],
                  !.term    = why,
                  !.endedBy = writer]

FinishTermination_Slip1(r, reason) == TerminationRunUpdate(r, reason, "finish")

FinishTermination_Slip2(r, reason) ==
    IF Terminal(r) \/ r.status = "stop_failed" THEN r
    ELSE TerminationRunUpdate(r, reason, "finish")

FinishTermination(r, reason) ==
    IF Terminal(r) THEN r ELSE TerminationRunUpdate(r, reason, "finish")

(***************************************************************************)
(* stopActiveRun: request the stop, and record a refused cancellation.     *)
(***************************************************************************)
Stop(r, reason) ==
    IF Terminal(r) THEN r
    ELSE IF ~HasActiveStep(r) THEN TerminationRunUpdate(r, reason, "stop")
    ELSE IF r.steps[ActiveStep(r)] = "stopping" THEN r
    ELSE [r EXCEPT !.status = "stopping",
                   !.steps[ActiveStep(r)] = "stopping",
                   !.term = EffectiveReason(r, reason)]

StopRefused_Slip(r) ==
    IF HasActiveStep(r) /\ r.steps[ActiveStep(r)] = "stopping"
    THEN [r EXCEPT !.steps[ActiveStep(r)] = "stop_failed"] ELSE r

StopRefused(r) ==
    IF /\ Active(r)
       /\ HasActiveStep(r)
       /\ r.steps[ActiveStep(r)] = "stopping"
       /\ r.agents[ActiveStep(r)]
    THEN [r EXCEPT !.status = "stop_failed", !.steps[ActiveStep(r)] = "stop_failed"]
    ELSE r

(***************************************************************************)
(* The updaters of the execution loop.                                     *)
(***************************************************************************)
BeginFirstStep(r) ==
    IF r.status # "queued" THEN r
    ELSE [r EXCEPT !.status = "running", !.started = TRUE, !.steps[1] = "creating"]

PersistAgentCreated(r, i) ==
    IF ~Active(r) THEN r
    ELSE IF r.steps[i] = "stopping" THEN [r EXCEPT !.agents[i] = TRUE]
    ELSE IF r.steps[i] # "creating" THEN r
    ELSE [r EXCEPT !.status = "running", !.steps[i] = "running", !.agents[i] = TRUE]

PermissionState_Slip1(r, i, isWaiting) ==
    LET s == IF isWaiting THEN "waiting_for_permission" ELSE "running"
    IN  IF ~Active(r) \/ ~r.agents[i] THEN r ELSE [r EXCEPT !.status = s, !.steps[i] = s]

PermissionState_Slip2(r, i, isWaiting) ==
    LET s == IF isWaiting THEN "waiting_for_permission" ELSE "running"
    IN  IF r.status \in {"stopping", "stop_failed"} \/ ~r.agents[i] THEN r
        ELSE [r EXCEPT !.status = s, !.steps[i] = s]

PermissionState(r, i, isWaiting) ==
    LET s == IF isWaiting THEN "waiting_for_permission" ELSE "running"
    IN  IF \/ ~Active(r)
           \/ r.status \in {"stopping", "stop_failed"}
           \/ ~r.agents[i]
        THEN r
        ELSE [r EXCEPT !.status = s, !.steps[i] = s]

LastStep(i) == i = NumSteps

StepSucceeded(r, i) ==
    IF LastStep(i)
    THEN [r EXCEPT !.status = "succeeded", !.steps[i] = "succeeded",
                   !.endedBy = "complete"]
    ELSE [r EXCEPT !.status = "running",
                   !.steps = [@ EXCEPT ![i] = "succeeded", ![i + 1] = "creating"]]

Failed(r) ==
    [r EXCEPT !.status  = "failed",
              !.started = TRUE,
              !.steps   = [i \in Steps |-> IF HasActiveStep(r) /\ i = ActiveStep(r)
                                           THEN "failed" ELSE r.steps[i]],
              !.endedBy = "fail"]

(***************************************************************************)
(* validateRunLifecycle and validateUnattendedPolicy: what                 *)
(* PersistedTeamRunRecordSchema.parse accepts of an unsupervised run.  A   *)
(* write that breaks it throws in updateRun.                               *)
(***************************************************************************)
SequentialSteps(r) ==
    \E frontier \in 1..(NumSteps + 1) :
        \A i \in Steps : /\ i < frontier => r.steps[i] = "succeeded"
                         /\ i > frontier => r.steps[i] = "pending"

SomeStep(r, s) == \E i \in Steps : r.steps[i] = s
TerminalStatusByReason ==
    [cancel |-> "canceled", workspace |-> "canceled",
     shutdown |-> "interrupted", deadline |-> "failed"]
AtStepBoundary(r) ==
    /\ \A i \in Steps : r.steps[i] \in {"succeeded", "pending"}
    /\ SomeStep(r, "pending")

ValidRun(r) ==
    /\ SequentialSteps(r)
    /\ Terminal(r) => ~HasActiveStep(r)
    /\ r.status \in {"waiting_for_permission", "stopping", "stop_failed"}
          => SomeStep(r, r.status)
    /\ r.status = "queued" => \A i \in Steps : r.steps[i] = "pending"
    /\ r.status = "running" => SomeStep(r, "creating") \/ SomeStep(r, "running")
    /\ r.status = "succeeded" => \A i \in Steps : r.steps[i] = "succeeded"
    /\ r.status = "failed" => SomeStep(r, "failed") \/ AtStepBoundary(r)
    /\ r.status \in {"canceled", "interrupted"} =>
          IF r.started THEN SomeStep(r, r.status) \/ AtStepBoundary(r)
                       ELSE \A i \in Steps : r.steps[i] = "pending"
    /\ r.term # "none" =>
          r.status \in {"stopping", "stop_failed", TerminalStatusByReason[r.term]}
=============================================================================
