------------------------------ MODULE Schedules ------------------------------
(***************************************************************************)
(* One schedule: the ticks that find it due, the runs it fires, the Team   *)
(* Runs those admit, and what a restart makes of the run it interrupted.   *)
(*                                                                         *)
(*   schedule/service.ts   ticks, manual runs, recovery, shutdown          *)
(*   schedule/store.ts     one file per schedule, its updates serialized   *)
(*   schedule/cron.ts      the next slot                                   *)
(*   team/service.ts       admitScheduledAssignmentRun                     *)
(*   (under packages/server/src/server/)                                   *)
(*                                                                         *)
(* A tick works through every schedule it has listed, awaiting each run it *)
(* fires, while the timer starts the next tick.  The other schedules are   *)
(* the delay between listing this one and coming to it.  The cadence has a *)
(* slot in every unit of time.                                             *)
(***************************************************************************)
EXTENDS Integers, Sequences, FiniteSets

CONSTANTS
    Ticks,          \* ticks that may be under way at once
    FairTicks,      \* those that are not held up by another schedule for ever
    Manuals,        \* run-once requests under way at once
    Targets,        \* "team": admit a Team Run; "agent": prompt an agent
    NoSlot,         \* the code's null: no next run, no limit
    InitMaxRuns,    \* limits a schedule is created with
    Expiry,         \* expiry dates a schedule is created with
    MaxTime, MaxRequests, MaxFaults, MaxStops   \* bounds

ASSUME SchedulesAssumption ==
    /\ FairTicks \subseteq Ticks /\ Ticks \cap Manuals = {}
    /\ Targets \subseteq {"team", "agent"}
    /\ NoSlot \notin Nat
    /\ InitMaxRuns \subseteq (Nat \ {0}) \cup {NoSlot}
    /\ Expiry \subseteq Nat \cup {NoSlot}
    /\ {MaxTime, MaxRequests, MaxFaults, MaxStops} \subseteq Nat

VARIABLES
    file,       \* the schedule on disk
    target,     \* its kind of target
    gone,       \* the target has ended: agent archived, Assignment closed
    teamRuns,   \* occurrences that a Team Run has been admitted for
    now,
    mode,       \* the daemon: up, stopping, stopped, down, or a step of start()
    occurrence, \* the interrupted run that start() is recovering, and its result
    running,    \* runningScheduleIds has this schedule
    fire,       \* what each tick or request is doing
    draining,   \* the executions stop() waits for
    callback,   \* an archived agent's schedules are still to be completed
    requests, faults, stops

vars == <<file, target, gone, teamRuns, now, mode, occurrence, running, fire, draining,
          callback, requests, faults, stops>>
memory == <<running, fire, draining, callback>>
budgets == <<requests, faults, stops>>

Threads == Ticks \cup Manuals
Idle == [pc |-> "idle", at |-> 0, id |-> 0, result |-> "none"]
NoOccurrence == [id |-> 0, result |-> "none"]

-----------------------------------------------------------------------------
(* The record.                                                               *)

\* computeNextRunAt, repeated while the slot it finds has passed.
NextSlot(after) == after + 1
Advance(after) == IF NextSlot(after) > now THEN NextSlot(after) ELSE NextSlot(now)

Completed(s) == [s EXCEPT !.status = "completed", !.next = NoSlot]
Running(s) == {i \in DOMAIN s.runs : s.runs[i].status = "running"}
CompletedRuns(s) == Cardinality(DOMAIN s.runs \ Running(s))
ShouldComplete(s, t) ==
    \/ s.expires # NoSlot /\ s.expires <= t
    \/ s.limit # NoSlot /\ CompletedRuns(s) >= s.limit

Overdue(s) == s.status = "active" /\ s.next # NoSlot /\ s.next <= now
PastDue(s) == IF Overdue(s) THEN [s EXCEPT !.next = Advance(s.next)] ELSE s

\* finishRun without the case of a schedule completed during the run.
FinishRun_Slip(s, id, result) ==
    LET f == [s EXCEPT !.runs[id].status = IF result = "ok" THEN "succeeded" ELSE "failed"] IN
    CASE result = "gone" -> Completed(f)
      [] result # "gone" /\ ShouldComplete(f, now) -> Completed(f)
      [] OTHER -> [f EXCEPT !.next = Advance(IF s.next = NoSlot THEN now ELSE s.next)]

\* finishRun: the run's outcome, and what it makes of the schedule.
FinishRun(s, id, result) ==
    LET f == [s EXCEPT !.runs[id].status = IF result = "ok" THEN "succeeded" ELSE "failed"] IN
    CASE result = "gone" -> Completed(f)
      [] result # "gone" /\ f.status = "completed" -> f
      [] result # "gone" /\ f.status # "completed" /\ ShouldComplete(f, now) -> Completed(f)
      [] OTHER ->
            CASE f.runs[id].manual -> f
              [] ~f.runs[id].manual /\ f.status = "paused" -> [f EXCEPT !.next = NoSlot]
              [] OTHER -> [f EXCEPT !.next = Advance(IF s.next = NoSlot THEN now ELSE s.next)]

-----------------------------------------------------------------------------
(* Ticks and run-once requests.                                              *)

Serving == mode \in {"up", "stopping", "stopped"}
acceptingDispatches == mode = "up"
In(t, pc) == Serving /\ fire[t].pc = pc
InFlight(t) == fire[t].pc \in {"append", "execute", "finish"}

Goto(t, pc) == fire' = [fire EXCEPT ![t].pc = pc] /\ UNCHANGED draining
Settle(t) == fire' = [fire EXCEPT ![t] = Idle] /\ draining' = draining \ {t}

\* tick: this schedule, as the directory listing has it, needs something done.
Tick(t) ==
    /\ acceptingDispatches /\ fire[t].pc = "idle"
    /\ file.exists /\ file.status = "active" /\ file.next # NoSlot
    /\ \/ ShouldComplete(file, now)
       \/ file.next <= now
    /\ fire' = [fire EXCEPT ![t] =
          IF ShouldComplete(file, now) THEN [Idle EXCEPT !.pc = "ended", !.at = now]
                                       ELSE [Idle EXCEPT !.pc = "due"]]
    /\ UNCHANGED <<file, target, gone, teamRuns, now, mode, occurrence, running, draining,
                   callback, budgets>>

\* runOnce, up to the end of inspect.
Inspect(t) ==
    /\ acceptingDispatches /\ fire[t].pc = "idle" /\ requests < MaxRequests
    /\ file.exists /\ file.status # "completed"
    /\ requests' = requests + 1
    /\ fire' = [fire EXCEPT ![t] = [Idle EXCEPT !.pc = "due"]]
    /\ UNCHANGED <<file, target, gone, teamRuns, now, mode, occurrence, running, draining,
                   callback, faults, stops>>

\* The request has checked runningScheduleIds before inspect.
Begin_Slip(t) ==
    /\ In(t, "due")
    /\ IF acceptingDispatches /\ (t \in Manuals \/ ~running)
       THEN running' = TRUE /\ Goto(t, "append")
       ELSE Settle(t) /\ UNCHANGED running
    /\ UNCHANGED <<file, target, gone, teamRuns, now, mode, occurrence, callback, budgets>>

\* The fence is checked before the listing only.
Begin_Slip2(t) ==
    /\ In(t, "due")
    /\ IF ~running
       THEN running' = TRUE /\ Goto(t, "append")
       ELSE Settle(t) /\ UNCHANGED running
    /\ UNCHANGED <<file, target, gone, teamRuns, now, mode, occurrence, callback, budgets>>

\* The tick comes to this schedule, or the request resumes after inspect.
Begin(t) ==
    /\ In(t, "due")
    /\ IF acceptingDispatches /\ ~running
       THEN running' = TRUE /\ Goto(t, "append")
       ELSE Settle(t) /\ UNCHANGED running
    /\ UNCHANGED <<file, target, gone, teamRuns, now, mode, occurrence, callback, budgets>>

\* completeScheduleIfDue: the decision is taken again on the current record.
CompleteIfDue(t) ==
    /\ In(t, "ended")
    /\ file' = IF /\ acceptingDispatches /\ ~running
                  /\ file.status = "active" /\ file.next # NoSlot
                  /\ ShouldComplete(file, fire[t].at)
               THEN Completed(file) ELSE file
    /\ Settle(t)
    /\ UNCHANGED <<target, gone, teamRuns, now, mode, occurrence, running, callback, budgets>>

\* appendRunningRun.  When it throws, the schedule stays in runningScheduleIds.
AppendRun(t) ==
    /\ In(t, "append")
    /\ IF file.exists
       THEN /\ file' = [file EXCEPT !.runs = Append(@,
                           [status |-> "running", manual |-> t \in Manuals])]
            /\ fire' = [fire EXCEPT ![t].pc = "execute", ![t].id = Len(file.runs) + 1]
            /\ UNCHANGED draining
       ELSE Settle(t) /\ UNCHANGED file
    /\ UNCHANGED <<target, gone, teamRuns, now, mode, occurrence, running, callback, budgets>>

AppendFails(t) ==
    /\ In(t, "append") /\ faults < MaxFaults
    /\ faults' = faults + 1
    /\ Settle(t)
    /\ UNCHANGED <<file, target, gone, teamRuns, now, mode, occurrence, running, callback,
                   requests, stops>>

\* The target is resolved before the earlier admission is looked up.
Admit_Slip(id, result) ==
    \/ gone /\ result = "gone" /\ UNCHANGED teamRuns
    \/ ~gone /\ result = "ok" /\ teamRuns' = teamRuns \cup {id}
    \/ ~gone /\ id \notin teamRuns /\ result = "failed" /\ UNCHANGED teamRuns

\* admitScheduledAssignmentRun: an earlier admission of this occurrence wins
\* over whatever has become of the target since.
Admit(id, result) ==
    \/ id \in teamRuns /\ result = "ok" /\ UNCHANGED teamRuns
    \/ id \notin teamRuns /\ gone /\ result = "gone" /\ UNCHANGED teamRuns
    \/ id \notin teamRuns /\ ~gone /\ result = "ok" /\ teamRuns' = teamRuns \cup {id}
    \/ id \notin teamRuns /\ ~gone /\ result = "failed" /\ UNCHANGED teamRuns

\* executeExistingAgentSchedule.
Prompt(result) ==
    /\ IF gone THEN result = "gone" ELSE result \in {"ok", "failed"}
    /\ UNCHANGED teamRuns

Execute(t) ==
    /\ In(t, "execute")
    /\ \E result \in {"ok", "failed", "gone"} :
          /\ IF target = "team" THEN Admit(fire[t].id, result) ELSE Prompt(result)
          /\ fire' = [fire EXCEPT ![t].pc = "finish", ![t].result = result]
    /\ UNCHANGED <<file, target, gone, now, mode, occurrence, running, draining, callback,
                   budgets>>

\* The schedule is released after a success only.
Finish_Slip(t) ==
    /\ In(t, "finish")
    /\ file' = IF file.exists THEN FinishRun(file, fire[t].id, fire[t].result) ELSE file
    /\ running' = (fire[t].result # "ok")
    /\ Settle(t)
    /\ UNCHANGED <<target, gone, teamRuns, now, mode, occurrence, callback, budgets>>

Finish(t) ==
    /\ In(t, "finish")
    /\ file' = IF file.exists THEN FinishRun(file, fire[t].id, fire[t].result) ELSE file
    /\ running' = FALSE
    /\ Settle(t)
    /\ UNCHANGED <<target, gone, teamRuns, now, mode, occurrence, callback, budgets>>

FinishFails(t) ==
    /\ In(t, "finish") /\ faults < MaxFaults
    /\ faults' = faults + 1
    /\ running' = FALSE
    /\ Settle(t)
    /\ UNCHANGED <<file, target, gone, teamRuns, now, mode, occurrence, callback,
                   requests, stops>>

-----------------------------------------------------------------------------
(* What users and agents do to the schedule and its target.                  *)

Edited(s) ==
    /\ Serving /\ file.exists /\ requests < MaxRequests
    /\ requests' = requests + 1
    /\ file' = s
    /\ UNCHANGED <<target, gone, teamRuns, now, mode, occurrence, memory,
                   faults, stops>>

Pause == file.status = "active" /\ Edited([file EXCEPT !.status = "paused", !.next = NoSlot])

Resume == file.status = "paused"
          /\ Edited([file EXCEPT !.status = "active", !.next = NextSlot(now)])

\* update, with a cadence or with a limit.
Reschedule == Edited([file EXCEPT !.next = IF file.status = "active" THEN NextSlot(now)
                                                                     ELSE NoSlot])
SetMaxRuns == \E n \in InitMaxRuns : Edited([file EXCEPT !.limit = n])

\* createOrReplace, when this schedule is the one it finds.
CreateOrReplace ==
    /\ file.status # "completed"
    /\ \E n \in InitMaxRuns, e \in Expiry, runOnCreate \in BOOLEAN :
          Edited([file EXCEPT !.status = "active", !.limit = n, !.expires = e,
                              !.next = IF runOnCreate THEN now ELSE NextSlot(now)])

Delete == Edited([file EXCEPT !.exists = FALSE])

\* The agent is archived; its Assignment, or its Team, is closed for good.
TargetEnds ==
    /\ Serving /\ ~gone
    /\ gone' = TRUE
    /\ callback' = (target = "agent")
    /\ UNCHANGED <<file, target, teamRuns, now, mode, occurrence, running, fire, draining,
                   budgets>>

CompleteForAgent ==
    /\ Serving /\ callback
    /\ callback' = FALSE
    /\ file' = IF file.exists /\ file.status # "completed" THEN Completed(file) ELSE file
    /\ UNCHANGED <<target, gone, teamRuns, now, mode, occurrence, running, fire, draining,
                   budgets>>

-----------------------------------------------------------------------------
(* The daemon: stop(), a crash or exit, and start().                         *)

Stop ==
    /\ mode = "up" /\ stops < MaxStops
    /\ mode' = "stopping"
    /\ draining' = IF target = "team" THEN {t \in Threads : InFlight(t)} ELSE {}
    /\ UNCHANGED <<file, target, gone, teamRuns, now, occurrence, running, fire, callback,
                   budgets>>

Drained ==
    /\ mode = "stopping" /\ draining = {}
    /\ mode' = "stopped"
    /\ UNCHANGED <<file, target, gone, teamRuns, now, occurrence, memory, budgets>>

\* The process ends, whatever it was doing.
Down ==
    /\ mode # "down" /\ stops < MaxStops
    /\ stops' = stops + 1
    /\ mode' = "down"
    /\ running' = FALSE /\ fire' = [t \in Threads |-> Idle] /\ draining' = {}
    /\ callback' = FALSE /\ occurrence' = NoOccurrence
    /\ UNCHANGED <<file, target, gone, teamRuns, now, requests, faults>>

Start ==
    /\ mode = "down"
    /\ mode' = "recover"
    /\ UNCHANGED <<file, target, gone, teamRuns, now, occurrence, memory, budgets>>

\* runs.find and runs.findIndex of a running run: one index, or none.
FirstRunning(s) == {i \in Running(s) : \A j \in Running(s) : i <= j}
Interrupted == file.exists /\ Running(file) # {}

\* recoverInterruptedSchedule of a schedule that no Team Run hangs on.
RecoverInterrupted ==
    /\ mode = "recover"
    /\ \/ ~Interrupted /\ file' = IF file.exists THEN PastDue(file) ELSE file
       \/ /\ Interrupted /\ target = "agent"
          /\ \E i \in FirstRunning(file) :
                file' = PastDue([file EXCEPT !.runs[i].status = "failed"])
    /\ mode' = "sweep"
    /\ UNCHANGED <<target, gone, teamRuns, now, occurrence, memory, budgets>>

\* recoverAssignmentTeamRunOccurrence, and advanceSchedulePastDue after it.
Readmit ==
    /\ mode = "recover" /\ Interrupted /\ target = "team"
    /\ \E i \in FirstRunning(file), result \in {"ok", "failed", "gone"} :
          /\ Admit(i, result)
          /\ occurrence' = [id |-> i, result |-> result]
    /\ mode' = "record"
    /\ UNCHANGED <<file, target, gone, now, memory, budgets>>

RecordRecovered ==
    /\ mode = "record"
    /\ file' = FinishRun(file, occurrence.id, occurrence.result)
    /\ occurrence' = NoOccurrence
    /\ mode' = "advance"
    /\ UNCHANGED <<target, gone, teamRuns, now, memory, budgets>>

AdvancePastDue ==
    /\ mode = "advance"
    /\ file' = PastDue(file)
    /\ mode' = "sweep"
    /\ UNCHANGED <<target, gone, teamRuns, now, occurrence, memory, budgets>>

\* Schedules that do not tick are left alone.
SweepOrphaned_Slip ==
    /\ mode = "sweep"
    /\ file' = IF file.exists /\ target = "agent" /\ gone /\ file.status = "active"
               THEN Completed(file) ELSE file
    /\ mode' = "up"
    /\ UNCHANGED <<target, gone, teamRuns, now, occurrence, memory, budgets>>

SweepOrphaned ==
    /\ mode = "sweep"
    /\ file' = IF file.exists /\ target = "agent" /\ gone /\ file.status # "completed"
               THEN Completed(file) ELSE file
    /\ mode' = "up"
    /\ UNCHANGED <<target, gone, teamRuns, now, occurrence, memory, budgets>>

Clock ==
    /\ now < MaxTime
    /\ now' = now + 1
    /\ UNCHANGED <<file, target, gone, teamRuns, mode, occurrence, memory, budgets>>

-----------------------------------------------------------------------------
\* A schedule just created, or created and paused.
Init ==
    /\ \E n \in InitMaxRuns, e \in Expiry, next \in {0, NextSlot(0), NoSlot} :
          file = [exists |-> TRUE, status |-> IF next = NoSlot THEN "paused" ELSE "active",
                  limit |-> n, expires |-> e, next |-> next, runs |-> <<>>]
    /\ target \in Targets
    /\ gone = FALSE /\ teamRuns = {} /\ now = 0 /\ mode = "up"
    /\ occurrence = NoOccurrence
    /\ running = FALSE /\ fire = [t \in Threads |-> Idle] /\ draining = {}
    /\ callback = FALSE
    /\ requests = 0 /\ faults = 0 /\ stops = 0

Edits == Pause \/ Resume \/ Reschedule \/ SetMaxRuns \/ CreateOrReplace \/ Delete
Recovery == Start \/ RecoverInterrupted \/ Readmit \/ RecordRecovered \/ AdvancePastDue
            \/ SweepOrphaned

Next ==
    \/ \E t \in Ticks : Tick(t)
    \/ \E t \in Manuals : Inspect(t)
    \/ \E t \in Threads : \/ Begin(t) \/ CompleteIfDue(t) \/ Execute(t)
                          \/ AppendRun(t) \/ AppendFails(t)
                          \/ Finish(t) \/ FinishFails(t)
    \/ Edits \/ TargetEnds \/ CompleteForAgent
    \/ Stop \/ Drained \/ Down \/ Recovery
    \/ Clock

Spec == Init /\ [][Next]_vars

\* The timer goes on starting ticks, and one of them is not held up.  A Team
\* Run's admission returns; an agent's turn need not end.  A daemon that went
\* down is started again.
Fairness ==
    /\ \A t \in FairTicks : WF_vars(Tick(t)) /\ WF_vars(Begin(t)) /\ WF_vars(CompleteIfDue(t))
    /\ \A t \in Threads : /\ WF_vars(AppendRun(t)) /\ WF_vars(Finish(t))
                          /\ WF_vars(target = "team" /\ Execute(t))
    /\ WF_vars(CompleteForAgent)
    /\ WF_vars(Recovery)

FairSpec == Spec /\ Fairness

-----------------------------------------------------------------------------
(* Properties *)

RunType == [status : {"running", "succeeded", "failed"}, manual : BOOLEAN]
TypeOK ==
    /\ file.exists \in BOOLEAN /\ file.runs \in Seq(RunType)
    /\ file.status = "active" <=> file.next \in Nat
    /\ file.status \in {"paused", "completed"} <=> file.next = NoSlot
    /\ teamRuns \subseteq DOMAIN file.runs
    /\ \A t \in Threads : fire[t].id \in {0} \cup DOMAIN file.runs
    /\ draining \subseteq Threads

(* One execution of a schedule at a time, and the record knows it: while the *)
(* daemon serves, a run recorded as running is the one that is executing,    *)
(* unless writing its outcome failed.  A restart leaves none behind.         *)
RunningIsExecuting ==
    /\ \A t, u \in Threads : InFlight(t) /\ InFlight(u) => t = u
    /\ Serving /\ faults = 0 /\ file.exists =>
          \A i \in Running(file) :
              \E t \in Threads : fire[t].id = i /\ fire[t].pc \in {"execute", "finish"}

(* docs/teams.md: "Restart reconciliation reuses a running occurrence ID, so *)
(* the Team service returns the already-admitted run".  Every Team Run       *)
(* belongs to one recorded occurrence, which is recorded as failed only if   *)
(* it admitted none, and as succeeded only if it did.                        *)
AdmissionsRecorded ==
    target = "team" =>
        /\ teamRuns \subseteq DOMAIN file.runs
        /\ \A i \in DOMAIN file.runs : file.runs[i].status # "running" =>
              (file.runs[i].status = "succeeded" <=> i \in teamRuns)

(* bootstrap.ts: shutdown stops "schedule dispatch and drain[s] Team         *)
(* admissions before TeamRunService begins rejecting new work".              *)
DrainedBeforeShutdown ==
    mode = "stopped" /\ target = "team" => \A t \in Threads : ~InFlight(t)

(* A slot that comes due is fired, or the schedule ends or is paused: the    *)
(* mutex of a schedule is never left taken, nor a fired slot left due.       *)
(* Only for Team Runs, an agent may take for ever, and unless a write fails. *)
Due == mode = "up" /\ target = "team" /\ faults = 0 /\ file.exists /\ Overdue(file)
DueSlotFires == Due ~> ~Due

(* The schedules of an archived agent end, whatever is in flight and even if *)
(* the daemon goes down between the archive and the callback.                *)
ArchivedAgentEndsSchedule ==
    (target = "agent" /\ gone) ~> (~file.exists \/ file.status = "completed")

(* docs/data-model.md: maxRuns is the "Max fired occurrences, including      *)
(* failures".                                                                *)
MaxRunsKept == file.limit # NoSlot => Len(file.runs) <= file.limit
=============================================================================
