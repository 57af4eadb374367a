-------------------------- MODULE TeamRunLifecycle --------------------------
(***************************************************************************)
(* What Team Runs promise: a workspace is a lock that one run owns from    *)
(* admission to its end, and runs and steps only move along the transition *)
(* tables of packages/server/src/server/team/model.ts.  TeamRepository     *)
(* does not consult those tables when it writes a run, so that the service *)
(* keeps to them is a fact about all of its handlers together.             *)
(***************************************************************************)
EXTENDS Integers

CONSTANTS Requests, Workspaces, WorkspaceOf, Keys, KeyOf, NumSteps

VARIABLES
    status,   \* the status of each request's run, "absent" before admission
    steps,    \* the status of each of its steps
    owner     \* the request whose run owns each workspace, as a set of <= 1

lifecycle == <<status, steps, owner>>

Ends == {"succeeded", "failed", "canceled", "interrupted"}
StepRange == 1..NumSteps

(* TEAM_RUN_TRANSITIONS and TEAM_RUN_STEP_TRANSITIONS                        *)
RunMoves ==
    [queued      |-> {"running", "failed", "canceled", "interrupted"},
     running     |-> {"waiting_for_permission", "stopping"} \union Ends,
     waiting_for_permission |-> {"running", "stopping"} \union Ends,
     stopping    |-> {"stop_failed"} \union Ends,
     stop_failed |-> {"running", "waiting_for_permission", "stopping"} \union Ends,
     succeeded |-> {}, failed |-> {}, canceled |-> {}, interrupted |-> {}]

StepMoves ==
    [pending     |-> {"creating"},
     creating    |-> {"running", "stopping", "failed", "canceled", "interrupted"},
     running     |-> {"waiting_for_permission", "stopping"} \union Ends,
     waiting_for_permission |-> {"running", "stopping"} \union Ends,
     stopping    |-> {"stop_failed"} \union Ends,
     stop_failed |-> {"running", "waiting_for_permission", "stopping"} \union Ends,
     succeeded |-> {}, failed |-> {}, canceled |-> {}, interrupted |-> {}]

CanMove(table, from, to) == from = to \/ to \in table[from]

LInit ==
    /\ status = [q \in Requests |-> "absent"]
    /\ steps = [q \in Requests |-> [i \in StepRange |-> "pending"]]
    /\ owner = [w \in Workspaces |-> {}]

Admit(q) ==
    /\ status[q] = "absent"
    /\ owner[WorkspaceOf[q]] = {}
    /\ \A p \in Requests : KeyOf[p] = KeyOf[q] => status[p] = "absent"
    /\ status' = [status EXCEPT ![q] = "queued"]
    /\ owner' = [owner EXCEPT ![WorkspaceOf[q]] = {q}]
    /\ UNCHANGED steps

(* One checkpoint: the owner moves its run and its steps together.           *)
Checkpoint(q) ==
    /\ owner[WorkspaceOf[q]] = {q}
    /\ \E s \in {s \in DOMAIN RunMoves : CanMove(RunMoves, status[q], s)} :
          /\ status' = [status EXCEPT ![q] = s]
          /\ owner' = [owner EXCEPT ![WorkspaceOf[q]] = IF s \in Ends THEN {} ELSE {q}]
    /\ \E next \in [StepRange -> DOMAIN StepMoves] :
          /\ \A i \in StepRange : CanMove(StepMoves, steps[q][i], next[i])
          /\ steps' = [steps EXCEPT ![q] = next]

LNext == \E q \in Requests : Admit(q) \/ Checkpoint(q)

LSpec == LInit /\ [][LNext]_lifecycle
=============================================================================
