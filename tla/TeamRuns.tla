------------------------------ MODULE TeamRuns ------------------------------
(***************************************************************************)
(* TeamRunService for objective-only, sequential Team Runs: admission, the *)
(* execution loop, cancellation, the unattended deadline, workspace        *)
(* archival, daemon shutdown, crash and restart.                           *)
(*                                                                         *)
(*   packages/server/src/server/team/service.ts      TeamRunService        *)
(*   packages/server/src/server/team/execution.ts    executeTeamStep       *)
(*   packages/server/src/server/team/repository.ts   createRun, updateRun  *)
(*   packages/server/src/server/workspace-registry.ts   archive            *)
(*                                                                         *)
(* The daemon is one JavaScript thread, so code between two awaits is      *)
(* atomic and an await is where the other handlers interleave.  A step of  *)
(* this model is therefore one of                                          *)
(*   - a record read and the synchronous code that acts on it;             *)
(*   - one TeamRepository mutation: updateRun and createRun read, compute  *)
(*     and write inside the host persistence queue.  The order in which    *)
(*     that queue serves concurrent callers is left open;                  *)
(*   - the completion of a call that leaves the service (agent creation,   *)
(*     agent cancellation, the registry write).                            *)
(*                                                                         *)
(* Each request is one admission call with a fixed idempotency key and     *)
(* workspace; the run it creates is named by the request.                  *)
(*                                                                         *)
(* Not modelled here: supervised runs, Assignment artifacts, Team          *)
(* definition revisions, disk errors, and a clock that crosses a deadline  *)
(* inside one repository mutation.                                         *)
(***************************************************************************)
EXTENDS TeamRunRecord, Sequences, FiniteSets

CONSTANTS
    Requests,       \* startRun / startAssignmentRun calls that clients may make
    Workspaces,
    WorkspaceOf,    \* the workspace each request names
    Keys,
    KeyOf,          \* the (teamId, idempotencyKey) of each request
    Unattended,     \* requests that carry an unattended policy, hence a deadline
    Cancelable,     \* requests whose run a client may cancel
    Archivable,     \* workspaces that may be archived
    WithShutdown,   \* whether the daemon may be asked to shut down
    MaxRestarts     \* bound on daemon restarts, after a crash or a shutdown

ASSUME ConfigAssumption ==
    /\ WorkspaceOf \in [Requests -> Workspaces]
    /\ KeyOf \in [Requests -> Keys]
    /\ Unattended \subseteq Requests
    /\ Cancelable \subseteq Requests
    /\ Archivable \subseteq Workspaces
    /\ WithShutdown \in BOOLEAN
    /\ MaxRestarts \in Nat

VARIABLES
    run,         \* the durable run record of each request
    archived,    \* WorkspaceRegistry: archivedAt is set
    expired,     \* the clock has reached the run's frozen deadlineAt
    agent,       \* AgentManager: the agent planned for each step of each run
    mode,        \* "recovering" while initialize() runs, then "up"
    restarts,    \* daemon restarts so far
    accepting,   \* acceptingStarts
    termReq,     \* terminationRequests
    fence,       \* workspaceTerminationFences: the boundary of each workspace
    wsQ,         \* workspaceOperationTails: holder first, then FIFO waiters
    admQ,        \* admissionTail: holder first, then FIFO waiters
    startPc,     \* where each request's admission call is
    execPc,      \* where each run's execution is; "off" without one
    execStep,    \* the step the execution is on
    execReason,  \* the reason the execution is about to finish with
    perm,        \* executeTeamStep: pendingPermissions is not empty
    stop,        \* stopActiveRun, per caller and run
    cancelPc,    \* cancelRun, per run
    archPc,      \* WorkspaceRegistry.archive, per workspace
    dlPc,        \* the deadline timer and its handler, per run
    shutPc       \* shutdown()

world == <<run, archived, expired, agent>>
memory == <<mode, restarts, accepting, termReq, fence, wsQ, admQ>>
exec == <<execPc, execStep, execReason, perm>>
callers == <<startPc, stop, cancelPc, archPc, dlPc, shutPc>>
vars == <<world, memory, exec, callers>>

-----------------------------------------------------------------------------
(* State spaces *)

AgentStates == {"none", "idle", "streaming", "completed", "failed", "canceled", "ended"}
SettledTurns == {"completed", "failed", "canceled", "ended"}

WantPcs == {"want_create", "want_admit", "want_complete", "want_fail"}
LockPc == [want_create   |-> "lock_create",   want_admit |-> "lock_admit",
           want_complete |-> "lock_complete", want_fail  |-> "lock_fail"]
LockPcs == {LockPc[p] : p \in WantPcs}
WantPc(lockPc) == CHOOSE p \in WantPcs : LockPc[p] = lockPc
ExecPcs == WantPcs \union LockPcs \union
    {"off", "boot", "begin", "loop", "revalidate", "create_stop", "create_agent",
     "persist_agent", "created", "admit_stop", "stream", "perm_check", "perm_write",
     "perm_stop", "complete_stop", "complete_write", "err", "err_workspace",
     "finish", "done", "clearing"}

StopKinds == {"exec", "cancel", "archive", "deadline", "shutdown"}
StopResults == {"open", "stop_failed", "terminal"}
StopPcs == {"idle", "update", "cancel_agent", "refused", "wait"} \union StopResults

Procs == ({"start", "exec", "cancel"} \X Requests)
         \union ({"archive"} \X Workspaces) \union {<<"shutdown">>}

TypeOK ==
    /\ run \in [Requests -> Records]
    /\ archived \in [Workspaces -> BOOLEAN]
    /\ expired \in [Requests -> BOOLEAN]
    /\ agent \in [Requests -> [Steps -> AgentStates]]
    /\ mode \in {"recovering", "up"}
    /\ restarts \in 0..MaxRestarts
    /\ accepting \in BOOLEAN
    /\ termReq \in [Requests -> ReasonOrNone]
    /\ fence \in [Workspaces -> {"none", "pending", "committed"}]
    /\ wsQ \in [Workspaces -> Seq(Procs)]
    /\ admQ \in Seq(Procs)
    /\ startPc \in [Requests -> {"idle", "want", "lock", "admission", "create"}]
    /\ execPc \in [Requests -> ExecPcs]
    /\ execStep \in [Requests -> Steps]
    /\ execReason \in [Requests -> ReasonOrNone]
    /\ perm \in [Requests -> BOOLEAN]
    /\ stop \in [StopKinds \X Requests -> StopPcs]
    /\ cancelPc \in [Requests -> {"idle", "want", "lock", "stopping", "await"}]
    /\ archPc \in [Workspaces -> {"idle", "lock", "notify", "stopping", "finish", "unfenced"}]
    /\ dlPc \in [Requests -> {"off", "armed", "stopping", "finish"}]
    /\ shutPc \in {"up", "admission", "list", "stopping", "sweep", "down"}

Init ==
    /\ run = [q \in Requests |-> Absent]
    /\ archived = [w \in Workspaces |-> FALSE]
    /\ expired = [q \in Requests |-> FALSE]
    /\ agent = [q \in Requests |-> [i \in Steps |-> "none"]]
    /\ mode = "up"
    /\ restarts = 0
    /\ accepting = TRUE
    /\ termReq = [q \in Requests |-> "none"]
    /\ fence = [w \in Workspaces |-> "none"]
    /\ wsQ = [w \in Workspaces |-> << >>]
    /\ admQ = << >>
    /\ startPc = [q \in Requests |-> "idle"]
    /\ execPc = [q \in Requests |-> "off"]
    /\ execStep = [q \in Requests |-> 1]
    /\ execReason = [q \in Requests |-> "none"]
    /\ perm = [q \in Requests |-> FALSE]
    /\ stop = [s \in StopKinds \X Requests |-> "idle"]
    /\ cancelPc = [q \in Requests |-> "idle"]
    /\ archPc = [w \in Workspaces |-> "idle"]
    /\ dlPc = [q \in Requests |-> "off"]
    /\ shutPc = "up"

-----------------------------------------------------------------------------
(* Termination reasons *)

(* requestTermination: shutdown is sticky, then workspace, then deadline.    *)
RequestTermination(current, reason) ==
    IF /\ current # "shutdown"
       /\ \/ reason \in {"shutdown", "workspace"}
          \/ current = "none"
          \/ reason = "deadline" /\ current = "cancel"
    THEN reason ELSE current

(* requestedTerminationReason, evaluated on the record as it is now.         *)
RequestedReason_Slip1(q) ==
    CASE termReq[q] \in {"shutdown", "workspace", "deadline"} -> termReq[q]
      [] termReq[q] \in {"cancel", "none"} /\ run[q].term # "none" -> run[q].term
      [] OTHER -> IF expired[q] THEN "deadline" ELSE termReq[q]

RequestedReason_Slip2(q) ==
    CASE termReq[q] \in {"shutdown", "workspace", "deadline"} -> termReq[q]
      [] termReq[q] \in {"cancel", "none"} /\ run[q].term # "none" -> run[q].term
      [] OTHER -> IF fence[WorkspaceOf[q]] = "committed" THEN "workspace" ELSE termReq[q]

RequestedReason(q) ==
    CASE termReq[q] \in {"shutdown", "workspace", "deadline"} -> termReq[q]
      [] termReq[q] \in {"cancel", "none"} /\ run[q].term # "none" -> run[q].term
      [] termReq[q] \in {"cancel", "none"} /\ run[q].term = "none" ->
            IF fence[WorkspaceOf[q]] = "committed" THEN "workspace"
            ELSE IF expired[q] THEN "deadline" ELSE termReq[q]

Asked(q) == RequestedReason(q) # "none"
OrCancel(reason) == IF reason = "none" THEN "cancel" ELSE reason

-----------------------------------------------------------------------------
(* TeamRepository.updateRun *)

(* A change to a run without a termination record is refused past the        *)
(* deadline; the caller sees an exception and nothing is written.            *)
Rejected(q, new) == new # run[q] /\ new.term = "none" /\ expired[q]

UpdateRun(q, new) ==
    run' = [run EXCEPT ![q] = IF Rejected(q, new) THEN run[q] ELSE new]

-----------------------------------------------------------------------------
(* withWorkspaceOperation: a FIFO mutex per workspace that also stands aside *)
(* while a workspace termination boundary is pending.                        *)

Holds(p, w) == wsQ[w] # << >> /\ Head(wsQ[w]) = p
Admitted_Slip(p, w) == wsQ[w] # << >> /\ fence[w] # "pending"
Admitted(p, w) == Holds(p, w) /\ fence[w] # "pending"
Enqueue(p, w) == fence[w] # "pending" /\ wsQ' = [wsQ EXCEPT ![w] = Append(@, p)]
StandAside(p, w) ==
    Holds(p, w) /\ fence[w] = "pending" /\ wsQ' = [wsQ EXCEPT ![w] = Tail(@)]
Release_Slip(w) == UNCHANGED wsQ
Release(w) == wsQ' = [wsQ EXCEPT ![w] = Tail(@)]

HoldsAdmission(p) == admQ # << >> /\ Head(admQ) = p

-----------------------------------------------------------------------------
(* Admission: startRun and startAssignmentRun *)

Existing_Slip(q) == run[q].status # "absent"
Existing(q) == \E p \in Requests : run[p].status # "absent" /\ KeyOf[p] = KeyOf[q]
ActiveRunIn_Slip(w) == {p \in Requests : WorkspaceOf[p] = w /\ run[p].status = "running"}
ActiveRunIn(w) == {p \in Requests : WorkspaceOf[p] = w /\ Active(run[p])}

(* Lookup, requireAcceptingStarts and preflight.  A lookup that finds a run  *)
(* returns it and a failed check throws; neither changes anything.           *)
StartCall(q) ==
    /\ startPc[q] = "idle"
    /\ ~Existing(q) /\ accepting /\ ~archived[WorkspaceOf[q]]
    /\ startPc' = [startPc EXCEPT ![q] = "want"]
    /\ UNCHANGED <<world, memory, exec, stop, cancelPc, archPc, dlPc, shutPc>>

StartEnqueue(q) ==
    /\ startPc[q] = "want"
    /\ Enqueue(<<"start", q>>, WorkspaceOf[q])
    /\ startPc' = [startPc EXCEPT ![q] = "lock"]
    /\ UNCHANGED <<world, mode, restarts, accepting, termReq, fence, admQ, exec,
                   stop, cancelPc, archPc, dlPc, shutPc>>

StartStandAside(q) ==
    /\ startPc[q] = "lock"
    /\ StandAside(<<"start", q>>, WorkspaceOf[q])
    /\ startPc' = [startPc EXCEPT ![q] = "want"]
    /\ UNCHANGED <<world, mode, restarts, accepting, termReq, fence, admQ, exec,
                   stop, cancelPc, archPc, dlPc, shutPc>>

(* serializeAdmission, inside the workspace operation.                       *)
StartAdmission(q) ==
    /\ startPc[q] = "lock"
    /\ Admitted(<<"start", q>>, WorkspaceOf[q])
    /\ admQ' = Append(admQ, <<"start", q>>)
    /\ startPc' = [startPc EXCEPT ![q] = "admission"]
    /\ UNCHANGED <<world, mode, restarts, accepting, termReq, fence, wsQ, exec,
                   stop, cancelPc, archPc, dlPc, shutPc>>

(* The second lookup, requireAcceptingStarts and revalidateTeamRunWorkspace. *)
StartCheck(q) ==
    /\ startPc[q] = "admission"
    /\ HoldsAdmission(<<"start", q>>)
    /\ IF ~Existing(q) /\ accepting /\ ~archived[WorkspaceOf[q]]
       THEN /\ startPc' = [startPc EXCEPT ![q] = "create"]
            /\ UNCHANGED <<wsQ, admQ>>
       ELSE /\ startPc' = [startPc EXCEPT ![q] = "idle"]
            /\ Release(WorkspaceOf[q])
            /\ admQ' = Tail(admQ)
    /\ UNCHANGED <<world, mode, restarts, accepting, termReq, fence, exec,
                   stop, cancelPc, archPc, dlPc, shutPc>>

(* TeamRepository.createRun checks the key and the workspace once more, then *)
(* the service arms the deadline and launches the execution.                 *)
StartCreate(q) ==
    /\ startPc[q] = "create"
    /\ startPc' = [startPc EXCEPT ![q] = "idle"]
    /\ Release(WorkspaceOf[q])
    /\ admQ' = Tail(admQ)
    /\ IF ~Existing(q) /\ ActiveRunIn(WorkspaceOf[q]) = {}
       THEN /\ run' = [run EXCEPT ![q] = Queued]
            /\ execPc' = [execPc EXCEPT ![q] = "boot"]
            /\ dlPc' = [dlPc EXCEPT ![q] = IF q \in Unattended THEN "armed" ELSE @]
       ELSE UNCHANGED <<run, execPc, dlPc>>
    /\ UNCHANGED <<archived, expired, agent, mode, restarts, accepting, termReq,
                   fence, execStep, execReason, perm, stop, cancelPc, archPc, shutPc>>

-----------------------------------------------------------------------------
(* stopActiveRun, a procedure its callers run concurrently.  A caller k      *)
(* starts it on run q with stop[k, q] = "update" and takes its result back   *)
(* with StopReturned.                                                        *)

StopCall(k, q) == stop' = [stop EXCEPT ![<<k, q>>] = "update"]
StopReturned(k, q) == stop[<<k, q>>] \in StopResults
StopDone(k, q) == stop' = [stop EXCEPT ![<<k, q>>] = "idle"]

(* The cancellation goes to the agent of the active step, if it has one.     *)
ShouldCancel_Slip(new) == Active(new) /\ new.steps[ActiveStep(new)] = "running"
ShouldCancel(new) == Active(new) /\ new.agents[ActiveStep(new)]

ResultOf(r) == IF Terminal(r) THEN "terminal"
               ELSE IF r.status = "stop_failed" THEN "stop_failed" ELSE "open"

StopUpdate(k, q) ==
    /\ stop[<<k, q>>] = "update"
    /\ LET new == Stop(run[q], OrCancel(RequestedReason(q)))
       IN  /\ UpdateRun(q, new)
           /\ stop' = [stop EXCEPT ![<<k, q>>] =
                         IF ShouldCancel(new) THEN "cancel_agent" ELSE ResultOf(new)]
    /\ UNCHANGED <<archived, expired, agent, memory, exec,
                   startPc, cancelPc, archPc, dlPc, shutPc>>

(* The steps whose agent this cancellation addresses: the last one created.  *)
LastAgent(q) == {i \in Steps : run[q].agents[i] /\ \A j \in Steps : j > i => ~run[q].agents[j]}
TurnActive(q) == \E i \in Steps : agent[q][i] = "streaming"
AfterCancel(k, q) ==
    IF k \in {"exec", "cancel"} \/ run[q].term = "shutdown" THEN ResultOf(run[q]) ELSE "wait"

(* AgentManager.cancelAgentRun settles the turn, or finds none.              *)
StopCancelSettled(k, q) ==
    /\ stop[<<k, q>>] = "cancel_agent"
    /\ agent' = [agent EXCEPT ![q] = [i \in Steps |->
                    IF i \in LastAgent(q) /\ agent[q][i] = "streaming"
                    THEN "canceled" ELSE agent[q][i]]]
    /\ stop' = [stop EXCEPT ![<<k, q>>] = AfterCancel(k, q)]
    /\ UNCHANGED <<run, archived, expired, memory, exec,
                   startPc, cancelPc, archPc, dlPc, shutPc>>

(* The provider neither acknowledges the interrupt nor settles in time.      *)
StopCancelRefused(k, q) ==
    /\ stop[<<k, q>>] = "cancel_agent"
    /\ \E i \in LastAgent(q) : agent[q][i] = "streaming"
    /\ stop' = [stop EXCEPT ![<<k, q>>] = "refused"]
    /\ UNCHANGED <<world, memory, exec, startPc, cancelPc, archPc, dlPc, shutPc>>

StopRecordRefusal(k, q) ==
    /\ stop[<<k, q>>] = "refused"
    /\ UpdateRun(q, StopRefused(run[q]))
    /\ stop' = [stop EXCEPT ![<<k, q>>] = ResultOf(StopRefused(run[q]))]
    /\ UNCHANGED <<archived, expired, agent, memory, exec,
                   startPc, cancelPc, archPc, dlPc, shutPc>>

Executing(q) == execPc[q] \notin {"off", "clearing"}

(* waitForExecution: the callers that hold no workspace operation also wait  *)
(* for the execution to drain the canceled turn.                             *)
StopWait(k, q) ==
    /\ stop[<<k, q>>] = "wait"
    /\ ~Executing(q)
    /\ stop' = [stop EXCEPT ![<<k, q>>] = ResultOf(run[q])]
    /\ UNCHANGED <<world, memory, exec, startPc, cancelPc, archPc, dlPc, shutPc>>

-----------------------------------------------------------------------------
(* The execution of one run: executeRun, executeStep, executeTeamStep.       *)
(* The loop is at execPc[q]; a "want" location is a withWorkspaceOperation   *)
(* that has not queued yet, a "lock" location one that has.                  *)

Goto(q, pc) == execPc' = [execPc EXCEPT ![q] = pc]
GotoFinish_Slip(q, reason) ==
    /\ Goto(q, "done")
    /\ execReason' = [execReason EXCEPT ![q] = reason]
GotoFinish(q, reason) ==
    /\ Goto(q, "finish")
    /\ execReason' = [execReason EXCEPT ![q] = reason]
GotoStop(q, pc) ==
    /\ Goto(q, pc)
    /\ execReason' = [execReason EXCEPT ![q] = RequestedReason(q)]
ExecAdmitted(q) == Admitted(<<"exec", q>>, WorkspaceOf[q])

ExecEnqueue(q) ==
    /\ execPc[q] \in WantPcs
    /\ Enqueue(<<"exec", q>>, WorkspaceOf[q])
    /\ Goto(q, LockPc[execPc[q]])
    /\ UNCHANGED <<world, mode, restarts, accepting, termReq, fence, admQ,
                   execStep, execReason, perm, callers>>

ExecStandAside(q) ==
    /\ execPc[q] \in LockPcs
    /\ StandAside(<<"exec", q>>, WorkspaceOf[q])
    /\ Goto(q, WantPc(execPc[q]))
    /\ UNCHANGED <<world, mode, restarts, accepting, termReq, fence, admQ,
                   execStep, execReason, perm, callers>>

(* executeRun: a run stopped before it began never begins.                   *)
ExecBoot(q) ==
    /\ execPc[q] = "boot"
    /\ \/ ~Active(run[q]) /\ Goto(q, "done") /\ UNCHANGED execReason
       \/ Active(run[q]) /\ Asked(q) /\ GotoFinish(q, RequestedReason(q))
       \/ Active(run[q]) /\ ~Asked(q) /\ Goto(q, "begin") /\ UNCHANGED execReason
    /\ UNCHANGED <<world, memory, execStep, perm, callers>>

ExecBegin(q) ==
    /\ execPc[q] = "begin"
    /\ UpdateRun(q, BeginFirstStep(run[q]))
    /\ execStep' = [execStep EXCEPT ![q] = 1]
    /\ Goto(q, IF Rejected(q, BeginFirstStep(run[q])) THEN "want_fail"
               ELSE IF Active(run[q]) THEN "revalidate" ELSE "done")
    /\ UNCHANGED <<archived, expired, agent, memory, execReason, perm, callers>>

(* The loop re-reads the run after every completed step.                     *)
ExecLoop(q) ==
    /\ execPc[q] = "loop"
    /\ LET i == execStep[q]
           stopped == run[q].steps[i] = "stopping" /\ ~run[q].agents[i]
       IN  \/ ~Active(run[q]) /\ Goto(q, "done") /\ UNCHANGED execReason
           \/ Active(run[q]) /\ stopped /\ GotoFinish(q, OrCancel(termReq[q]))
           \/ Active(run[q]) /\ ~stopped /\ Goto(q, "revalidate") /\ UNCHANGED execReason
    /\ UNCHANGED <<world, memory, execStep, perm, callers>>

(* revalidateTeamRunStep: the workspace, then the frozen launch.             *)
ExecRevalidate(q) ==
    /\ execPc[q] = "revalidate"
    /\ perm' = [perm EXCEPT ![q] = FALSE]
    /\ IF archived[WorkspaceOf[q]]
       THEN Goto(q, "err_workspace")
       ELSE \E available \in BOOLEAN : Goto(q, IF available THEN "want_create" ELSE "err")
    /\ UNCHANGED <<world, memory, execStep, execReason, callers>>

(* createStepAgent, inside the workspace operation.                          *)
ExecCreateCheck(q) ==
    /\ execPc[q] = "lock_create"
    /\ ExecAdmitted(q)
    /\ \/ /\ ~Active(run[q])
          /\ Goto(q, "err") /\ Release(WorkspaceOf[q]) /\ UNCHANGED execReason
       \/ /\ Active(run[q]) /\ Asked(q)
          /\ GotoStop(q, "create_stop")
          /\ UNCHANGED wsQ
       \/ /\ Active(run[q]) /\ ~Asked(q)
          /\ Goto(q, "create_agent") /\ UNCHANGED <<wsQ, execReason>>
    /\ UNCHANGED <<world, mode, restarts, accepting, termReq, fence, admQ,
                   execStep, perm, callers>>

ExecCreateStop(q) ==
    /\ execPc[q] = "create_stop"
    /\ UpdateRun(q, FinishTermination(run[q], execReason[q]))
    /\ Goto(q, "err")
    /\ Release(WorkspaceOf[q])
    /\ UNCHANGED <<archived, expired, agent, mode, restarts, accepting, termReq,
                   fence, admQ, execStep, execReason, perm, callers>>

ExecCreateAgent(q) ==
    /\ execPc[q] = "create_agent"
    /\ agent' = [agent EXCEPT ![q][execStep[q]] = "idle"]
    /\ Goto(q, "persist_agent")
    /\ UNCHANGED <<run, archived, expired, memory, execStep, execReason, perm, callers>>

ExecCreateAgentFails(q) ==
    /\ execPc[q] = "create_agent"
    /\ Goto(q, "err")
    /\ Release(WorkspaceOf[q])
    /\ UNCHANGED <<world, mode, restarts, accepting, termReq, fence, admQ,
                   execStep, execReason, perm, callers>>

(* persistAgentCreated.  An agent the run no longer wants is then canceled   *)
(* by cancelUnadmittedAgent, which finds no turn on an idle agent.           *)
ExecPersistAgent(q) ==
    /\ execPc[q] = "persist_agent"
    /\ LET new == PersistAgentCreated(run[q], execStep[q])
       IN  /\ UpdateRun(q, new)
           /\ Goto(q, IF Rejected(q, new) THEN "err" ELSE "created")
    /\ Release(WorkspaceOf[q])
    /\ UNCHANGED <<archived, expired, agent, mode, restarts, accepting, termReq,
                   fence, admQ, execStep, execReason, perm, callers>>

(* handleStepEvent for agent_created.                                        *)
ExecCreated(q) ==
    /\ execPc[q] = "created"
    /\ Goto(q, IF Active(run[q]) THEN "want_admit" ELSE "done")
    /\ UNCHANGED <<world, memory, execStep, execReason, perm, callers>>

(* stopBeforeStreamAdmission.  When it finds no reason to stop, the service  *)
(* releases the operation and events.next() registers the foreground turn    *)
(* in AgentManager before any further I/O completes: one step.               *)
ExecAdmit(q) ==
    /\ execPc[q] = "lock_admit"
    /\ ExecAdmitted(q)
    /\ \/ /\ Active(run[q]) /\ ~Asked(q)
          /\ agent' = [agent EXCEPT ![q][execStep[q]] = "streaming"]
          /\ Goto(q, "stream")
          /\ Release(WorkspaceOf[q])
          /\ UNCHANGED execReason
       \/ /\ Active(run[q]) /\ Asked(q) /\ run[q].status # "stop_failed"
          /\ GotoStop(q, "admit_stop")
          /\ UNCHANGED <<agent, wsQ>>
       \/ /\ ~Active(run[q]) \/ (Asked(q) /\ run[q].status = "stop_failed")
          /\ Goto(q, "done")
          /\ Release(WorkspaceOf[q])
          /\ UNCHANGED <<agent, execReason>>
    /\ UNCHANGED <<run, archived, expired, mode, restarts, accepting, termReq,
                   fence, admQ, execStep, perm, callers>>

ExecAdmitStop(q) ==
    /\ execPc[q] = "admit_stop"
    /\ UpdateRun(q, FinishTermination(run[q], execReason[q]))
    /\ Goto(q, "done")
    /\ Release(WorkspaceOf[q])
    /\ UNCHANGED <<archived, expired, agent, mode, restarts, accepting, termReq,
                   fence, admQ, execStep, execReason, perm, callers>>

-----------------------------------------------------------------------------
(* The turn.  AgentSettle is the provider's; the execution takes the events  *)
(* of the stream in order, the terminal one last.                            *)

AgentSettle(q, i) ==
    /\ agent[q][i] = "streaming"
    /\ \E outcome \in SettledTurns : agent' = [agent EXCEPT ![q][i] = outcome]
    /\ UNCHANGED <<run, archived, expired, memory, exec, callers>>

(* A permission request or response while the turn is open.                  *)
ExecPermission(q) ==
    /\ execPc[q] = "stream"
    /\ agent[q][execStep[q]] = "streaming"
    /\ perm' = [perm EXCEPT ![q] = ~@]
    /\ Goto(q, "perm_check")
    /\ UNCHANGED <<world, memory, execStep, execReason, callers>>

(* persistPermissionState: the first read may turn the event into a stop.    *)
ExecPermCheck_Slip(q) ==
    /\ execPc[q] = "perm_check"
    /\ IF Asked(q)
       THEN GotoFinish(q, RequestedReason(q))
       ELSE Goto(q, "perm_write") /\ UNCHANGED execReason
    /\ UNCHANGED <<world, memory, execStep, perm, callers>>

ExecPermCheck(q) ==
    /\ execPc[q] = "perm_check"
    /\ IF Asked(q)
       THEN /\ termReq' = [termReq EXCEPT ![q] = RequestTermination(@, RequestedReason(q))]
            /\ StopCall("exec", q)
            /\ Goto(q, "perm_stop")
       ELSE Goto(q, "perm_write") /\ UNCHANGED <<termReq, stop>>
    /\ UNCHANGED <<world, mode, restarts, accepting, fence, wsQ, admQ,
                   execStep, execReason, perm, startPc, cancelPc, archPc, dlPc, shutPc>>

ExecPermStopped(q) ==
    /\ execPc[q] = "perm_stop"
    /\ StopReturned("exec", q)
    /\ StopDone("exec", q)
    /\ Goto(q, "stream")
    /\ UNCHANGED <<world, memory, execStep, execReason, perm,
                   startPc, cancelPc, archPc, dlPc, shutPc>>

(* A refused write leaves the event loop through its catch block, which      *)
(* detaches the stream: the provider's turn goes on without a consumer.      *)
ExecPermWrite(q) ==
    /\ execPc[q] = "perm_write"
    /\ LET new == PermissionState(run[q], execStep[q], perm[q])
       IN  /\ UpdateRun(q, new)
           /\ Goto(q, IF Rejected(q, new) THEN "err" ELSE "stream")
    /\ UNCHANGED <<archived, expired, agent, memory, execStep, execReason, perm, callers>>

(* handleStepEvent for the terminal events, and a stream without one.        *)
TurnSucceeded_Slip(turn) == turn \in {"completed", "ended"}
TurnSucceeded(turn) == turn = "completed"

ExecTurnEnded(q) ==
    /\ execPc[q] = "stream"
    /\ LET turn == agent[q][execStep[q]] IN
       \/ TurnSucceeded(turn) /\ Goto(q, "want_complete") /\ UNCHANGED execReason
       \/ turn = "failed"    /\ Goto(q, "want_fail")     /\ UNCHANGED execReason
       \/ turn = "canceled"  /\ GotoFinish(q, OrCancel(termReq[q]))
       \/ turn = "ended"     /\ Goto(q, "err")           /\ UNCHANGED execReason
    /\ UNCHANGED <<world, memory, execStep, perm, callers>>

(* completeStep, inside the workspace operation.                             *)
ExecCompleteCheck(q) ==
    /\ execPc[q] = "lock_complete"
    /\ ExecAdmitted(q)
    /\ LET owned == /\ Active(run[q])
                    /\ run[q].steps[execStep[q]] # "succeeded"
                    /\ run[q].agents[execStep[q]]
       IN  \/ /\ ~owned
              /\ Goto(q, "done") /\ Release(WorkspaceOf[q]) /\ UNCHANGED execReason
           \/ /\ owned /\ Asked(q)
              /\ GotoStop(q, "complete_stop")
              /\ UNCHANGED wsQ
           \/ /\ owned /\ ~Asked(q)
              /\ Goto(q, "complete_write") /\ UNCHANGED <<wsQ, execReason>>
    /\ UNCHANGED <<world, mode, restarts, accepting, termReq, fence, admQ,
                   execStep, perm, callers>>

(* This updater is the one that does not look whether the run is terminal.   *)
ExecCompleteStop(q) ==
    /\ execPc[q] = "complete_stop"
    /\ UpdateRun(q, TerminationRunUpdate(run[q], execReason[q], "complete"))
    /\ Goto(q, "done")
    /\ Release(WorkspaceOf[q])
    /\ UNCHANGED <<archived, expired, agent, mode, restarts, accepting, termReq,
                   fence, admQ, execStep, execReason, perm, callers>>

ExecCompleteWrite(q) ==
    /\ execPc[q] = "complete_write"
    /\ LET i == execStep[q]
           advances == Active(run[q]) /\ ~Asked(q) /\ ~LastStep(i)
       IN  /\ \/ ~Active(run[q]) /\ UNCHANGED run
              \/ /\ Active(run[q]) /\ Asked(q)
                 /\ UpdateRun(q, TerminationRunUpdate(run[q], RequestedReason(q), "complete"))
              \/ /\ Active(run[q]) /\ ~Asked(q)
                 /\ UpdateRun(q, StepSucceeded(run[q], i))
           /\ Goto(q, IF advances THEN "loop" ELSE "done")
           /\ execStep' = [execStep EXCEPT ![q] = IF advances THEN i + 1 ELSE i]
    /\ Release(WorkspaceOf[q])
    /\ UNCHANGED <<archived, expired, agent, mode, restarts, accepting, termReq,
                   fence, admQ, execReason, perm, callers>>

(* handleStepExecutionError.                                                 *)
ExecError(q) ==
    /\ execPc[q] \in {"err", "err_workspace"}
    /\ \/ ~Active(run[q]) /\ Goto(q, "done") /\ UNCHANGED <<termReq, execReason>>
       \/ /\ Active(run[q]) /\ Asked(q)
          /\ GotoFinish(q, RequestedReason(q)) /\ UNCHANGED termReq
       \/ /\ Active(run[q]) /\ ~Asked(q) /\ execPc[q] = "err_workspace"
          /\ termReq' = [termReq EXCEPT ![q] = RequestTermination(@, "workspace")]
          /\ GotoFinish(q, "workspace")
       \/ /\ Active(run[q]) /\ ~Asked(q) /\ execPc[q] = "err"
          /\ Goto(q, "want_fail") /\ UNCHANGED <<termReq, execReason>>
    /\ UNCHANGED <<world, mode, restarts, accepting, fence, wsQ, admQ,
                   execStep, perm, callers>>

(* failRun, inside the workspace operation.                                  *)
ExecFail(q) ==
    /\ execPc[q] = "lock_fail"
    /\ ExecAdmitted(q)
    /\ \/ ~Active(run[q]) /\ UNCHANGED run
       \/ /\ Active(run[q]) /\ Asked(q)
          /\ UpdateRun(q, TerminationRunUpdate(run[q], RequestedReason(q), "fail"))
       \/ Active(run[q]) /\ ~Asked(q) /\ UpdateRun(q, Failed(run[q]))
    /\ Goto(q, "done")
    /\ Release(WorkspaceOf[q])
    /\ UNCHANGED <<archived, expired, agent, mode, restarts, accepting, termReq,
                   fence, admQ, execStep, execReason, perm, callers>>

ExecFinish(q) ==
    /\ execPc[q] = "finish"
    /\ UpdateRun(q, FinishTermination(run[q], execReason[q]))
    /\ Goto(q, "done")
    /\ UNCHANGED <<archived, expired, agent, memory, execStep, execReason, perm, callers>>

(* launchExecution's finally block: the execution is forgotten at once, the  *)
(* termination request and the timer after one more read.                    *)
ExecDone(q) ==
    /\ execPc[q] = "done"
    /\ Goto(q, "clearing")
    /\ UNCHANGED <<world, memory, execStep, execReason, perm, callers>>

ExecClear(q) ==
    /\ execPc[q] = "clearing"
    /\ Goto(q, "off")
    /\ IF Terminal(run[q])
       THEN /\ termReq' = [termReq EXCEPT ![q] = "none"]
            /\ dlPc' = [dlPc EXCEPT ![q] = IF @ = "armed" THEN "off" ELSE @]
       ELSE UNCHANGED <<termReq, dlPc>>
    /\ UNCHANGED <<world, mode, restarts, accepting, fence, wsQ, admQ, execStep,
                   execReason, perm, startPc, stop, cancelPc, archPc, shutPc>>

-----------------------------------------------------------------------------
(* cancelRun *)

CancelCall(q) ==
    /\ mode = "up"
    /\ cancelPc[q] = "idle"
    /\ q \in Cancelable
    /\ Active(run[q])
    /\ cancelPc' = [cancelPc EXCEPT ![q] = "want"]
    /\ UNCHANGED <<world, memory, exec, startPc, stop, archPc, dlPc, shutPc>>

CancelEnqueue(q) ==
    /\ cancelPc[q] = "want"
    /\ Enqueue(<<"cancel", q>>, WorkspaceOf[q])
    /\ cancelPc' = [cancelPc EXCEPT ![q] = "lock"]
    /\ UNCHANGED <<world, mode, restarts, accepting, termReq, fence, admQ, exec,
                   startPc, stop, archPc, dlPc, shutPc>>

CancelStandAside(q) ==
    /\ cancelPc[q] = "lock"
    /\ StandAside(<<"cancel", q>>, WorkspaceOf[q])
    /\ cancelPc' = [cancelPc EXCEPT ![q] = "want"]
    /\ UNCHANGED <<world, mode, restarts, accepting, termReq, fence, admQ, exec,
                   startPc, stop, archPc, dlPc, shutPc>>

CancelRequest(q) ==
    /\ cancelPc[q] = "lock"
    /\ Admitted(<<"cancel", q>>, WorkspaceOf[q])
    /\ IF Active(run[q])
       THEN /\ termReq' = [termReq EXCEPT ![q] = RequestTermination(@, "cancel")]
            /\ StopCall("cancel", q)
            /\ cancelPc' = [cancelPc EXCEPT ![q] = "stopping"]
            /\ UNCHANGED wsQ
       ELSE /\ cancelPc' = [cancelPc EXCEPT ![q] = "idle"]
            /\ Release(WorkspaceOf[q])
            /\ UNCHANGED <<termReq, stop>>
    /\ UNCHANGED <<world, mode, restarts, accepting, fence, admQ, exec,
                   startPc, archPc, dlPc, shutPc>>

CancelStopped(q) ==
    /\ cancelPc[q] = "stopping"
    /\ StopReturned("cancel", q)
    /\ StopDone("cancel", q)
    /\ Release(WorkspaceOf[q])
    /\ cancelPc' = [cancelPc EXCEPT ![q] =
                      IF stop[<<"cancel", q>>] = "open" THEN "await" ELSE "idle"]
    /\ UNCHANGED <<world, mode, restarts, accepting, termReq, fence, admQ, exec,
                   startPc, archPc, dlPc, shutPc>>

CancelSettled(q) ==
    /\ cancelPc[q] = "await"
    /\ ~Executing(q)
    /\ IF Active(run[q]) /\ run[q].status # "stop_failed"
       THEN UpdateRun(q, FinishTermination(run[q], OrCancel(termReq[q])))
       ELSE UNCHANGED run
    /\ cancelPc' = [cancelPc EXCEPT ![q] = "idle"]
    /\ UNCHANGED <<archived, expired, agent, memory, exec,
                   startPc, stop, archPc, dlPc, shutPc>>

-----------------------------------------------------------------------------
(* WorkspaceRegistry.archive, with the service as its boundary and mutation  *)
(* listener.  The start boundary fences the workspace, then waits for the    *)
(* workspace operation; the registry writes while the service holds it.      *)

ArchiveStart(w) ==
    /\ mode = "up"
    /\ archPc[w] = "idle"
    /\ w \in Archivable
    /\ ~archived[w]
    /\ IF shutPc = "down"
       THEN archPc' = [archPc EXCEPT ![w] = "unfenced"] /\ UNCHANGED <<fence, wsQ>>
       ELSE /\ fence' = [fence EXCEPT ![w] = "pending"]
            /\ wsQ' = [wsQ EXCEPT ![w] = Append(@, <<"archive", w>>)]
            /\ archPc' = [archPc EXCEPT ![w] = "lock"]
    /\ UNCHANGED <<world, mode, restarts, accepting, termReq, admQ, exec,
                   startPc, stop, cancelPc, dlPc, shutPc>>

ArchiveCommit(w) ==
    /\ archPc[w] = "lock"
    /\ Holds(<<"archive", w>>, w)
    /\ archived' = [archived EXCEPT ![w] = TRUE]
    /\ fence' = [fence EXCEPT ![w] = "committed"]
    /\ Release(w)
    /\ archPc' = [archPc EXCEPT ![w] = "notify"]
    /\ UNCHANGED <<run, expired, agent, mode, restarts, accepting, termReq, admQ,
                   exec, startPc, stop, cancelPc, dlPc, shutPc>>

(* The registry write fails: the boundary finishes without a commit.         *)
ArchiveFail(w) ==
    /\ archPc[w] = "lock"
    /\ Holds(<<"archive", w>>, w)
    /\ fence' = [fence EXCEPT ![w] = "none"]
    /\ Release(w)
    /\ archPc' = [archPc EXCEPT ![w] = "idle"]
    /\ UNCHANGED <<world, mode, restarts, accepting, termReq, admQ,
                   exec, startPc, stop, cancelPc, dlPc, shutPc>>

(* handleWorkspaceMutation, unless shutdown unsubscribed it already.         *)
ArchiveNotify(w) ==
    /\ archPc[w] = "notify"
    /\ IF shutPc \in {"up", "admission"} /\ ActiveRunIn(w) # {}
       THEN \E q \in ActiveRunIn(w) :
              /\ termReq' = [termReq EXCEPT ![q] = RequestTermination(@, "workspace")]
              /\ StopCall("archive", q)
              /\ archPc' = [archPc EXCEPT ![w] = "stopping"]
       ELSE /\ archPc' = [archPc EXCEPT ![w] = "finish"]
            /\ UNCHANGED <<termReq, stop>>
    /\ UNCHANGED <<world, mode, restarts, accepting, fence, wsQ, admQ, exec,
                   startPc, cancelPc, dlPc, shutPc>>

ArchiveStopped(w) ==
    /\ archPc[w] = "stopping"
    /\ \E q \in Requests :
         WorkspaceOf[q] = w /\ StopReturned("archive", q) /\ StopDone("archive", q)
    /\ archPc' = [archPc EXCEPT ![w] = "finish"]
    /\ UNCHANGED <<world, memory, exec, startPc, cancelPc, dlPc, shutPc>>

ArchiveFinish(w) ==
    /\ archPc[w] = "finish"
    /\ fence' = [fence EXCEPT ![w] = "none"]
    /\ archPc' = [archPc EXCEPT ![w] = "idle"]
    /\ UNCHANGED <<world, mode, restarts, accepting, termReq, wsQ, admQ, exec,
                   startPc, stop, cancelPc, dlPc, shutPc>>

(* An archive whose boundary shutdown detached writes the registry unfenced, *)
(* as does one that starts after shutdown; nobody listens any more.          *)
ArchiveUnfenced(w) ==
    /\ archPc[w] = "unfenced"
    /\ \E written \in BOOLEAN : archived' = [archived EXCEPT ![w] = written \/ @]
    /\ archPc' = [archPc EXCEPT ![w] = "idle"]
    /\ UNCHANGED <<run, expired, agent, memory, exec, startPc, stop, cancelPc, dlPc, shutPc>>

(* The workspace operation a detached boundary was queued for passes on.     *)
ArchiveDetached(w) ==
    /\ Holds(<<"archive", w>>, w)
    /\ archPc[w] # "lock"
    /\ Release(w)
    /\ UNCHANGED <<world, mode, restarts, accepting, termReq, fence, admQ, exec, callers>>

-----------------------------------------------------------------------------
(* The unattended deadline: armUnattendedDeadline and expireUnattendedRun.   *)

ClockReachesDeadline(q) ==
    /\ q \in Unattended
    /\ run[q].status # "absent"
    /\ ~expired[q]
    /\ expired' = [expired EXCEPT ![q] = TRUE]
    /\ UNCHANGED <<run, archived, agent, memory, exec, callers>>

DeadlineCall_Slip(q) ==
    /\ termReq' = [termReq EXCEPT ![q] = RequestTermination(@, "deadline")]
    /\ dlPc' = [dlPc EXCEPT ![q] = "off"]
    /\ UNCHANGED stop

DeadlineCall(q) ==
    /\ termReq' = [termReq EXCEPT ![q] = RequestTermination(@, "deadline")]
    /\ StopCall("deadline", q)
    /\ dlPc' = [dlPc EXCEPT ![q] = "stopping"]

DeadlineFire(q) ==
    /\ dlPc[q] = "armed"
    /\ expired[q]
    /\ IF Active(run[q])
       THEN DeadlineCall(q)
       ELSE dlPc' = [dlPc EXCEPT ![q] = "off"] /\ UNCHANGED <<termReq, stop>>
    /\ UNCHANGED <<world, mode, restarts, accepting, fence, wsQ, admQ, exec,
                   startPc, cancelPc, archPc, shutPc>>

(* A refused cancellation is retried, unless the daemon is shutting down.    *)
DeadlineStopped(q) ==
    /\ dlPc[q] = "stopping"
    /\ StopReturned("deadline", q)
    /\ StopDone("deadline", q)
    /\ dlPc' = [dlPc EXCEPT ![q] =
                  CASE stop[<<"deadline", q>>] = "open" -> "finish"
                    [] stop[<<"deadline", q>>] = "stop_failed" /\ shutPc = "up" -> "armed"
                    [] OTHER -> "off"]
    /\ UNCHANGED <<world, memory, exec, startPc, cancelPc, archPc, shutPc>>

DeadlineFinish(q) ==
    /\ dlPc[q] = "finish"
    /\ UpdateRun(q, FinishTermination(run[q], "deadline"))
    /\ dlPc' = [dlPc EXCEPT ![q] = "off"]
    /\ UNCHANGED <<archived, expired, agent, memory, exec,
                   startPc, stop, cancelPc, archPc, shutPc>>

-----------------------------------------------------------------------------
(* shutdown: it takes no workspace operation.                                *)

ShutdownCall ==
    /\ mode = "up" /\ WithShutdown
    /\ shutPc = "up"
    /\ shutPc' = "admission"
    /\ admQ' = Append(admQ, <<"shutdown">>)
    /\ UNCHANGED <<world, mode, restarts, accepting, termReq, fence, wsQ, exec,
                   startPc, stop, cancelPc, archPc, dlPc>>

(* Close admission, clear the timers, unsubscribe from workspace mutations.  *)
ShutdownFence ==
    /\ shutPc = "admission"
    /\ HoldsAdmission(<<"shutdown">>)
    /\ admQ' = Tail(admQ)
    /\ accepting' = FALSE
    /\ dlPc' = [q \in Requests |-> IF dlPc[q] = "armed" THEN "off" ELSE dlPc[q]]
    /\ shutPc' = "list"
    /\ UNCHANGED <<world, mode, restarts, termReq, fence, wsQ, exec,
                   startPc, stop, cancelPc, archPc>>

ShutdownStop ==
    /\ shutPc = "list"
    /\ termReq' = [q \in Requests |->
                     IF Active(run[q]) THEN RequestTermination(termReq[q], "shutdown")
                     ELSE termReq[q]]
    /\ stop' = [s \in StopKinds \X Requests |->
                  IF s[1] = "shutdown" /\ Active(run[s[2]]) THEN "update" ELSE stop[s]]
    /\ shutPc' = "stopping"
    /\ UNCHANGED <<world, mode, restarts, accepting, fence, wsQ, admQ, exec,
                   startPc, cancelPc, archPc, dlPc>>

ShutdownSettled ==
    /\ shutPc = "stopping"
    /\ \A q \in Requests : stop[<<"shutdown", q>>] \in StopResults \union {"idle"}
    /\ stop' = [s \in StopKinds \X Requests |-> IF s[1] = "shutdown" THEN "idle" ELSE stop[s]]
    /\ shutPc' = "sweep"
    /\ UNCHANGED <<world, memory, exec, startPc, cancelPc, archPc, dlPc>>

ShutdownFinish(q) ==
    /\ shutPc = "sweep"
    /\ Active(run[q])
    /\ UpdateRun(q, FinishTermination(run[q], "shutdown"))
    /\ UNCHANGED <<archived, expired, agent, memory, exec, callers>>

(* releaseWorkspaceTerminationFences detaches the boundaries still open.     *)
ShutdownRelease ==
    /\ shutPc = "sweep"
    /\ \A q \in Requests : ~Active(run[q])
    /\ shutPc' = "down"
    /\ fence' = [w \in Workspaces |-> "none"]
    /\ archPc' = [w \in Workspaces |-> IF archPc[w] = "lock" THEN "unfenced" ELSE archPc[w]]
    /\ UNCHANGED <<world, mode, restarts, accepting, termReq, wsQ, admQ, exec,
                   startPc, stop, cancelPc, dlPc>>

-----------------------------------------------------------------------------
(* The process ends, by a crash or after shutdown, and a new one starts.     *)
(* Only the files survive; every provider turn of the old process is gone.   *)

Restart ==
    /\ restarts < MaxRestarts
    /\ restarts' = restarts + 1
    /\ mode' = "recovering"
    /\ accepting' = FALSE
    /\ agent' = [q \in Requests |-> [i \in Steps |->
                   IF agent[q][i] = "streaming" THEN "ended" ELSE agent[q][i]]]
    /\ termReq' = [q \in Requests |-> "none"]
    /\ fence' = [w \in Workspaces |-> "none"]
    /\ wsQ' = [w \in Workspaces |-> << >>]
    /\ admQ' = << >>
    /\ startPc' = [q \in Requests |-> "idle"]
    /\ execPc' = [q \in Requests |-> "off"]
    /\ execReason' = [q \in Requests |-> "none"]
    /\ perm' = [q \in Requests |-> FALSE]
    /\ stop' = [s \in StopKinds \X Requests |-> "idle"]
    /\ cancelPc' = [q \in Requests |-> "idle"]
    /\ archPc' = [w \in Workspaces |-> "idle"]
    /\ dlPc' = [q \in Requests |-> "off"]
    /\ shutPc' = "up"
    /\ UNCHANGED <<run, archived, expired, execStep>>

(* initialize: an expired run ends as one, any other leftover is interrupted.*)
RecoverExpired(q) ==
    /\ mode = "recovering"
    /\ Active(run[q]) /\ expired[q]
    /\ dlPc[q] = "off"
    /\ DeadlineCall(q)
    /\ UNCHANGED <<world, mode, restarts, accepting, fence, wsQ, admQ, exec,
                   startPc, cancelPc, archPc, shutPc>>

RecoverInterrupted(q) ==
    /\ mode = "recovering"
    /\ Active(run[q]) /\ ~expired[q]
    /\ UpdateRun(q, FinishTermination(run[q], "shutdown"))
    /\ UNCHANGED <<archived, expired, agent, memory, exec, callers>>

RecoverDone ==
    /\ mode = "recovering"
    /\ \A q \in Requests : ~Active(run[q])
    /\ mode' = "up"
    /\ accepting' = TRUE
    /\ UNCHANGED <<world, restarts, termReq, fence, wsQ, admQ, exec, callers>>

-----------------------------------------------------------------------------
(* The specification *)

StartSteps(q) == StartEnqueue(q) \/ StartStandAside(q) \/ StartAdmission(q)
                 \/ StartCheck(q) \/ StartCreate(q)
StopSteps(k, q) == StopUpdate(k, q) \/ StopCancelSettled(k, q) \/ StopCancelRefused(k, q)
                   \/ StopRecordRefusal(k, q) \/ StopWait(k, q)
ExecSteps(q) ==
    \/ ExecEnqueue(q) \/ ExecStandAside(q)
    \/ ExecBoot(q) \/ ExecBegin(q) \/ ExecLoop(q) \/ ExecRevalidate(q)
    \/ ExecCreateCheck(q) \/ ExecCreateStop(q) \/ ExecCreateAgent(q)
    \/ ExecCreateAgentFails(q) \/ ExecPersistAgent(q) \/ ExecCreated(q)
    \/ ExecAdmit(q) \/ ExecAdmitStop(q)
    \/ ExecPermCheck(q) \/ ExecPermStopped(q) \/ ExecPermWrite(q) \/ ExecTurnEnded(q)
    \/ ExecCompleteCheck(q) \/ ExecCompleteStop(q) \/ ExecCompleteWrite(q)
    \/ ExecError(q) \/ ExecFail(q) \/ ExecFinish(q) \/ ExecDone(q) \/ ExecClear(q)
CancelSteps(q) == CancelEnqueue(q) \/ CancelStandAside(q) \/ CancelRequest(q)
                  \/ CancelStopped(q) \/ CancelSettled(q)
ArchiveSteps(w) == ArchiveCommit(w) \/ ArchiveFail(w) \/ ArchiveNotify(w)
                   \/ ArchiveStopped(w) \/ ArchiveFinish(w) \/ ArchiveUnfenced(w)
                   \/ ArchiveDetached(w)
DeadlineSteps(q) == DeadlineFire(q) \/ DeadlineStopped(q) \/ DeadlineFinish(q)
ShutdownSteps == ShutdownFence \/ ShutdownStop \/ ShutdownSettled
                 \/ (\E q \in Requests : ShutdownFinish(q)) \/ ShutdownRelease
RecoverSteps == (\E q \in Requests : RecoverExpired(q) \/ RecoverInterrupted(q))
                \/ RecoverDone

(* What clients, providers and the clock do; none of it has to happen.       *)
Environment ==
    \/ \E q \in Requests : \/ StartCall(q) \/ CancelCall(q)
                           \/ ClockReachesDeadline(q) \/ ExecPermission(q)
                           \/ \E i \in Steps : AgentSettle(q, i)
    \/ \E w \in Workspaces : ArchiveStart(w)
    \/ ShutdownCall
    \/ Restart

Next ==
    \/ Environment
    \/ \E q \in Requests : \/ StartSteps(q) \/ ExecSteps(q) \/ CancelSteps(q)
                           \/ DeadlineSteps(q)
                           \/ \E k \in StopKinds : StopSteps(k, q)
    \/ \E w \in Workspaces : ArchiveSteps(w)
    \/ ShutdownSteps
    \/ RecoverSteps

Spec == Init /\ [][Next]_vars

(* A resolved promise continues: every handler that has started takes its    *)
(* next step.  A registry write may fail, but not every time it is retried.  *)
Fairness ==
    /\ \A q \in Requests :
         /\ WF_vars(StartSteps(q)) /\ WF_vars(ExecSteps(q)) /\ WF_vars(CancelSteps(q))
         /\ WF_vars(DeadlineSteps(q))
         /\ \A k \in StopKinds : WF_vars(StopSteps(k, q))
    /\ \A w \in Workspaces : WF_vars(ArchiveSteps(w)) /\ SF_vars(ArchiveCommit(w))
    /\ WF_vars(ShutdownSteps)
    /\ WF_vars(RecoverSteps)

FairSpec == Spec /\ Fairness

-----------------------------------------------------------------------------
(* Safety *)

(* docs/teams.md: the active step and the run "use the same" waiting,        *)
(* stopping or stop_failed checkpoint, neither side persisted without the    *)
(* other.  The schema requires it of the step only.                          *)
Paused == {"waiting_for_permission", "stopping", "stop_failed"}
CheckpointsAgree(r) ==
    \A i \in Steps :
        IsActiveStep(r, i) =>
            /\ Active(r) /\ ActiveStep(r) = i
            /\ (r.status \in Paused \/ r.steps[i] \in Paused) => r.status = r.steps[i]

(* Every record a service operation writes is one the schema accepts, so no  *)
(* interleaving of handlers makes updateRun throw on its own update: one     *)
(* active step at most, in workflow order, and the run and that step share   *)
(* the same checkpoint.                                                      *)
RecordsValid == \A q \in Requests : ValidRun(run[q]) /\ CheckpointsAgree(run[q])

(* The workspace lock of a run: two admissions, two clients or a retry never *)
(* leave two active runs in one workspace.                                   *)
OneActiveRunPerWorkspace ==
    \A p, q \in Requests :
        Active(run[p]) /\ Active(run[q]) /\ WorkspaceOf[p] = WorkspaceOf[q] => p = q

(* Concurrent admissions with one idempotency key create one run.            *)
IdempotentAdmission ==
    \A p, q \in Requests :
        run[p].status # "absent" /\ run[q].status # "absent" /\ KeyOf[p] = KeyOf[q] => p = q

(* The recorded termination reason and the outcome agree: a canceled or      *)
(* interrupted run has the reason that produced it, and a run that succeeded *)
(* was never asked to stop.                                                  *)
OutcomeMatchesTermination ==
    \A q \in Requests : Terminal(run[q]) =>
        IF run[q].term = "none" THEN run[q].status \in {"succeeded", "failed"}
        ELSE run[q].status = TerminalStatusByReason[run[q].term]

(* A run that ended leaves no agent working: while the daemon is not         *)
(* shutting down, an open turn belongs to an active run whose execution is   *)
(* still reading that turn.  docs/teams.md: cancellation "drains the stream  *)
(* to a terminal event", and a deadline "uses the same cancellation path".   *)
NoOrphanTurn ==
    \A q \in Requests, i \in Steps :
        agent[q][i] = "streaming" /\ shutPc = "up" =>
            /\ Active(run[q])
            /\ execStep[q] = i
            /\ execPc[q] \in {"stream", "perm_check", "perm_write", "perm_stop"}

(* No active run is left without an execution, where it would keep the       *)
(* workspace locked until the next restart.                                  *)
NoAbandonedRun ==
    \A q \in Requests : mode = "up" /\ Active(run[q]) => Executing(q)

(* Whoever is inside a workspace operation, or inside admission, is at the   *)
(* head of its queue: two handlers never act under one at once.              *)
InStart(q) == startPc[q] \in {"admission", "create"}
InExec(q) ==
    execPc[q] \in {"create_stop", "create_agent", "persist_agent", "admit_stop",
                   "complete_stop", "complete_write"}
InCancel(q) == cancelPc[q] = "stopping"
OperationsExclusive ==
    \A q \in Requests :
        /\ InStart(q)  => Holds(<<"start", q>>, WorkspaceOf[q])
        /\ InExec(q)   => Holds(<<"exec", q>>, WorkspaceOf[q])
        /\ InCancel(q) => Holds(<<"cancel", q>>, WorkspaceOf[q])
        /\ startPc[q] = "create" => HoldsAdmission(<<"start", q>>)

(* No handler works on a run that admission has not written.                 *)
Untouched(q) ==
    /\ run[q] = Absent
    /\ execPc[q] = "off" /\ cancelPc[q] = "idle" /\ dlPc[q] = "off"
    /\ \A k \in StopKinds : stop[<<k, q>>] = "idle"
AbsentRunsUntouched == \A q \in Requests : run[q].status = "absent" => Untouched(q)

(* The inductive invariant of TeamRunsProofs.                                *)
IndInv == TypeOK /\ OperationsExclusive /\ AbsentRunsUntouched

-----------------------------------------------------------------------------
(* Action properties *)

(* The outcome of an ended run is final: no late event, cancellation, timer, *)
(* archive, shutdown or recovery changes its status, steps or reason.        *)
Outcome(r) == <<r.status, r.started, r.steps, r.agents, r.term>>
OutcomeFinal ==
    [][\A q \in Requests : Terminal(run[q]) => Outcome(run'[q]) = Outcome(run[q])]_vars

(* docs/teams.md: "late callbacks cannot rewrite a terminal record".         *)
TerminalRecordFrozen == [][\A q \in Requests : Terminal(run[q]) => run'[q] = run[q]]_vars

(* The termination record is written once and never replaced or dropped.     *)
TerminationImmutable ==
    [][\A q \in Requests : run[q].term # "none" => run'[q].term = run[q].term]_vars

(* A prompt is sent only for a run nobody asked to stop: no termination on   *)
(* record or requested, the deadline ahead, and only to the idle agent of    *)
(* the step the record shows running.                                        *)
PromptAdmittedSafely ==
    [][\A q \in Requests, i \in Steps :
         agent'[q][i] = "streaming" /\ agent[q][i] # "streaming" =>
            /\ agent[q][i] = "idle"
            /\ run[q].status = "running" /\ run[q].steps[i] = "running"
            /\ run[q].term = "none" /\ termReq[q] = "none"
            /\ ~expired[q]]_vars

(* docs/teams.md: a workspace archive "wins over the Team Run", which then   *)
(* creates "no later agents"; nor does it prompt the one it has.             *)
NoAgentWorkAfterArchive ==
    [][\A q \in Requests, i \in Steps :
         agent'[q][i] # agent[q][i] /\ agent'[q][i] \in {"idle", "streaming"}
            => ~archived[WorkspaceOf[q]]]_vars

(* A step's agent is created only after every earlier step succeeded, and at *)
(* most once: no restart and no retry replays a prompt.                      *)
AgentsInOrder ==
    [][\A q \in Requests, i \in Steps :
         agent[q][i] = "none" /\ agent'[q][i] # "none" =>
            \A j \in 1..(i - 1) : agent[q][j] = "completed" /\ run[q].steps[j] = "succeeded"]_vars

-----------------------------------------------------------------------------
(* Liveness, under FairSpec.  A provider may refuse a cancellation, and a    *)
(* turn may last forever; stop_failed is how a run waits for such a turn.    *)

Stopped(q) == Terminal(run[q]) \/ run[q].status = "stop_failed"

(* A run whose stop is on record, or whose workspace is archived, ends or    *)
(* reports that its agent refused, whatever it is in the middle of when the  *)
(* stop is requested or the registry commits.                                *)
StopTakesEffect ==
    \A q \in Requests :
        Active(run[q]) /\ (run[q].term # "none" \/ archived[WorkspaceOf[q]]) ~> Stopped(q)

(* An unattended run ends once its deadline has passed.                      *)
DeadlineEndsRun == \A q \in Requests : (Active(run[q]) /\ expired[q]) ~> Stopped(q)

(* Workspace operations and admission do not deadlock: every admission,      *)
(* cancellation and archive call that waits for them returns.                *)
CallsReturn ==
    /\ \A q \in Requests : /\ startPc[q] # "idle" ~> startPc[q] = "idle"
                           /\ cancelPc[q] # "idle" ~> cancelPc[q] = "idle"
    /\ \A w \in Workspaces : archPc[w] # "idle" ~> archPc[w] = "idle"

(* shutdown() returns, with every run ended, unless the daemon dies first.   *)
ShutdownCompletes ==
    (shutPc = "admission") ~>
        \/ shutPc = "down" /\ \A q \in Requests : ~Active(run[q])
        \/ mode = "recovering"

-----------------------------------------------------------------------------
(* Refinement: the service implements the lock and the transition tables.    *)

LC == INSTANCE TeamRunLifecycle WITH
        status <- [q \in Requests |-> run[q].status],
        steps  <- [q \in Requests |-> run[q].steps],
        owner  <- [w \in Workspaces |-> ActiveRunIn(w)]
Lifecycle == LC!LSpec
=============================================================================
