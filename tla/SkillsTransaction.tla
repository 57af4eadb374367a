-------------------------- MODULE SkillsTransaction --------------------------
(***************************************************************************)
(* Saving which orchestration skills are installed: a transaction of       *)
(* directories in the user's agent homes, with backups, rollback, and      *)
(* recovery by whichever operation comes next, while the user and their    *)
(* agents go on writing in the same directories.                           *)
(*                                                                         *)
(*   orchestration-skills/internal/transaction.ts   begin, restore, recover*)
(*   orchestration-skills/internal/controller.ts    save, converge         *)
(*   orchestration-skills/internal/operations.ts, sync.ts    plan, copy    *)
(*   (under packages/server/src/server/)                                   *)
(*                                                                         *)
(* A skill directory has the Managed files that Paseo ships, each absent,  *)
(* as shipped now ("bundled") or anything else ("old"), and one file of    *)
(* the user, known by its version.  An empty directory counts as missing;  *)
(* symbolic links and files in a directory's place are left out.  A file   *)
(* write and a rename are one step, a recursive removal is not.            *)
(***************************************************************************)
EXTENDS Integers

CONSTANTS
    Names,          \* the bundled skills
    Roots,          \* the agent homes they are installed into
    Managed,        \* the files of a bundled skill
    MaxSaveAttempts, \* how often a save is planned; 3 in the code
    PartialCleanup, \* whether a rollback's cleanup may be cut off half-way
    MaxCalls,       \* bound on operations
    MaxEdits,       \* bound on what the user does to the directories
    MaxFaults,      \* bound on failed file operations
    MaxCrashes      \* bound on crashes

ASSUME SkillsAssumption ==
    /\ PartialCleanup \in BOOLEAN
    /\ MaxSaveAttempts \in Nat \ {0}
    /\ {MaxCalls, MaxEdits, MaxFaults, MaxCrashes} \subseteq Nat

VARIABLES
    live,       \* the installed directories
    tx,         \* the transaction directory and the stages beside the homes
    rescued,    \* user files set aside in a quarantine
    selection,  \* the saved selection
    up,
    pc, op,     \* the operation the controller's queue is running
    plan,       \* what it does to each skill
    todo,       \* the directories or files left in the current phase
    after,      \* what follows the cleanup of the transaction
    attempt,    \* how often this save has been planned
    outcome,    \* how the latest operation ended
    owed,       \* history: versions of user files nobody asked to remove
    before,     \* history: the directories as the transaction captured them
    edited,     \* history: directories the user touched since
    calls, edits, faults, crashes

disk == <<live, tx, rescued, selection>>
task == <<pc, op, plan, todo, after, attempt, outcome>>
history == <<owed, before, edited>>
budgets == <<calls, edits, faults, crashes>>
vars == <<disk, up, task, history, budgets>>

Paths == Names \X Roots
Contents == {"none", "old", "bundled"}
Missing == [managed |-> [m \in Managed |-> "none"], user |-> 0]
Exists(d) == d # Missing

NoPlan == [n \in Names |-> "none"]
NoTx == [phase |-> "none", prev |-> {}, next |-> {}, kind |-> NoPlan, confirmed |-> {},
         has |-> {}, kept |-> {}, aside |-> {}, backup |-> [p \in Paths |-> Missing]]

Saves == [kind : {"save"}, next : SUBSET Names, confirmed : SUBSET Names]
Others == [kind : {"status", "update", "autoUpdate", "uninstall"},
           next : {{}}, confirmed : {{}}]
Idle == [kind |-> "status", next |-> {}, confirmed |-> {}]

-----------------------------------------------------------------------------
(* Planning: getSkillsStatus and diff.                                       *)

Kind(sel, n) ==
    LET dirs == {live[<<n, r>>] : r \in Roots} IN
    CASE n \in sel /\ Missing \in dirs -> "add"
      [] n \in sel /\ \E d \in dirs, m \in Managed : d.managed[m] # "bundled" -> "update"
      [] n \notin sel /\ dirs # {Missing} -> "delete"
      [] OTHER -> "none"

Plan(sel) == [n \in Names |-> Kind(sel, n)]
Planned(kinds) == {p \in Paths : plan[p[1]] \in kinds}
Removals(pl) == {n \in Names : pl[n] = "delete"}
NonDestructive(pl) == [n \in Names |-> IF pl[n] = "delete" THEN "none" ELSE pl[n]]

(* Putting directories back.                                                 *)

\* mergeBackupDirectory: what is missing comes back, nothing is overwritten.
Merge(d, bk) ==
    [managed |-> [m \in Managed |-> IF d.managed[m] = "none" THEN bk.managed[m]
                                                             ELSE d.managed[m]],
     user |-> IF d.user = 0 THEN bk.user ELSE d.user]

Conflict(d, bk) ==
    \/ \E m \in Managed : d.managed[m] # "none" /\ bk.managed[m] # "none"
                            /\ d.managed[m] # bk.managed[m]
    \/ d.user # 0 /\ bk.user # 0 /\ d.user # bk.user

\* undoSyncedDirectory: a file as the sync writes it is replaced by its backup.
Unsynced(d, bk) ==
    [d EXCEPT !.managed = [m \in Managed |->
        IF d.managed[m] = "bundled" THEN bk.managed[m] ELSE d.managed[m]]]

\* Where an undo may be cut off: any of its files is still as synced, removed,
\* or already replaced.
HalfUndone(d, bk) ==
    {[managed |-> f, user |-> u] :
        f \in {g \in [Managed -> Contents] : \A m \in Managed :
                 g[m] \in IF d.managed[m] \in {"none", "bundled"}
                          THEN {d.managed[m], "none", bk.managed[m]} ELSE {d.managed[m]}},
        u \in IF d.user = 0 THEN {0, bk.user} ELSE {d.user}}

-----------------------------------------------------------------------------
\* An installed skill before an update of the daemon: some files have changed.
Shipped ==
    {[managed |-> f, user |-> 0] : f \in [Managed -> {"old", "bundled"}]}

Init ==
    /\ live \in [Paths -> {Missing} \cup Shipped]
    /\ \A n \in Names, r, s \in Roots : live[<<n, r>>] = live[<<n, s>>]
    /\ selection = {n \in Names : \E r \in Roots : Exists(live[<<n, r>>])}
    /\ tx = NoTx /\ rescued = {} /\ up = TRUE
    /\ pc = "idle" /\ op = Idle /\ plan = NoPlan /\ todo = {} /\ after = "none"
    /\ attempt = 0 /\ outcome = "none"
    /\ owed = {} /\ before = live /\ edited = {}
    /\ calls = 0 /\ edits = 0 /\ faults = 0 /\ crashes = 0

Fail == faults < MaxFaults /\ faults' = faults + 1

Finish(o) ==
    /\ pc' = "idle" /\ outcome' = o /\ op' = Idle /\ plan' = NoPlan
    /\ todo' = {} /\ after' = "none" /\ attempt' = 0

GotoRestore(then) ==
    /\ pc' = "restore" /\ after' = then
    /\ todo' = {p \in Paths : tx.kind[p[1]] # "none"}

GotoCleanup(then) == pc' = "cleanup" /\ after' = then /\ todo' = {}

\* The queue takes the next operation.
Call(o) ==
    /\ up /\ pc = "idle" /\ calls < MaxCalls /\ calls' = calls + 1
    /\ op' = o /\ pc' = "recover" /\ outcome' = "none" /\ attempt' = 0
    /\ UNCHANGED <<disk, up, plan, todo, after, history, edits, faults, crashes>>

\* An interrupted transaction is always rolled back.
Recover_Slip ==
    /\ pc = "recover"
    /\ \/ tx.phase = "none" /\ pc' = "scan" /\ UNCHANGED <<todo, after>>
       \/ tx.phase = "capturing" /\ GotoCleanup("scan")
       \/ tx.phase = "converging" /\ GotoRestore("scan")
    /\ UNCHANGED <<disk, up, op, plan, attempt, outcome, history, budgets>>

\* recoverInterruptedSkillTransactions: the saved selection tells whether the
\* interrupted save had committed.
Recover ==
    /\ pc = "recover"
    /\ \/ tx.phase = "none" /\ pc' = "scan" /\ UNCHANGED <<todo, after>>
       \/ tx.phase # "none" /\ (selection = tx.next \/ tx.phase = "capturing")
             /\ GotoCleanup("scan")
       \/ tx.phase = "converging" /\ selection # tx.next /\ GotoRestore("scan")
    /\ UNCHANGED <<disk, up, op, plan, attempt, outcome, history, budgets>>

\* getSkillsStatus, the confirmation of removals, and what each operation does.
Scan ==
    /\ pc = "scan"
    /\ LET next == IF op.kind = "save" THEN op.next ELSE selection
           pl == Plan(next)
           installed == \E p \in Paths : Exists(live[p])
       IN
       \/ /\ op.kind = "save" /\ Removals(pl) \subseteq op.confirmed
          /\ plan' = pl /\ pc' = "begin" /\ UNCHANGED <<op, todo, after, attempt, outcome>>
       \/ /\ op.kind = "save" /\ ~(Removals(pl) \subseteq op.confirmed)
          /\ Finish("confirm")
       \/ /\ op.kind = "update" \/ (op.kind = "autoUpdate" /\ installed)
          /\ plan' = NonDestructive(pl) /\ pc' = "apply"
          /\ todo' = {p \in Paths : pl[p[1]] \in {"add", "update"}} \X Managed
          /\ UNCHANGED <<op, after, attempt, outcome>>
       \/ /\ op.kind = "uninstall"
          /\ pc' = "remove" /\ todo' = Paths
          /\ UNCHANGED <<op, plan, after, attempt, outcome>>
       \/ /\ op.kind = "status" \/ (op.kind = "autoUpdate" /\ ~installed)
          /\ Finish("ok")
    /\ UNCHANGED <<disk, up, history, budgets>>

-----------------------------------------------------------------------------
(* The transaction of a save. *)

\* The manifest is written before anything is captured.
Begin ==
    /\ pc = "begin"
    /\ tx' = [NoTx EXCEPT !.phase = "capturing", !.prev = selection, !.next = op.next,
                          !.confirmed = op.confirmed]
    /\ pc' = "capture"
    /\ UNCHANGED <<live, rescued, selection, up, op, plan, todo, after, attempt, outcome,
                   history, budgets>>

Copied == {p \in Planned({"add", "update"}) : Exists(live[p])}

\* Copies of what an add or update may change; a delete is staged by renaming.
Capture ==
    /\ pc = "capture"
    /\ \/ /\ tx' = [tx EXCEPT !.phase = "converging", !.kind = plan,
                              !.has = {p \in Planned({"add", "update", "delete"}) : Exists(live[p])},
                              !.kept = Copied,
                              !.backup = [p \in Paths |-> IF p \in Copied THEN live[p]
                                                                          ELSE Missing]]
          /\ before' = live /\ edited' = {}
          /\ pc' = "stage" /\ todo' = tx'.has \cap Planned({"delete"})
          /\ UNCHANGED <<after, faults>>
       \/ /\ Fail /\ GotoCleanup("failed") /\ UNCHANGED <<tx, before, edited>>
    /\ UNCHANGED <<live, rescued, selection, up, op, plan, attempt, outcome, owed,
                   calls, edits, crashes>>

\* One rename per directory; it fails when the user removed the directory.
Stage ==
    /\ pc = "stage"
    /\ \/ \E p \in todo :
             /\ Exists(live[p])
             /\ tx' = [tx EXCEPT !.kept = @ \cup {p}, !.backup[p] = live[p]]
             /\ live' = [live EXCEPT ![p] = Missing]
             /\ todo' = todo \ {p} /\ UNCHANGED <<pc, after, faults>>
       \/ /\ \/ \E p \in todo : ~Exists(live[p]) /\ UNCHANGED faults
             \/ todo # {} /\ Fail
          /\ GotoRestore("failed") /\ UNCHANGED <<tx, live>>
       \/ /\ todo = {} /\ pc' = "apply"
          /\ todo' = Planned({"add", "update"}) \X Managed
          /\ UNCHANGED <<tx, live, after, faults>>
    /\ UNCHANGED <<rescued, selection, up, op, plan, attempt, outcome, history,
                   calls, edits, crashes>>

\* syncSkills, file by file, for a save as for an update.
Apply ==
    /\ pc = "apply"
    /\ \/ \E f \in todo :
             /\ live' = [live EXCEPT ![f[1]].managed[f[2]] = "bundled"]
             /\ todo' = todo \ {f}
             /\ UNCHANGED <<pc, op, plan, after, attempt, outcome, faults>>
       \/ /\ todo # {} /\ Fail /\ UNCHANGED live
          /\ \/ op.kind = "save" /\ GotoRestore("failed")
                  /\ UNCHANGED <<op, plan, attempt, outcome>>
             \/ op.kind # "save" /\ Finish("failed")
       \/ /\ todo = {} /\ UNCHANGED <<live, faults>>
          /\ \/ op.kind = "save" /\ pc' = "decide"
                  /\ UNCHANGED <<op, plan, todo, after, attempt, outcome>>
             \/ op.kind # "save" /\ Finish("ok")
    /\ UNCHANGED <<tx, rescued, selection, up, history, calls, edits, crashes>>

\* Nothing left to do commits the save; otherwise its changes are taken back
\* and the save is planned afresh, up to MaxSaveAttempts times.
Decide ==
    /\ pc = "decide"
    /\ \/ /\ Plan(op.next) = NoPlan
          /\ selection' = op.next /\ GotoCleanup("done") /\ UNCHANGED <<attempt, faults>>
       \/ /\ Plan(op.next) = NoPlan
          /\ Fail /\ GotoRestore("failed") /\ UNCHANGED <<selection, attempt>>
       \/ /\ Plan(op.next) # NoPlan
          /\ attempt' = attempt + 1
          /\ GotoRestore(IF attempt' < MaxSaveAttempts THEN "scan" ELSE "failed")
          /\ UNCHANGED <<selection, faults>>
    /\ UNCHANGED <<live, tx, rescued, up, op, plan, outcome, history, calls, edits, crashes>>

-----------------------------------------------------------------------------
(* Restore and cleanup. *)

SetAside(p) ==
    /\ tx' = [tx EXCEPT !.kept = @ \ {p}, !.aside = @ \cup {p}]
    /\ rescued' = rescued \cup ({tx.backup[p].user} \ {0})

Lost(p) == p \in tx.has /\ p \notin tx.kept
Deletes(p) == tx.kind[p[1]] = "delete"

\* The staged original replaces whatever another writer put in its place.
RestoreDeleted_Slip(p) ==
    /\ live' = [live EXCEPT ![p] = tx.backup[p]]
    /\ tx' = [tx EXCEPT !.kept = @ \ {p}]
    /\ UNCHANGED rescued

\* restoreDeletedDirectory: renamed back, or merged under what another writer
\* put in its place, with the original set aside when they disagree.
RestoreDeleted(p) ==
    \/ /\ ~Exists(live[p])
       /\ live' = [live EXCEPT ![p] = tx.backup[p]]
       /\ tx' = [tx EXCEPT !.kept = @ \ {p}]
       /\ UNCHANGED rescued
    \/ /\ Exists(live[p])
       /\ live' = [live EXCEPT ![p] = Merge(live[p], tx.backup[p])]
       /\ IF Conflict(live[p], tx.backup[p]) THEN SetAside(p) ELSE UNCHANGED <<tx, rescued>>

\* An add or update: the synced files undone, missing ones merged back.
RestoreSynced(p) ==
    LET undone == Unsynced(live[p], tx.backup[p]) IN
    /\ live' = [live EXCEPT ![p] = Merge(undone, tx.backup[p])]
    /\ IF Conflict(undone, tx.backup[p]) THEN SetAside(p) ELSE UNCHANGED <<tx, rescued>>

RestoreEntry ==
    \E p \in todo :
        /\ todo' = todo \ {p}
        /\ \/ Lost(p) /\ (Deletes(p) \/ p \in tx.aside) /\ UNCHANGED <<live, tx, rescued>>
           \/ ~Lost(p) /\ Deletes(p) /\ p \in tx.has /\ RestoreDeleted(p)
           \/ ~Lost(p) /\ Deletes(p) /\ p \notin tx.has /\ UNCHANGED <<live, tx, rescued>>
           \/ ~Lost(p) /\ ~Deletes(p) /\ RestoreSynced(p)
        /\ UNCHANGED <<pc, op, plan, after, attempt, outcome>>

\* A backup that was set aside counts as missing.
BackupIsMissing_Slip ==
    /\ \E p \in todo : Lost(p) /\ ~Deletes(p)
    /\ Finish("stuck") /\ UNCHANGED <<live, tx, rescued>>

\* A backup that is neither there nor set aside fails the operation.
BackupIsMissing ==
    /\ \E p \in todo : Lost(p) /\ ~Deletes(p) /\ p \notin tx.aside
    /\ Finish("stuck") /\ UNCHANGED <<live, tx, rescued>>

Restore ==
    /\ pc = "restore"
    /\ \/ RestoreEntry
       \/ BackupIsMissing
       \/ /\ todo = {} /\ GotoCleanup(after)
          /\ UNCHANGED <<live, tx, rescued, op, plan, attempt, outcome>>
    /\ UNCHANGED <<selection, up, history, budgets>>

\* What a user asked to remove and a committed save has removed.
Released ==
    IF selection = tx.next
    THEN {tx.backup[p].user : p \in {q \in tx.kept : Deletes(q) /\ q[1] \in tx.confirmed}}
    ELSE {}

\* discardTransaction.
Cleanup ==
    /\ pc = "cleanup"
    /\ tx' = NoTx /\ owed' = owed \ Released
    /\ \/ after = "scan" /\ pc' = "scan" /\ after' = "none"
            /\ UNCHANGED <<op, plan, todo, attempt, outcome>>
       \/ after = "done" /\ Finish("ok")
       \/ after = "failed" /\ Finish("failed")
    /\ UNCHANGED <<live, rescued, selection, up, before, edited, budgets>>

\* A removal that is cut off: some of the backups are gone, the manifest not.
SomeRemoved ==
    /\ \E gone \in (SUBSET tx.kept) \ {{}} : tx' = [tx EXCEPT !.kept = @ \ gone]
    /\ selection = tx.next \/ PartialCleanup
    /\ owed' = owed \ Released

\* A committed save is reported as such even when its cleanup fails.
CleanupFails ==
    /\ pc = "cleanup" /\ after = "done" /\ Fail
    /\ SomeRemoved \/ UNCHANGED <<tx, owed>>
    /\ Finish("ok")
    /\ UNCHANGED <<live, rescued, selection, up, before, edited, calls, edits, crashes>>

\* uninstallSkills removes every directory, as asked.
Remove ==
    /\ pc = "remove"
    /\ \/ \E p \in todo :
             /\ live' = [live EXCEPT ![p] = Missing]
             /\ owed' = owed \ {live[p].user}
             /\ todo' = todo \ {p} /\ UNCHANGED <<pc, op, plan, after, attempt, outcome>>
       \/ todo = {} /\ Finish("ok") /\ UNCHANGED <<live, owed>>
    /\ UNCHANGED <<tx, rescued, selection, up, before, edited, budgets>>

-----------------------------------------------------------------------------
(* The user, the agents, and the operating system. *)

\* Somebody writes their file in a skill directory, which may recreate it.
Edit(p) ==
    /\ edits < MaxEdits /\ edits' = edits + 1
    /\ live' = [live EXCEPT ![p].user = edits']
    /\ owed' = (owed \ {live[p].user}) \cup {edits'}
    /\ edited' = edited \cup {p}
    /\ UNCHANGED <<tx, rescued, selection, up, task, before, calls, faults, crashes>>

\* Somebody removes a skill directory.
RemoveLive(p) ==
    /\ edits < MaxEdits /\ edits' = edits + 1 /\ Exists(live[p])
    /\ live' = [live EXCEPT ![p] = Missing]
    /\ owed' = owed \ {live[p].user}
    /\ edited' = edited \cup {p}
    /\ UNCHANGED <<tx, rescued, selection, up, task, before, calls, faults, crashes>>

Down ==
    /\ up /\ crashes < MaxCrashes /\ crashes' = crashes + 1 /\ up' = FALSE
    /\ Finish("none")
    /\ UNCHANGED <<rescued, selection, before, edited, calls, edits, faults>>

Crash ==
    /\ Down
    /\ \/ UNCHANGED <<live, tx, owed>>
       \/ /\ pc = "restore"
          /\ \E p \in todo : /\ ~Lost(p) /\ ~Deletes(p)
                             /\ \E d \in HalfUndone(live[p], tx.backup[p]) :
                                   live' = [live EXCEPT ![p] = d]
          /\ UNCHANGED <<tx, owed>>
       \/ pc = "cleanup" /\ SomeRemoved /\ UNCHANGED live

\* The daemon starts with autoUpdate.
Start ==
    /\ ~up /\ up' = TRUE
    /\ op' = [Idle EXCEPT !.kind = "autoUpdate"] /\ pc' = "recover"
    /\ UNCHANGED <<disk, plan, todo, after, attempt, outcome, history, budgets>>

Step == Recover \/ Scan \/ Begin \/ Capture \/ Stage \/ Apply \/ Decide
          \/ Restore \/ Cleanup \/ Remove

Next ==
    \/ \E o \in Saves \cup Others : Call(o)
    \/ Step \/ CleanupFails
    \/ \E p \in Paths : Edit(p) \/ RemoveLive(p)
    \/ Crash \/ Start

Spec == Init /\ [][Next]_vars

\* The operation at the head of the queue proceeds; a daemon that died is
\* started again.
FairSpec == Spec /\ WF_vars(Step) /\ WF_vars(Start)

-----------------------------------------------------------------------------
(* Properties. *)

\* A file of the user is never lost unless the user removed it, uninstalled, or
\* confirmed the removal of its skill: through failed and interrupted saves and
\* recoveries it is in the directory, in a backup that recovery will use, or
\* set aside.
Preserved(v) ==
    \/ \E p \in Paths : live[p].user = v
    \/ \E p \in tx.kept : tx.phase = "converging" /\ tx.backup[p].user = v
    \/ v \in rescued
UserFilesKept == \A v \in owed : Preserved(v)

\* A save happens or it does not: once its transaction is gone, the directories
\* nobody else touched are as the saved selection wants them, or, if that is
\* not the selection of the save, as they were; whether the save ended, failed,
\* was planned again, or died and was recovered.
Wanted(p, sel) ==
    IF p[1] \in sel THEN \A m \in Managed : live[p].managed[m] = "bundled"
                    ELSE ~Exists(live[p])

SaveIsAtomic ==
    [][tx.phase = "converging" /\ tx'.phase = "none" =>
          \A p \in Paths \ edited :
              \/ selection # tx.next /\ live[p] = before[p]
              \/ selection = tx.next /\ (tx.prev = tx.next \/ Wanted(p, tx.next))]_vars

\* A recovery that starts gets rid of the transaction it found, whatever crash
\* it has behind it: a dead save does not block the operations after it.
RecoveryCompletes == (pc = "recover") ~> (tx.phase = "none")
=============================================================================
