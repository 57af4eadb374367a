----------------------------- MODULE SkillsProofs -----------------------------
(***************************************************************************)
(* Theorems about SkillsTransaction, for any skills, homes, managed files, *)
(* number of planning attempts and bounds on calls, edits, failures and    *)
(* crashes, and whether or not a rollback's cleanup may be cut off.        *)
(*                                                                         *)
(* Two inductive invariants carry them, on top of where each step of an    *)
(* operation finds the transaction.  One is about the files of the user:   *)
(* the backup of an update is a copy of what is still installed, a backup  *)
(* of a removal is of a skill the user confirmed, and a cleanup comes when *)
(* whatever is owed to the user is in place, so that it drops only copies  *)
(* and what was confirmed.  The other is about the directories nobody else *)
(* touched: until its selection is saved each is somewhere between what it *)
(* was and what the sync writes, in a way that its backup undoes.          *)
(***************************************************************************)
EXTENDS SkillsTransaction, TLAPS

USE SkillsAssumption

Kinds == {"none", "add", "update", "delete"}
Dirs == [managed : [Managed -> Contents], user : Nat]
Transactions ==
    [phase : {"none", "capturing", "converging"}, prev : SUBSET Names, next : SUBSET Names,
     kind : [Names -> Kinds], confirmed : SUBSET Names, has : SUBSET Paths,
     kept : SUBSET Paths, aside : SUBSET Paths, backup : [Paths -> Dirs]]
Ops == [kind : {"save", "status", "update", "autoUpdate", "uninstall"},
        next : SUBSET Names, confirmed : SUBSET Names]

TypeInv ==
    /\ live \in [Paths -> Dirs] /\ tx \in Transactions
    /\ selection \in SUBSET Names
    /\ op \in Ops /\ plan \in [Names -> Kinds]
    /\ before \in [Paths -> Dirs] /\ edited \in SUBSET Paths
    /\ edits \in Nat /\ owed \subseteq 1..edits

\* The steps of a save between the capture and the decision.
Saving == \/ pc \in {"stage", "decide"}
          \/ pc = "apply" /\ op.kind = "save"
Touched == {p \in Paths : tx.kind[p[1]] # "none"}
Synced(p) == tx.kind[p[1]] \in {"add", "update"}

\* Where each step of an operation finds the transaction and its plan.
Phases ==
    /\ pc \in {"scan", "begin", "remove"} => tx.phase = "none"
    /\ pc = "apply" /\ op.kind # "save" => tx.phase = "none"
    /\ pc = "capture" => tx.phase = "capturing"
    /\ Saving \/ pc = "restore" => tx.phase = "converging"
Planning ==
    /\ pc \in {"begin", "capture"} \/ Saving =>
          op.kind = "save" /\ Removals(plan) \subseteq op.confirmed
    /\ pc = "capture" \/ Saving => /\ tx.next = op.next /\ tx.confirmed = op.confirmed
                                   /\ tx.prev = selection
    /\ Saving => plan = tx.kind
    /\ pc = "restore" => tx.prev = selection
    /\ tx.phase # "none" => selection \in {tx.prev, tx.next}
Left ==
    /\ pc = "stage" => todo \subseteq {p \in tx.has \ tx.kept : Deletes(p)}
    /\ pc = "apply" => todo \subseteq Planned({"add", "update"}) \X Managed
    /\ pc = "remove" => todo \subseteq Paths
    /\ pc = "restore" => todo \subseteq Touched
Backups ==
    tx.phase = "converging" =>
        /\ tx.kept \subseteq tx.has /\ tx.has \subseteq Touched
        /\ \A p \in tx.kept : Deletes(p) => p[1] \in tx.confirmed
Control == Phases /\ Planning /\ Left /\ Backups

\* The files of the user.
InPlace(v) == v \in rescued \/ \E p \in Paths : live[p].user = v
Copies ==
    tx.phase = "converging" =>
        \A p \in tx.kept : ~Deletes(p) /\ tx.backup[p].user \in owed
                              => live[p].user = tx.backup[p].user
AtRestore ==
    pc = "restore" =>
        \A v \in owed : InPlace(v) \/ \E p \in tx.kept \cap todo : tx.backup[p].user = v
AtCleanup == pc = "cleanup" => \A v \in owed : InPlace(v) \/ v \in Released
Versions == \A p \in Paths : live[p].user <= edits /\ tx.backup[p].user <= edits
UserInv == UserFilesKept /\ Copies /\ AtRestore /\ AtCleanup /\ Versions

\* The directories nobody else touched.
Committed ==
    tx.phase = "converging" /\ selection = tx.next /\ tx.prev # tx.next =>
        /\ pc \in {"idle", "recover", "cleanup"}
        /\ \A p \in Paths \ edited : Wanted(p, tx.next)

Between(d, b) ==
    /\ d.user = b.user
    /\ \A m \in Managed : d.managed[m] \in {b.managed[m], "bundled", "none"}
Undoable(p) ==
    /\ tx.kind[p[1]] = "none" => live[p] = before[p]
    /\ Deletes(p) /\ p \in tx.kept => tx.backup[p] = before[p] /\ live[p] \in {Missing, before[p]}
    /\ Deletes(p) /\ p \notin tx.kept => live[p] = before[p]
    /\ Synced(p) => tx.backup[p] = before[p] /\ Between(live[p], before[p])
    /\ Synced(p) /\ Lost(p) => live[p] = before[p]
RollingBack == tx.phase = "converging" /\ selection # tx.next
Undo == RollingBack => \A p \in Paths \ edited : Undoable(p)
Undone ==
    /\ RollingBack /\ pc = "restore" => \A p \in Paths \ edited : p \notin todo => live[p] = before[p]
    /\ RollingBack /\ pc = "cleanup" => \A p \in Paths \ edited : live[p] = before[p]
Complete == Saving => \A p \in tx.has : Synced(p) => p \in tx.kept
AtomicInv == Committed /\ Undo /\ Undone /\ Complete

-----------------------------------------------------------------------------
(* Putting directories back *)

LEMMA MissingDir == Missing \in Dirs /\ Missing.user = 0
  BY DEF Missing, Dirs, Contents

(* A merge keeps the file of the user that is there, brings back one that is *)
(* missing, and replaces none without a conflict.                            *)
LEMMA MergeDir ==
    ASSUME NEW d \in Dirs, NEW b \in Dirs
    PROVE  /\ Merge(d, b) \in Dirs
           /\ d.user # 0 => Merge(d, b).user = d.user
           /\ d.user = 0 => Merge(d, b).user = b.user
           /\ ~Conflict(d, b) => b.user \in {0, Merge(d, b).user}
  BY DEF Dirs, Merge, Conflict

(* Undoing the sync leaves the file of the user alone. *)
LEMMA UnsyncedDir ==
    ASSUME NEW d \in Dirs, NEW b \in Dirs
    PROVE  Unsynced(d, b) \in Dirs /\ Unsynced(d, b).user = d.user
  BY DEF Dirs, Unsynced

(* A directory between its backup and the sync is undone to its backup.      *)
LEMMA UndoneDir ==
    ASSUME NEW d \in Dirs, NEW b \in Dirs, Between(d, b)
    PROVE  Merge(Unsynced(d, b), b) = b /\ ~Conflict(Unsynced(d, b), b)
<1> DEFINE u == Unsynced(d, b)
<1>1. /\ u.user = b.user /\ u.managed \in [Managed -> Contents]
      /\ \A m \in Managed : u.managed[m] \in {b.managed[m], "none"}
  BY DEF Dirs, Unsynced, Between
<1> HIDE DEF u
<1>2. Merge(u, b).managed = b.managed
  BY <1>1 DEF Merge, Dirs
<1>3. Merge(u, b) = b
  BY <1>1, <1>2 DEF Merge, Dirs
<1>4. ~Conflict(u, b)
  BY <1>1 DEF Conflict
<1> QED BY <1>3, <1>4 DEF u

(* An undo that is cut off stays on that way. *)
LEMMA HalfUndoneDir ==
    ASSUME NEW d \in Dirs, NEW b \in Dirs, NEW e, e \in HalfUndone(d, b)
    PROVE  /\ e \in Dirs
           /\ d.user # 0 => e.user = d.user
           /\ e.user \in {0, d.user, b.user}
           /\ Between(d, b) => Between(e, b)
<1>1. PICK f \in [Managed -> Contents], u \in (IF d.user = 0 THEN {0, b.user} ELSE {d.user}) :
         /\ e = [managed |-> f, user |-> u]
         /\ \A m \in Managed : f[m] \in IF d.managed[m] \in {"none", "bundled"}
                                       THEN {d.managed[m], "none", b.managed[m]}
                                       ELSE {d.managed[m]}
  BY DEF HalfUndone
<1> QED BY <1>1 DEF Dirs, Between

LEMMA MergeSame ==
    ASSUME NEW d \in Dirs
    PROVE  Merge(d, d) = d /\ ~Conflict(d, d)
<1>1. Merge(d, d).managed = d.managed
  BY DEF Dirs, Merge
<1> QED BY <1>1 DEF Dirs, Merge, Conflict

LEMMA PathName == \A p \in Paths : p[1] \in Names
  BY DEF Paths

-----------------------------------------------------------------------------
(* Where the steps find the transaction *)

LEMMA InitType == Init => TypeInv
<1> SUFFICES ASSUME Init PROVE TypeInv
  OBVIOUS
<1>1. \A d \in Shipped : d \in Dirs
  BY DEF Shipped, Dirs, Contents
<1>2. live \in [Paths -> Dirs]
  BY <1>1, MissingDir DEF Init
<1>3. NoTx \in Transactions
  BY MissingDir DEF NoTx, NoPlan, Transactions, Kinds
<1>4. selection \in SUBSET Names /\ Idle \in Ops /\ NoPlan \in [Names -> Kinds]
  BY DEF Init, Idle, Ops, NoPlan, Kinds
<1> QED BY <1>2, <1>3, <1>4 DEF Init, TypeInv

LEMMA FinishType ==
    ASSUME NEW o, Finish(o) PROVE op' \in Ops /\ plan' \in [Names -> Kinds]
  BY DEF Finish, Idle, Ops, NoPlan, Kinds

LEMMA PlanType ==
    ASSUME NEW sel PROVE Plan(sel) \in [Names -> Kinds] /\ NonDestructive(Plan(sel)) \in [Names -> Kinds]
<1>1. \A n \in Names : Kind(sel, n) \in Kinds
  BY DEF Kind, Kinds
<1> QED BY <1>1 DEF Plan, NonDestructive, Kinds

LEMMA SetAsideType ==
    ASSUME TypeInv, NEW p \in Paths, SetAside(p) PROVE tx' \in Transactions
  BY DEF TypeInv, SetAside, Transactions

LEMMA TypeStep == TypeInv /\ Left /\ Backups /\ [Next]_vars => TypeInv'
<1> SUFFICES ASSUME TypeInv, Left, Backups, [Next]_vars PROVE TypeInv'
  OBVIOUS
<1> USE DEF TypeInv
<1>1. ASSUME NEW o \in Saves \cup Others, Call(o) PROVE TypeInv'
  <2>1. o \in Ops
    BY DEF Saves, Others, Ops
  <2> QED BY <1>1, <2>1 DEF Call, disk, history
<1>2. CASE Recover
  BY <1>2 DEF Recover, disk, history, budgets
<1>3. CASE Scan
  <2>1. op' \in Ops /\ plan' \in [Names -> Kinds]
    BY <1>3, FinishType, PlanType DEF Scan
  <2> QED BY <1>3, <2>1 DEF Scan, disk, history, budgets
<1>4. CASE Begin
  <2>1. tx' \in Transactions
    BY <1>4, MissingDir DEF Begin, NoTx, NoPlan, Transactions, Kinds, Ops
  <2> QED BY <1>4, <2>1 DEF Begin, history, budgets
<1>5. CASE Capture
  <2>1. CASE tx' = tx
    BY <1>5, <2>1 DEF Capture
  <2>2. CASE tx' # tx
    <3>1. tx' = [tx EXCEPT !.phase = "converging", !.kind = plan,
                           !.has = {p \in Planned({"add", "update", "delete"}) : Exists(live[p])},
                           !.kept = Copied,
                           !.backup = [p \in Paths |-> IF p \in Copied THEN live[p] ELSE Missing]]
      BY <1>5, <2>2 DEF Capture
    <3>2. Copied \subseteq Paths /\ {p \in Planned({"add", "update", "delete"}) : Exists(live[p])} \subseteq Paths
      BY DEF Copied, Planned
    <3>3. [p \in Paths |-> IF p \in Copied THEN live[p] ELSE Missing] \in [Paths -> Dirs]
      BY MissingDir
    <3>4. tx' \in Transactions
      BY <3>1, <3>2, <3>3 DEF Transactions
    <3>5. before' \in [Paths -> Dirs] /\ edited' \in SUBSET Paths
      BY <1>5 DEF Capture
    <3> QED BY <1>5, <3>4, <3>5 DEF Capture
  <2> QED BY <2>1, <2>2
<1>6. CASE Stage
  <2>1. CASE UNCHANGED <<live, tx>>
    BY <1>6, <2>1 DEF Stage, history
  <2>2. CASE ~UNCHANGED <<live, tx>>
    <3>1. PICK p \in todo : /\ tx' = [tx EXCEPT !.kept = @ \cup {p}, !.backup[p] = live[p]]
                            /\ live' = [live EXCEPT ![p] = Missing]
      BY <1>6, <2>2 DEF Stage
    <3>2. p \in Paths
      BY <1>6 DEF Stage, Left, Transactions
    <3>3. tx' \in Transactions /\ live' \in [Paths -> Dirs]
      BY <3>1, <3>2, MissingDir DEF Transactions
    <3> QED BY <1>6, <3>3 DEF Stage, history
  <2> QED BY <2>1, <2>2
<1>7. CASE Apply
  <2>1. live' \in [Paths -> Dirs]
    <3>1. ASSUME NEW f \in todo, live' = [live EXCEPT ![f[1]].managed[f[2]] = "bundled"]
          PROVE  live' \in [Paths -> Dirs]
      <4>1. f[1] \in Paths /\ f[2] \in Managed
        BY <1>7 DEF Apply, Left, Planned
      <4>2. [live[f[1]] EXCEPT !.managed[f[2]] = "bundled"] \in Dirs
        BY <4>1 DEF Dirs, Contents
      <4> QED BY <3>1, <4>1, <4>2
    <3> QED BY <1>7, <3>1 DEF Apply
  <2>2. op' \in Ops /\ plan' \in [Names -> Kinds]
    BY <1>7, FinishType DEF Apply
  <2> QED BY <1>7, <2>1, <2>2 DEF Apply, history
<1>8. CASE Decide
  BY <1>8 DEF Decide, history, Ops
<1>9. CASE Restore
  <2>1. op' \in Ops /\ plan' \in [Names -> Kinds]
    BY <1>9, FinishType DEF Restore, RestoreEntry, BackupIsMissing
  <2>2. live' \in [Paths -> Dirs] /\ tx' \in Transactions
    <3>1. CASE UNCHANGED <<live, tx>>
      BY <3>1
    <3>2. ASSUME NEW p \in todo, p \in Paths, RestoreDeleted(p) \/ RestoreSynced(p)
          PROVE  live' \in [Paths -> Dirs] /\ tx' \in Transactions
      <4>1. tx.backup[p] \in Dirs /\ live[p] \in Dirs
        BY <3>2 DEF Transactions
      <4>2. Merge(live[p], tx.backup[p]) \in Dirs
        BY <4>1, MergeDir
      <4>3. Merge(Unsynced(live[p], tx.backup[p]), tx.backup[p]) \in Dirs
        BY <4>1, MergeDir, UnsyncedDir
      <4>4. live' \in [Paths -> Dirs]
        BY <3>2, <4>1, <4>2, <4>3 DEF RestoreDeleted, RestoreSynced
      <4>5. [tx EXCEPT !.kept = @ \ {p}] \in Transactions
        BY DEF Transactions
      <4>6. tx' \in Transactions
        BY <3>2, <4>5, SetAsideType DEF RestoreDeleted, RestoreSynced
      <4> QED BY <4>4, <4>6
    <3>3. todo \subseteq Paths
      BY <1>9 DEF Restore, Left, Touched
    <3> QED BY <1>9, <3>1, <3>2, <3>3 DEF Restore, RestoreEntry, BackupIsMissing
  <2> QED BY <1>9, <2>1, <2>2 DEF Restore, history, budgets
<1>10. CASE Cleanup
  <2>1. NoTx \in Transactions
    BY MissingDir DEF NoTx, NoPlan, Transactions, Kinds
  <2>2. op' \in Ops /\ plan' \in [Names -> Kinds]
    BY <1>10, FinishType DEF Cleanup
  <2> QED BY <1>10, <2>1, <2>2 DEF Cleanup, budgets
<1>11. CASE Remove
  <2>1. op' \in Ops /\ plan' \in [Names -> Kinds]
    BY <1>11, FinishType DEF Remove
  <2>2. live' \in [Paths -> Dirs] /\ owed' \subseteq owed
    BY <1>11, MissingDir DEF Remove, Left
  <2> QED BY <1>11, <2>1, <2>2 DEF Remove, budgets
<1>12. ASSUME SomeRemoved PROVE tx' \in Transactions /\ owed' \subseteq owed
  BY <1>12 DEF SomeRemoved, Transactions
<1>13. CASE CleanupFails
  <2>1. op' \in Ops /\ plan' \in [Names -> Kinds]
    BY <1>13, FinishType DEF CleanupFails
  <2> QED BY <1>12, <1>13, <2>1 DEF CleanupFails
<1>14. ASSUME NEW p \in Paths, Edit(p) PROVE TypeInv'
  <2>1. edits' \in Nat /\ edits' = edits + 1
    BY <1>14 DEF Edit
  <2>2. live' \in [Paths -> Dirs]
    BY <1>14, <2>1 DEF Edit, Dirs
  <2> QED BY <1>14, <2>1, <2>2 DEF Edit, task
<1>15. ASSUME NEW p \in Paths, RemoveLive(p) PROVE TypeInv'
  <2>1. edits' \in Nat /\ edits' = edits + 1
    BY <1>15 DEF RemoveLive
  <2>2. live' \in [Paths -> Dirs]
    BY <1>15, MissingDir DEF RemoveLive
  <2>3. owed' \subseteq 1..edits'
    <3>1. owed' \subseteq owed /\ 1..edits \subseteq 1..edits'
      BY <1>15, <2>1 DEF RemoveLive
    <3> QED BY <3>1
  <2> QED BY <1>15, <2>1, <2>2, <2>3 DEF RemoveLive, task
<1>16. CASE Crash
  <2>1. op' \in Ops /\ plan' \in [Names -> Kinds]
    BY <1>16, FinishType DEF Crash, Down
  <2>2. live' \in [Paths -> Dirs]
    <3>1. ASSUME NEW p \in todo, p \in Paths, NEW d, d \in HalfUndone(live[p], tx.backup[p]),
                 live' = [live EXCEPT ![p] = d]
          PROVE  live' \in [Paths -> Dirs]
      <4>1. live[p] \in Dirs /\ tx.backup[p] \in Dirs /\ live \in [Paths -> Dirs]
        BY <3>1 DEF Transactions
      <4> HIDE DEF TypeInv
      <4>2. d \in Dirs
        BY <3>1, <4>1, HalfUndoneDir
      <4> QED BY <3>1, <4>1, <4>2
    <3>2. pc = "restore" => todo \subseteq Paths
      BY DEF Left, Touched
    <3> QED BY <1>16, <3>1, <3>2 DEF Crash
  <2> QED BY <1>12, <1>16, <2>1, <2>2 DEF Crash, Down
<1>17. CASE Start
  BY <1>17 DEF Start, disk, history, budgets, Idle, Ops
<1>18. CASE UNCHANGED vars
  BY <1>18 DEF vars, disk, task, history, budgets
<1> QED
  BY <1>1, <1>2, <1>3, <1>4, <1>5, <1>6, <1>7, <1>8, <1>9, <1>10, <1>11, <1>13, <1>14, <1>15,
     <1>16, <1>17, <1>18 DEF Next, Step

LEMMA InitControl == Init => Control
  BY DEF Init, Control, Phases, Planning, Left, Backups, Saving, NoTx, NoPlan, Removals

(* An operation that ends, or died, leaves the transaction as it is. *)
LEMMA FinishControl ==
    ASSUME TypeInv, Control, NEW o, Finish(o), UNCHANGED selection,
           \/ UNCHANGED tx
           \/ tx' = NoTx
           \/ \E gone \in SUBSET tx.kept : tx' = [tx EXCEPT !.kept = @ \ gone]
    PROVE  Control'
<1>1. pc' = "idle"
  BY DEF Finish
<1>2. (Planning /\ Backups)' \/ tx'.phase = "none"
  <2>1. CASE UNCHANGED tx
    BY <1>1, <2>1 DEF Finish, Control, Planning, Backups, Saving, Touched, Deletes
  <2>2. CASE tx' = NoTx
    BY <2>2 DEF NoTx
  <2>3. ASSUME NEW gone \in SUBSET tx.kept, tx' = [tx EXCEPT !.kept = @ \ gone]
        PROVE  (Planning /\ Backups)'
    BY <1>1, <2>3 DEF TypeInv, Transactions, Control, Planning, Backups, Saving, Touched, Deletes
  <2> QED BY <2>1, <2>2, <2>3
<1> QED BY <1>1, <1>2 DEF Control, Phases, Planning, Left, Backups, Saving

LEMMA ControlStep == TypeInv /\ Control /\ [Next]_vars => Control'
<1> SUFFICES ASSUME TypeInv, Control, [Next]_vars PROVE Control'
  OBVIOUS
<1> USE DEF Control
<1>1. ASSUME NEW o \in Saves \cup Others, Call(o) PROVE Control'
  BY <1>1 DEF Call, disk, history, Phases, Planning, Left, Backups, Saving, Touched, Deletes
<1>2. CASE Recover
  <2> USE DEF Recover, disk, history, budgets, Backups, Touched, Deletes
  <2>1. TypeInv /\ tx.phase \in {"none", "capturing", "converging"}
    BY DEF TypeInv, Transactions
  <2>2. Phases'
    BY <1>2, <2>1 DEF Phases, Saving, GotoCleanup, GotoRestore
  <2>3. Planning'
    BY <1>2, <2>1 DEF Planning, Saving, GotoCleanup, GotoRestore
  <2>4. Left'
    BY <1>2 DEF Left, GotoCleanup, GotoRestore
  <2> QED BY <1>2, <2>2, <2>3, <2>4
<1>3. CASE Scan
  <2>1. CASE \E o : Finish(o)
    BY <1>3, <2>1, FinishControl DEF Scan, disk
  <2>2. CASE ~\E o : Finish(o)
    <3>1. tx.phase = "none" /\ UNCHANGED <<tx, selection>>
      BY <1>3 DEF Scan, Phases, disk
    <3>2. \/ pc' = "begin" /\ op.kind = "save" /\ op' = op /\ Removals(plan') \subseteq op.confirmed
          \/ pc' = "apply" /\ op' = op /\ op.kind # "save"
               /\ \E sel : plan' = NonDestructive(Plan(sel))
                           /\ todo' = {p \in Paths : Plan(sel)[p[1]] \in {"add", "update"}} \X Managed
          \/ pc' = "remove" /\ todo' = Paths
      BY <1>3, <2>2 DEF Scan
    <3>3. pc' = "apply" => todo' \subseteq Planned({"add", "update"})' \X Managed
      <4>1. ASSUME NEW sel, plan' = NonDestructive(Plan(sel))
            PROVE  {p \in Paths : Plan(sel)[p[1]] \in {"add", "update"}}
                     \subseteq {p \in Paths : plan'[p[1]] \in {"add", "update"}}
        BY <4>1, PathName DEF NonDestructive
      <4> QED BY <3>2, <4>1 DEF Planned
    <3>4. Phases' /\ Planning' /\ Left' /\ Backups'
      BY <3>1, <3>2, <3>3 DEF Phases, Planning, Left, Backups, Saving
    <3> QED BY <3>4
  <2> QED BY <2>1, <2>2
<1>4. CASE Begin
  <2>1. tx'.phase = "capturing" /\ tx'.prev = selection /\ tx'.next = op.next
        /\ tx'.confirmed = op.confirmed
    BY <1>4 DEF Begin, NoTx
  <2> QED BY <1>4, <2>1 DEF Begin, Phases, Planning, Left, Backups, Saving
<1>5. CASE Capture
  <2>1. CASE pc' = "cleanup"
    BY <1>5, <2>1 DEF Capture, GotoCleanup, Phases, Planning, Left, Backups, Saving
  <2>2. CASE pc' # "cleanup"
    <3> DEFINE h == {p \in Planned({"add", "update", "delete"}) : Exists(live[p])}
    <3>1. /\ tx'.phase = "converging" /\ tx'.kind = plan /\ tx'.has = h /\ tx'.kept = Copied
          /\ tx'.prev = tx.prev /\ tx'.next = tx.next /\ tx'.confirmed = tx.confirmed
      BY <1>5, <2>2 DEF Capture, GotoCleanup, TypeInv, Transactions
    <3>2. pc' = "stage" /\ todo' = h \cap Planned({"delete"})
      BY <1>5, <2>2, <3>1 DEF Capture, GotoCleanup
    <3>3. Copied \subseteq h /\ h \subseteq {p \in Paths : plan[p[1]] # "none"}
      BY DEF Copied, Planned
    <3>4. \A p \in Copied : plan[p[1]] # "delete"
      BY DEF Copied, Planned
    <3>5. todo' \subseteq {p \in h \ Copied : plan[p[1]] = "delete"}
      BY <3>2, <3>4 DEF Planned
    <3> HIDE DEF h
    <3>6. Backups' /\ Left'
      BY <3>1, <3>2, <3>3, <3>4, <3>5 DEF Backups, Left, Deletes, Touched
    <3> QED BY <1>5, <2>2, <3>1, <3>2, <3>6 DEF Capture, Phases, Planning, Saving
  <2> QED BY <2>1, <2>2
<1>6. CASE Stage
  <2>1. CASE UNCHANGED <<live, tx>>
    <3>1. \/ pc' = "restore" /\ todo' = Touched
          \/ pc' = "apply" /\ todo' = Planned({"add", "update"}) \X Managed
          \/ pc' = "stage" /\ todo' \subseteq todo
      BY <1>6, <2>1 DEF Stage, GotoRestore, Touched
    <3>2. op' = op /\ plan' = plan /\ UNCHANGED <<tx, selection>> /\ op.kind = "save"
      BY <1>6, <2>1 DEF Stage, Planning, Saving
    <3>3. Left' /\ Backups'
      BY <1>6, <3>1, <3>2 DEF Stage, Left, Backups, Touched, Planned, Deletes
    <3> QED BY <1>6, <3>1, <3>2, <3>3 DEF Stage, Phases, Planning, Saving
  <2>2. CASE ~UNCHANGED <<live, tx>>
    <3>1. PICK p \in todo : /\ tx' = [tx EXCEPT !.kept = @ \cup {p}, !.backup[p] = live[p]]
                            /\ todo' = todo \ {p}
      BY <1>6, <2>2 DEF Stage
    <3>2. p \in tx.has \ tx.kept /\ Deletes(p)
      BY <1>6 DEF Stage, Left
    <3>3. /\ tx'.kept = tx.kept \cup {p} /\ tx'.has = tx.has /\ tx'.kind = tx.kind
          /\ tx'.phase = tx.phase /\ tx'.prev = tx.prev /\ tx'.next = tx.next
          /\ tx'.confirmed = tx.confirmed
      BY <3>1 DEF TypeInv, Transactions
    <3>4. p[1] \in tx.confirmed
      <4>1. plan = tx.kind /\ Removals(plan) \subseteq tx.confirmed
        BY <1>6 DEF Stage, Planning, Saving
      <4>2. p \in Paths
        BY <3>2 DEF TypeInv, Transactions
      <4> QED BY <3>2, <4>1, <4>2, PathName DEF Removals, Deletes
    <3>5. Left' /\ Backups'
      BY <1>6, <3>1, <3>2, <3>3, <3>4 DEF Stage, Left, Backups, Touched, Deletes, Phases, Saving
    <3>6. pc' = pc /\ op' = op /\ plan' = plan /\ selection' = selection
      BY <1>6, <3>1, <3>2 , <2>2 DEF Stage
    <3> QED BY <1>6, <3>3, <3>5, <3>6 DEF Stage, Phases, Planning, Saving
  <2> QED BY <2>1, <2>2
<1>7. CASE Apply
  <2>1. CASE \E o : Finish(o)
    BY <1>7, <2>1, FinishControl DEF Apply
  <2>2. CASE ~\E o : Finish(o)
    <3>1. UNCHANGED <<tx, selection, op, plan>>
      BY <1>7, <2>2 DEF Apply
    <3>2. \/ pc' = "apply" /\ todo' \subseteq todo
          \/ pc' = "restore" /\ todo' = Touched /\ op.kind = "save"
          \/ pc' = "decide" /\ op.kind = "save"
      BY <1>7, <2>2 DEF Apply, GotoRestore, Touched
    <3>3. Left' /\ Backups'
      BY <1>7, <3>1, <3>2 DEF Apply, Left, Backups, Touched, Planned, Deletes
    <3> QED BY <1>7, <3>1, <3>2, <3>3 DEF Apply, Phases, Planning, Saving
  <2> QED BY <2>1, <2>2
<1>8. CASE Decide
  <2>1. /\ UNCHANGED <<tx, op, plan>>
        /\ \/ pc' = "cleanup" /\ selection' = op.next
           \/ pc' = "restore" /\ todo' = Touched /\ selection' = selection
    BY <1>8 DEF Decide, GotoCleanup, GotoRestore, Touched
  <2>2. tx.next = op.next /\ tx.prev = selection /\ tx.phase = "converging"
    BY <1>8 DEF Decide, Phases, Planning, Saving
  <2>3. Left' /\ Backups'
    BY <1>8, <2>1 DEF Decide, Left, Backups, Touched, Deletes
  <2> QED BY <2>1, <2>2, <2>3 DEF Phases, Planning, Saving
<1>9. CASE Restore
  <2>1. CASE BackupIsMissing
    BY <1>9, <2>1, FinishControl DEF BackupIsMissing, Restore
  <2>2. CASE RestoreEntry
    <3>1. /\ tx'.phase = tx.phase /\ tx'.prev = tx.prev /\ tx'.next = tx.next
          /\ tx'.confirmed = tx.confirmed /\ tx'.kind = tx.kind /\ tx'.has = tx.has
          /\ tx'.kept \subseteq tx.kept
      <4>1. \/ tx' = tx
            \/ \E p \in todo : tx' = [tx EXCEPT !.kept = @ \ {p}]
            \/ \E p \in todo : tx' = [tx EXCEPT !.kept = @ \ {p}, !.aside = @ \cup {p}]
        BY <2>2 DEF RestoreEntry, RestoreDeleted, RestoreSynced, SetAside
      <4>2. tx \in Transactions
        BY DEF TypeInv
      <4> QED BY <4>1, <4>2 DEF Transactions
    <3>2. pc' = pc /\ op' = op /\ plan' = plan /\ todo' \subseteq todo /\ selection' = selection
      BY <1>9, <2>2 DEF Restore, RestoreEntry
    <3>3. Left' /\ Backups'
      BY <1>9, <3>1, <3>2 DEF Restore, Left, Backups, Touched, Deletes
    <3> QED BY <1>9, <3>1, <3>2, <3>3 DEF Restore, Phases, Planning, Saving
  <2>3. CASE pc' = "cleanup" /\ UNCHANGED tx
    <3>1. Left' /\ Backups'
      BY <2>3 DEF Left, Backups, Touched, Deletes
    <3> QED BY <1>9, <2>3, <3>1 DEF Restore, Phases, Planning, Saving
  <2> QED BY <1>9, <2>1, <2>2, <2>3 DEF Restore, GotoCleanup
<1>10. CASE Cleanup
  <2>1. CASE \E o : Finish(o)
    BY <1>10, <2>1, FinishControl DEF Cleanup
  <2>2. CASE pc' = "scan"
    BY <1>10, <2>2 DEF Cleanup, NoTx, Phases, Planning, Left, Backups, Saving
  <2> QED BY <1>10, <2>1, <2>2 DEF Cleanup
<1>11. CASE Remove
  <2>1. CASE \E o : Finish(o)
    BY <1>11, <2>1, FinishControl DEF Remove
  <2>2. CASE pc' = pc /\ todo' \subseteq todo
    BY <1>11, <2>2 DEF Remove, Phases, Planning, Left, Backups, Saving
  <2> QED BY <1>11, <2>1, <2>2 DEF Remove
<1>12. CASE CleanupFails
  BY <1>12, FinishControl DEF CleanupFails, SomeRemoved
<1>13. ASSUME NEW p \in Paths, Edit(p) \/ RemoveLive(p) PROVE Control'
  <2>1. UNCHANGED <<tx, selection, pc, op, plan, todo>>
    BY <1>13 DEF Edit, RemoveLive, task
  <2> QED BY <2>1 DEF Phases, Planning, Left, Backups, Saving, Touched, Deletes, Planned
<1>14. CASE Crash
  BY <1>14, FinishControl DEF Crash, Down, SomeRemoved
<1>15. CASE Start
  BY <1>15 DEF Start, disk, Phases, Planning, Left, Backups, Saving, Touched, Deletes
<1>16. CASE UNCHANGED vars
  <2>1. UNCHANGED <<tx, selection, pc, op, plan, todo>>
    BY <1>16 DEF vars, disk, task
  <2> QED BY <2>1 DEF Phases, Planning, Left, Backups, Saving, Touched, Deletes, Planned
<1> QED
  BY <1>1, <1>2, <1>3, <1>4, <1>5, <1>6, <1>7, <1>8, <1>9, <1>10, <1>11, <1>12, <1>13, <1>14,
     <1>15, <1>16 DEF Next, Step

-----------------------------------------------------------------------------
(* The files of the user *)

LEMMA InitUser == Init => UserInv
<1> SUFFICES ASSUME Init PROVE UserInv
  OBVIOUS
<1>1. \A p \in Paths : live[p].user = 0 /\ tx.backup[p].user = 0
  BY MissingDir DEF Init, Shipped, NoTx
<1> QED
  BY <1>1 DEF Init, UserInv, UserFilesKept, Copies, AtRestore, AtCleanup, Versions, NoTx

(* What is owed to the user is in place, or in the backup of a removal that  *)
(* was confirmed: that is all a committed cleanup drops.                     *)
Confirmed == {tx.backup[p].user : p \in {q \in tx.kept : Deletes(q) /\ q[1] \in tx.confirmed}}

LEMMA OnlyConfirmedAway ==
    ASSUME TypeInv, Control, UserInv
    PROVE  \A v \in owed : InPlace(v) \/ (tx.phase = "converging" /\ v \in Confirmed)
<1>1. SUFFICES ASSUME NEW v \in owed
               PROVE  InPlace(v) \/ (tx.phase = "converging" /\ v \in Confirmed)
  OBVIOUS
<1>2. CASE \E p \in tx.kept : tx.phase = "converging" /\ tx.backup[p].user = v
  <2>1. PICK p \in tx.kept : tx.phase = "converging" /\ tx.backup[p].user = v
    BY <1>2
  <2>2. p \in Paths
    BY <2>1 DEF TypeInv, Transactions
  <2>3. CASE Deletes(p)
    BY <2>1, <2>3 DEF Control, Backups, Confirmed
  <2>4. CASE ~Deletes(p)
    BY <2>1, <2>2, <2>4 DEF UserInv, Copies, InPlace
  <2> QED BY <2>3, <2>4
<1>3. CASE ~\E p \in tx.kept : tx.phase = "converging" /\ tx.backup[p].user = v
  BY <1>3 DEF UserInv, UserFilesKept, Preserved, InPlace
<1> QED BY <1>2, <1>3

(* A restore takes up every backup there is. *)
LEMMA RestoreTakesAll ==
    ASSUME TypeInv, Control, UserInv, tx.phase = "converging"
    PROVE  \A v \in owed : InPlace(v) \/ \E p \in tx.kept \cap Touched : tx.backup[p].user = v
<1>1. tx.kept \subseteq Touched
  BY DEF Control, Backups
<1> QED BY <1>1 DEF UserInv, UserFilesKept, Preserved, InPlace

(* A step that moves no backup and takes no owed file away is harmless.      *)
LEMMA QuietUser ==
    ASSUME UserInv, TypeInv, UNCHANGED <<tx, rescued>>, edits' \in {edits, edits + 1},
           owed' \subseteq owed,
           \A p \in Paths : /\ live[p].user \in owed' => live'[p].user = live[p].user
                            /\ live'[p].user \in {0, live[p].user}
    PROVE  UserFilesKept' /\ Copies' /\ Versions' /\ \A v \in owed' : InPlace(v) => InPlace(v)'
<1> USE DEF UserInv
<1>1. \A v \in owed' : InPlace(v) => InPlace(v)'
  BY DEF InPlace
<1>2. UserFilesKept'
  <2>1. ASSUME NEW v \in owed' PROVE Preserved(v)'
    BY <2>1 DEF UserFilesKept, Preserved
  <2> QED BY <2>1 DEF UserFilesKept
<1>3. Copies'
  BY DEF Copies, Deletes, TypeInv, Transactions
<1>4. Versions'
  <2>1. ASSUME NEW p \in Paths PROVE live'[p].user <= edits' /\ tx'.backup[p].user <= edits'
    <3>1. live[p].user \in Nat /\ tx.backup[p].user \in Nat /\ edits \in Nat
      BY <2>1 DEF TypeInv, Transactions, Dirs
    <3>2. live[p].user <= edits /\ tx.backup[p].user <= edits
      BY <2>1 DEF Versions
    <3>3. live'[p].user \in {0, live[p].user} /\ tx'.backup[p].user = tx.backup[p].user
      BY <2>1
    <3>4. edits <= edits'
      BY <3>1
    <3> QED BY <3>1, <3>2, <3>3, <3>4
  <2> QED BY <2>1 DEF Versions
<1> QED BY <1>1, <1>2, <1>3, <1>4

(* An operation that does not touch the disk.                                *)
LEMMA IdleUser ==
    ASSUME UserInv, TypeInv, UNCHANGED <<live, tx, rescued, edits>>, owed' \subseteq owed,
           pc' \notin {"restore", "cleanup"}
    PROVE  UserInv'
<1>1. UserFilesKept' /\ Copies' /\ Versions'
  BY QuietUser
<1> QED BY <1>1 DEF UserInv, AtRestore, AtCleanup

(* A cleanup that is cut off, by a failure or a crash. *)
LEMMA SomeRemovedUser ==
    ASSUME TypeInv, UserInv, pc = "cleanup", SomeRemoved, UNCHANGED <<live, rescued, edits>>,
           pc' \notin {"restore", "cleanup"}
    PROVE  UserInv'
<1>1. owed' = owed \ Released /\ \A v \in owed' : InPlace(v)'
  BY DEF SomeRemoved, UserInv, AtCleanup, InPlace
<1>2. UserFilesKept'
  BY <1>1 DEF UserFilesKept, Preserved, InPlace
<1>3. tx' \in Transactions /\ tx'.kept \subseteq tx.kept /\ tx'.backup = tx.backup
      /\ tx'.phase = tx.phase /\ tx'.kind = tx.kind
  BY DEF SomeRemoved, TypeInv, Transactions
<1>4. Copies' /\ Versions'
  BY <1>1, <1>3 DEF UserInv, Copies, Versions, Deletes
<1> QED BY <1>2, <1>4 DEF UserInv, AtRestore, AtCleanup
(* What the restore of one directory does to the files of the user: the one  *)
(* in place stays, and the one in its backup comes back or is set aside.     *)
RestoreUser(p) ==
    /\ rescued \subseteq rescued'
    /\ \A q \in Paths : q # p => live'[q] = live[q]
    /\ live[p].user # 0 => live'[p].user = live[p].user
    /\ live'[p].user \in {live[p].user, tx.backup[p].user}
    /\ tx'.kept \in {tx.kept, tx.kept \ {p}}
    /\ tx'.backup = tx.backup /\ tx'.kind = tx.kind /\ tx'.phase = tx.phase
    /\ p \in tx.kept => tx.backup[p].user \in {0, live'[p].user} \cup rescued'

LEMMA RestoreOneUser ==
    ASSUME TypeInv, Control, NEW p \in Paths,
           tx.phase = "converging", live[p] \in Dirs, tx.backup[p] \in Dirs,
           \/ Lost(p) /\ UNCHANGED <<live, tx, rescued>>
           \/ ~Lost(p) /\ Deletes(p) /\ p \in tx.has /\ RestoreDeleted(p)
           \/ ~Lost(p) /\ Deletes(p) /\ p \notin tx.has /\ UNCHANGED <<live, tx, rescued>>
           \/ ~Lost(p) /\ ~Deletes(p) /\ RestoreSynced(p)
    PROVE  RestoreUser(p)
<1>1. tx.kept \subseteq tx.has
  BY DEF Control, Backups
<1>2. CASE UNCHANGED <<live, tx, rescued>> /\ p \notin tx.kept
  BY <1>2 DEF RestoreUser
<1>3. ASSUME NEW d \in Dirs, d.user = live[p].user, live' = [live EXCEPT ![p] = Merge(d, tx.backup[p])],
             IF Conflict(d, tx.backup[p]) THEN SetAside(p) ELSE UNCHANGED <<tx, rescued>>
      PROVE  RestoreUser(p)
  <2> DEFINE b == tx.backup[p]
             m == Merge(d, b)
  <2>1. /\ m \in Dirs
        /\ d.user # 0 => m.user = d.user
        /\ d.user = 0 => m.user = b.user
        /\ ~Conflict(d, b) => b.user \in {0, m.user}
    BY MergeDir
  <2> HIDE DEF m
  <2>2. live'[p] = m /\ \A q \in Paths : q # p => live'[q] = live[q]
    BY <1>3 DEF m, TypeInv
  <2>3. CASE Conflict(d, b)
    <3>1. /\ tx' = [tx EXCEPT !.kept = @ \ {p}, !.aside = @ \cup {p}]
          /\ rescued' = rescued \cup ({b.user} \ {0})
      BY <1>3, <2>3 DEF SetAside
    <3>2. /\ tx'.kept = tx.kept \ {p} /\ tx'.backup = tx.backup /\ tx'.kind = tx.kind
          /\ tx'.phase = tx.phase
      BY <3>1 DEF TypeInv, Transactions
    <3> QED BY <1>3, <2>1, <2>2, <3>1, <3>2 DEF RestoreUser
  <2>4. CASE ~Conflict(d, b)
    BY <1>3, <2>1, <2>2, <2>4 DEF RestoreUser
  <2> QED BY <2>3, <2>4
<1>4. CASE RestoreDeleted(p)
  <2>1. CASE ~Exists(live[p])
    <3>1. live[p].user = 0
      BY <2>1, MissingDir DEF Exists
    <3>2. /\ live' = [live EXCEPT ![p] = tx.backup[p]] /\ tx' = [tx EXCEPT !.kept = @ \ {p}]
          /\ rescued' = rescued
      BY <1>4, <2>1 DEF RestoreDeleted
    <3>3. /\ tx'.kept = tx.kept \ {p} /\ tx'.backup = tx.backup /\ tx'.kind = tx.kind
          /\ tx'.phase = tx.phase
      BY <3>2 DEF TypeInv, Transactions
    <3>4. live'[p] = tx.backup[p] /\ \A q \in Paths : q # p => live'[q] = live[q]
      BY <3>2 DEF TypeInv
    <3> QED BY <3>1, <3>2, <3>3, <3>4 DEF RestoreUser
  <2>2. CASE Exists(live[p])
    BY <1>3, <1>4, <2>2 DEF RestoreDeleted
  <2> QED BY <2>1, <2>2
<1>5. CASE RestoreSynced(p)
  BY <1>3, <1>5, UnsyncedDir DEF RestoreSynced
<1> QED BY <1>1, <1>2, <1>4, <1>5 DEF Lost

LEMMA RestoredUser ==
    ASSUME TypeInv, Control, UserInv, NEW p \in Paths, RestoreUser(p), pc = "restore",
           tx.phase = "converging", todo' = todo \ {p}, UNCHANGED <<owed, edits, pc>>
    PROVE  UserInv'
<1> USE DEF RestoreUser
<1>1. 0 \notin owed /\ tx.kept \subseteq Paths
  BY DEF TypeInv, Transactions
<1>2. \A v \in owed : InPlace(v) => InPlace(v)'
  BY <1>1 DEF InPlace
<1>3. \A v \in owed : tx.backup[p].user = v /\ p \in tx.kept => InPlace(v)'
  BY <1>1 DEF InPlace
<1>4. AtRestore'
  <2>1. ASSUME NEW v \in owed
        PROVE  InPlace(v)' \/ \E q \in tx'.kept \cap todo' : tx'.backup[q].user = v
    <3>1. CASE InPlace(v)
      BY <1>2, <3>1
    <3>2. CASE \E q \in tx.kept \cap todo : tx.backup[q].user = v
      BY <1>3, <3>2
    <3> QED BY <3>1, <3>2 DEF UserInv, AtRestore
  <2> QED BY <2>1 DEF AtRestore
<1>5. UserFilesKept'
  BY <1>4 DEF AtRestore, UserFilesKept, Preserved, InPlace
<1>6. Copies'
  <2>1. ASSUME NEW q \in tx.kept, ~Deletes(q), tx.backup[q].user \in owed
        PROVE  live'[q].user = tx.backup[q].user
    BY <1>1, <2>1 DEF UserInv, Copies
  <2> QED BY <1>1, <2>1 DEF Copies, Deletes
<1>7. Versions'
  BY DEF UserInv, Versions
<1> QED BY <1>4, <1>5, <1>6, <1>7 DEF UserInv, AtCleanup

(* An undo cut off by a crash.                                               *)
LEMMA HalfUndoneUser ==
    ASSUME TypeInv, Control, UserInv, NEW p \in Paths, NEW d, live' = [live EXCEPT ![p] = d],
           live[p].user # 0 => d.user = live[p].user,
           d.user \in {0, live[p].user, tx.backup[p].user},
           UNCHANGED <<tx, owed, rescued, edits>>, pc' = "idle"
    PROVE  UserInv'
<1>1. 0 \notin owed /\ tx.kept \subseteq Paths
  BY DEF TypeInv, Transactions
<1>2. live'[p] = d /\ \A q \in Paths : q # p => live'[q] = live[q]
  BY DEF TypeInv
<1>3. \A q \in Paths : live[q].user \in owed => live'[q].user = live[q].user
  BY <1>1, <1>2
<1>4. UserFilesKept'
  <2>1. ASSUME NEW v \in owed PROVE Preserved(v)'
    BY <1>3, <2>1 DEF UserInv, UserFilesKept, Preserved
  <2> QED BY <2>1 DEF UserFilesKept
<1>5. Copies'
  BY <1>1, <1>3 DEF UserInv, Copies, Deletes
<1>6. Versions'
  BY <1>2 DEF UserInv, Versions, TypeInv
<1> QED BY <1>4, <1>5, <1>6 DEF UserInv, AtRestore, AtCleanup

(* A new version is in place, and no backup has it.                          *)
LEMMA EditUser == ASSUME TypeInv, UserInv, NEW p \in Paths, Edit(p) PROVE UserInv'
<1>1. PICK w : /\ w = edits + 1 /\ edits' = w
               /\ UNCHANGED <<tx, rescued, selection, pc, todo>>
               /\ live' = [live EXCEPT ![p].user = w]
               /\ owed' = (owed \ {live[p].user}) \cup {w}
  BY DEF Edit, task
<1>2. live'[p].user = w /\ \A q \in Paths : q # p => live'[q] = live[q]
  BY <1>1 DEF TypeInv, Dirs
<1>3. \A v \in owed' : v # w => v \in owed /\ v # live[p].user
  BY <1>1
<1>4. InPlace(w)'
  BY <1>2 DEF InPlace
<1>5. \A v \in owed' : v # w => (InPlace(v) => InPlace(v)')
  BY <1>1, <1>2, <1>3 DEF InPlace
<1>6. UserFilesKept'
  <2>1. ASSUME NEW v \in owed' PROVE Preserved(v)'
    <3>1. CASE v = w
      BY <1>2, <3>1 DEF Preserved
    <3>2. CASE v # w
      BY <1>1, <1>2, <1>3, <2>1, <3>2 DEF UserInv, UserFilesKept, Preserved
    <3> QED BY <3>1, <3>2
  <2> QED BY <2>1 DEF UserFilesKept
<1>7. \A q \in Paths : tx.backup[q].user # w /\ tx.backup[q].user <= w
  <2>1. ASSUME NEW q \in Paths PROVE tx.backup[q].user # w /\ tx.backup[q].user <= w
    <3>1. tx.backup[q].user \in Nat /\ edits \in Nat
      BY DEF TypeInv, Transactions, Dirs
    <3>2. tx.backup[q].user <= edits
      BY DEF UserInv, Versions
    <3> QED BY <1>1, <3>1, <3>2
  <2> QED BY <2>1
<1>8. Copies'
  <2>1. ASSUME NEW q \in tx.kept, tx.phase = "converging", ~Deletes(q), tx.backup[q].user \in owed'
        PROVE  live'[q].user = tx.backup[q].user
    <3>1. q \in Paths
      BY DEF TypeInv, Transactions
    <3>2. tx.backup[q].user \in owed /\ tx.backup[q].user # live[p].user
      BY <1>3, <1>7, <2>1, <3>1
    <3>3. live[q].user = tx.backup[q].user
      BY <2>1, <3>2 DEF UserInv, Copies
    <3> QED BY <1>2, <3>1, <3>2, <3>3
  <2> QED BY <1>1, <2>1 DEF Copies, Deletes
<1>9. Versions'
  <2>1. ASSUME NEW q \in Paths PROVE live'[q].user <= w
    <3>1. live[q].user \in Nat /\ edits \in Nat /\ live[q].user <= edits
      BY DEF TypeInv, Dirs, UserInv, Versions
    <3> QED BY <1>1, <1>2, <3>1
  <2> QED BY <1>1, <1>7, <2>1 DEF Versions
<1>10. AtRestore' /\ AtCleanup'
  BY <1>1, <1>3, <1>4, <1>5 DEF UserInv, AtRestore, AtCleanup, Released, Deletes
<1> QED BY <1>6, <1>8, <1>9, <1>10 DEF UserInv

LEMMA UserStep == TypeInv /\ Control /\ UserInv /\ [Next]_vars => UserInv'
<1> SUFFICES ASSUME TypeInv, Control, UserInv, [Next]_vars PROVE UserInv'
  OBVIOUS
<1>1. ASSUME NEW o \in Saves \cup Others, Call(o) PROVE UserInv'
  BY <1>1, IdleUser DEF Call, disk, history
<1>2. CASE Recover
  <2>1. UNCHANGED <<live, tx, rescued, selection, owed, edits>>
    BY <1>2 DEF Recover, disk, history, budgets
  <2>2. UserFilesKept' /\ Copies' /\ Versions'
    BY <2>1, QuietUser
  <2>3. AtRestore'
    <3>1. CASE pc' = "restore"
      <4>1. tx.phase = "converging" /\ todo' = Touched
        BY <1>2, <3>1 DEF Recover, GotoRestore, GotoCleanup, Touched
      <4> QED BY <2>1, <4>1, RestoreTakesAll DEF AtRestore, InPlace
    <3> QED BY <3>1 DEF AtRestore
  <2>4. AtCleanup'
    <3>1. CASE pc' = "cleanup"
      <4>1. selection = tx.next \/ tx.phase = "capturing"
        BY <1>2, <3>1 DEF Recover, GotoRestore, GotoCleanup
      <4> QED BY <2>1, <4>1, OnlyConfirmedAway DEF AtCleanup, InPlace, Released, Confirmed, Deletes
    <3> QED BY <3>1 DEF AtCleanup
  <2> QED BY <2>2, <2>3, <2>4 DEF UserInv
<1>3. CASE Scan
  BY <1>3, IdleUser DEF Scan, Finish, disk, history, budgets
<1>4. CASE Begin
  <2>1. tx.phase = "none" /\ tx'.phase = "capturing" /\ \A p \in Paths : tx'.backup[p].user = 0
    BY <1>4, MissingDir DEF Begin, Control, Phases, NoTx
  <2>2. UNCHANGED <<live, rescued, owed, edits>> /\ pc' = "capture"
    BY <1>4 DEF Begin, history, budgets
  <2>3. UserFilesKept' /\ Copies' /\ Versions'
    BY <2>1, <2>2 DEF UserInv, UserFilesKept, Copies, Versions, Preserved, TypeInv
  <2> QED BY <2>2, <2>3 DEF UserInv, AtRestore, AtCleanup
<1>5. CASE Capture
  <2>1. UNCHANGED <<live, rescued, selection, owed, edits>> /\ tx.phase = "capturing"
    BY <1>5 DEF Capture, Control, Phases
  <2>2. \A v \in owed : InPlace(v)
    BY <2>1, OnlyConfirmedAway
  <2>3. \A v \in owed' : InPlace(v)'
    BY <2>1, <2>2 DEF InPlace
  <2>4. UserFilesKept' /\ AtRestore' /\ AtCleanup'
    BY <2>3 DEF UserFilesKept, AtRestore, AtCleanup, Preserved, InPlace
  <2>5. CASE tx' = tx
    BY <2>1, <2>4, <2>5, QuietUser DEF UserInv
  <2>6. CASE tx' # tx
    <3>1. /\ tx'.kept = Copied
          /\ tx'.backup = [p \in Paths |-> IF p \in Copied THEN live[p] ELSE Missing]
      BY <1>5, <2>6 DEF Capture, TypeInv, Transactions
    <3>2. Copied \subseteq Paths
      BY DEF Copied, Planned
    <3>3. Copies' /\ Versions'
      BY <2>1, <3>1, <3>2, MissingDir DEF UserInv, Copies, Versions, TypeInv
    <3> QED BY <2>4, <3>3 DEF UserInv
  <2> QED BY <2>5, <2>6
<1>6. CASE Stage
  <2>1. CASE UNCHANGED <<live, tx>>
    <3>1. UserFilesKept' /\ Copies' /\ Versions'
      BY <1>6, <2>1, QuietUser DEF Stage, history
    <3>2. pc' \in {"stage", "apply", "restore"} /\ (pc' = "restore" => todo' = Touched)
      BY <1>6, <2>1 DEF Stage, GotoRestore, Touched
    <3>3. AtRestore'
      <4>1. tx.phase = "converging" /\ UNCHANGED <<live, tx, rescued, owed>>
        BY <1>6, <2>1 DEF Stage, Control, Phases, Saving, history
      <4> QED BY <3>2, <4>1, RestoreTakesAll DEF AtRestore, InPlace
    <3> QED BY <3>1, <3>2, <3>3 DEF UserInv, AtCleanup
  <2>2. CASE ~UNCHANGED <<live, tx>>
    <3>1. PICK p \in todo : /\ tx' = [tx EXCEPT !.kept = @ \cup {p}, !.backup[p] = live[p]]
                            /\ live' = [live EXCEPT ![p] = Missing]
      BY <1>6, <2>2 DEF Stage
    <3>2. p \in tx.has \ tx.kept /\ p \in Paths /\ Deletes(p) /\ tx.phase = "converging"
      BY <1>6 DEF Stage, Control, Left, Phases, Saving, TypeInv, Transactions
    <3>3. /\ tx'.kept = tx.kept \cup {p} /\ tx'.backup = [tx.backup EXCEPT ![p] = live[p]]
          /\ tx'.phase = "converging" /\ tx'.kind = tx.kind
      BY <3>1, <3>2 DEF TypeInv, Transactions
    <3>4. tx'.backup[p] = live[p] /\ \A q \in Paths : q # p => tx'.backup[q] = tx.backup[q]
                                                             /\ live'[q] = live[q]
      BY <3>1, <3>2, <3>3 DEF TypeInv, Transactions
    <3>5. UNCHANGED <<rescued, owed, edits, pc>>
      BY <1>6, <2>2 DEF Stage, history
    <3>6. UserFilesKept'
      <4>1. ASSUME NEW v \in owed PROVE Preserved(v)'
        <5>1. CASE v \in rescued
          BY <3>5, <5>1 DEF Preserved
        <5>2. CASE \E q \in Paths : live[q].user = v
          BY <3>2, <3>3, <3>4, <5>2 DEF Preserved
        <5>3. CASE \E q \in tx.kept : tx.backup[q].user = v
          <6>1. tx.kept \subseteq Paths
            BY DEF TypeInv, Transactions
          <6> QED BY <3>2, <3>3, <3>4, <5>3, <6>1 DEF Preserved
        <5> QED BY <5>1, <5>2, <5>3 DEF UserInv, UserFilesKept, Preserved
      <4> QED BY <3>5, <4>1 DEF UserFilesKept
    <3>7. Copies'
      <4>1. tx.kept \subseteq Paths
        BY DEF TypeInv, Transactions
      <4> QED BY <3>2, <3>3, <3>4, <3>5, <4>1 DEF UserInv, Copies, Deletes
    <3>8. Versions'
      BY <3>1, <3>2, <3>4, <3>5, MissingDir DEF UserInv, Versions, TypeInv
    <3> QED BY <1>6, <3>5, <3>6, <3>7, <3>8 DEF Stage, UserInv, AtRestore, AtCleanup
  <2> QED BY <2>1, <2>2
<1>7. CASE Apply
  <2>1. \A p \in Paths : live'[p].user = live[p].user
    <3>1. ASSUME NEW f \in todo, live' = [live EXCEPT ![f[1]].managed[f[2]] = "bundled"],
                 NEW p \in Paths
          PROVE  live'[p].user = live[p].user
      <4>1. live[p] \in Dirs
        BY DEF TypeInv
      <4>2. live' = [live EXCEPT ![f[1]] = [@ EXCEPT !.managed[f[2]] = "bundled"]]
        BY <3>1
      <4> QED BY <4>1, <4>2 DEF TypeInv, Dirs
    <3> QED BY <1>7, <3>1 DEF Apply
  <2>2. UNCHANGED <<tx, rescued, owed, edits>>
    BY <1>7 DEF Apply, history
  <2>3. UserFilesKept' /\ Copies' /\ Versions' /\ \A v \in owed : InPlace(v) => InPlace(v)'
    BY <2>1, <2>2, QuietUser
  <2>4. pc' # "cleanup" /\ (pc' = "restore" => todo' = Touched /\ tx.phase = "converging")
    BY <1>7 DEF Apply, GotoRestore, Finish, Touched, Control, Phases, Saving
  <2>5. AtRestore'
    BY <2>2, <2>3, <2>4, RestoreTakesAll DEF AtRestore
  <2> QED BY <2>3, <2>4, <2>5 DEF UserInv, AtCleanup
<1>8. CASE Decide
  <2>1. UNCHANGED <<live, tx, rescued, owed, edits>> /\ tx.phase = "converging"
        /\ tx.next = op.next
    BY <1>8 DEF Decide, history, Control, Phases, Planning, Saving
  <2>2. UserFilesKept' /\ Copies' /\ Versions'
    BY <2>1, QuietUser
  <2>3. \/ pc' = "cleanup" /\ selection' = tx.next
        \/ pc' = "restore" /\ todo' = Touched
    BY <1>8, <2>1 DEF Decide, GotoCleanup, GotoRestore, Touched
  <2>4. AtRestore'
    BY <2>1, <2>3, RestoreTakesAll DEF AtRestore, InPlace
  <2>5. AtCleanup'
    BY <2>1, <2>3, OnlyConfirmedAway DEF AtCleanup, InPlace, Released, Confirmed, Deletes
  <2> QED BY <2>2, <2>4, <2>5 DEF UserInv
<1>9. CASE Restore
  <2>1. CASE BackupIsMissing
    BY <1>9, <2>1, IdleUser DEF Restore, BackupIsMissing, Finish, history, budgets
  <2>2. CASE RestoreEntry
    <3>1. UNCHANGED <<owed, edits, pc>> /\ pc = "restore" /\ tx.phase = "converging"
      BY <1>9, <2>2 DEF Restore, RestoreEntry, history, budgets, Control, Phases
    <3>2. PICK p \in todo :
             /\ todo' = todo \ {p}
             /\ \/ Lost(p) /\ (Deletes(p) \/ p \in tx.aside) /\ UNCHANGED <<live, tx, rescued>>
                \/ ~Lost(p) /\ Deletes(p) /\ p \in tx.has /\ RestoreDeleted(p)
                \/ ~Lost(p) /\ Deletes(p) /\ p \notin tx.has /\ UNCHANGED <<live, tx, rescued>>
                \/ ~Lost(p) /\ ~Deletes(p) /\ RestoreSynced(p)
      BY <2>2 DEF RestoreEntry
    <3>3. p \in Paths /\ live[p] \in Dirs /\ tx.backup[p] \in Dirs
      BY <3>1 DEF Control, Left, Touched, TypeInv, Transactions
    <3>4. RestoreUser(p)
      BY <3>1, <3>2, <3>3, RestoreOneUser
    <3> QED BY <3>1, <3>2, <3>3, <3>4, RestoredUser
  <2>3. CASE todo = {} /\ pc' = "cleanup" /\ UNCHANGED <<live, tx, rescued>>
    <3>1. UNCHANGED <<owed, edits>> /\ pc = "restore"
      BY <1>9 DEF Restore, history, budgets
    <3>2. UserFilesKept' /\ Copies' /\ Versions'
      BY <2>3, <3>1, QuietUser
    <3> QED BY <2>3, <3>1, <3>2 DEF UserInv, AtRestore, AtCleanup, InPlace
  <2> QED BY <1>9, <2>1, <2>2, <2>3 DEF Restore, GotoCleanup
<1>10. CASE Cleanup
  <2>1. /\ pc = "cleanup" /\ pc' \notin {"restore", "cleanup"} /\ tx' = NoTx
        /\ owed' = owed \ Released /\ UNCHANGED <<live, rescued, edits>>
    BY <1>10 DEF Cleanup, Finish, budgets
  <2>2. \A v \in owed' : InPlace(v)'
    BY <2>1 DEF UserInv, AtCleanup, InPlace
  <2>3. UserFilesKept' /\ Copies' /\ Versions'
    BY <2>1, <2>2, MissingDir DEF UserFilesKept, Copies, Preserved, InPlace, NoTx, UserInv,
       Versions, TypeInv
  <2> QED BY <2>1, <2>3 DEF UserInv, AtRestore, AtCleanup
<1>11. CASE Remove
  <2>1. UNCHANGED <<tx, rescued, edits>> /\ pc' \notin {"restore", "cleanup"}
    BY <1>11 DEF Remove, Finish, budgets
  <2>2. /\ owed' \subseteq owed
        /\ \A p \in Paths : /\ live[p].user \in owed' => live'[p].user = live[p].user
                            /\ live'[p].user \in {0, live[p].user}
    <3>1. CASE UNCHANGED <<live, owed>>
      BY <3>1
    <3>2. ASSUME NEW p \in todo, live' = [live EXCEPT ![p] = Missing],
                 owed' = owed \ {live[p].user}
          PROVE  <2>2!1 /\ <2>2!2
      BY <3>2, MissingDir DEF TypeInv
    <3> QED BY <1>11, <3>1, <3>2 DEF Remove
  <2>3. UserFilesKept' /\ Copies' /\ Versions'
    BY <2>1, <2>2, QuietUser
  <2> QED BY <2>1, <2>3 DEF UserInv, AtRestore, AtCleanup
<1>12. CASE CleanupFails
  <2>1. CASE SomeRemoved
    BY <1>12, <2>1, SomeRemovedUser DEF CleanupFails, Finish
  <2>2. CASE UNCHANGED <<tx, owed>>
    BY <1>12, <2>2, IdleUser DEF CleanupFails, Finish
  <2> QED BY <1>12, <2>1, <2>2 DEF CleanupFails
<1>13. ASSUME NEW p \in Paths, Edit(p) PROVE UserInv'
  BY <1>13, EditUser
<1>14. ASSUME NEW p \in Paths, RemoveLive(p) PROVE UserInv'
  <2>1. /\ UNCHANGED <<tx, rescued, selection, pc, todo>> /\ edits' = edits + 1
        /\ live' = [live EXCEPT ![p] = Missing] /\ owed' = owed \ {live[p].user}
    BY <1>14 DEF RemoveLive, task
  <2>2. UserFilesKept' /\ Copies' /\ Versions' /\ \A v \in owed' : InPlace(v) => InPlace(v)'
    BY <2>1, QuietUser, MissingDir DEF TypeInv
  <2>3. AtRestore' /\ AtCleanup'
    BY <2>1, <2>2 DEF UserInv, AtRestore, AtCleanup, Released, Deletes
  <2> QED BY <2>2, <2>3 DEF UserInv
<1>15. CASE Crash
  <2>1. pc' = "idle" /\ UNCHANGED <<rescued, edits>>
    BY <1>15 DEF Crash, Down, Finish
  <2>2. CASE UNCHANGED <<live, tx, owed>>
    BY <2>1, <2>2, IdleUser
  <2>3. CASE pc = "cleanup" /\ SomeRemoved /\ UNCHANGED live
    BY <2>1, <2>3, SomeRemovedUser
  <2>4. ASSUME pc = "restore", NEW p \in todo, ~Lost(p), ~Deletes(p), NEW d,
               d \in HalfUndone(live[p], tx.backup[p]), live' = [live EXCEPT ![p] = d],
               UNCHANGED <<tx, owed>>
        PROVE  UserInv'
    <3>1. p \in Paths /\ live[p] \in Dirs /\ tx.backup[p] \in Dirs
      BY <2>4 DEF Control, Left, Touched, TypeInv, Transactions
    <3>2. d \in Dirs /\ (live[p].user # 0 => d.user = live[p].user)
          /\ d.user \in {0, live[p].user, tx.backup[p].user}
      BY <2>4, <3>1, HalfUndoneDir
    <3> QED BY <2>1, <2>4, <3>1, <3>2, HalfUndoneUser
  <2> QED BY <1>15, <2>2, <2>3, <2>4 DEF Crash
<1>16. CASE Start
  BY <1>16, IdleUser DEF Start, disk, history, budgets
<1>17. CASE UNCHANGED vars
  <2>1. UNCHANGED <<live, tx, rescued, selection, owed, edits, pc, todo>>
    BY <1>17 DEF vars, disk, task, history, budgets
  <2>2. UserFilesKept' /\ Copies' /\ Versions'
    BY <2>1, QuietUser
  <2> QED BY <2>1, <2>2 DEF UserInv, AtRestore, AtCleanup, InPlace, Released, Deletes
<1> QED
  BY <1>1, <1>2, <1>3, <1>4, <1>5, <1>6, <1>7, <1>8, <1>9, <1>10, <1>11, <1>12, <1>13, <1>14,
     <1>15, <1>16, <1>17 DEF Next, Step

-----------------------------------------------------------------------------
(* The directories nobody else touched *)

LEMMA NotConverging ==
    ASSUME tx.phase # "converging", ~Saving PROVE AtomicInv
  BY DEF AtomicInv, Committed, RollingBack, Undo, Undone, Complete

LEMMA InitAtomic == Init => AtomicInv
  BY NotConverging DEF Init, NoTx, Saving

(* A step that touches no directory but those the user touches.              *)
LEMMA QuietAtomic ==
    ASSUME AtomicInv, UNCHANGED <<tx, selection, before>>, edited \subseteq edited',
           \A p \in Paths \ edited' : live'[p] = live[p]
    PROVE  /\ Undo'
           /\ pc' \in {"idle", "recover", "cleanup"} \/ selection = tx.prev
                 \/ selection # tx.next \/ tx.phase # "converging" => Committed'
           /\ RollingBack' = RollingBack
<1> USE DEF AtomicInv
<1>1. \A p \in Paths \ edited' : Undoable(p) => Undoable(p)'
  BY DEF Undoable, Deletes, Synced, Lost
<1>2. Undo'
  BY <1>1 DEF Undo, RollingBack
<1>3. \A p \in Paths \ edited' : Wanted(p, tx.next) => Wanted(p, tx.next)'
  BY DEF Wanted
<1>4. ASSUME pc' \in {"idle", "recover", "cleanup"} \/ selection = tx.prev
                 \/ selection # tx.next \/ tx.phase # "converging"
      PROVE  Committed'
  BY <1>3, <1>4 DEF Committed
<1> QED BY <1>2, <1>4 DEF RollingBack

(* An operation that does no more than end, or begin.                        *)
LEMMA IdleAtomic ==
    ASSUME AtomicInv, UNCHANGED <<tx, selection, before, live, edited>>,
           pc' \in {"idle", "recover"}
    PROVE  AtomicInv'
<1>1. Undo' /\ Committed'
  BY QuietAtomic
<1> QED BY <1>1 DEF AtomicInv, Undone, Complete, Saving

(* A save that gives up has every directory it may have touched to restore.  *)
LEMMA GiveUpAtomic ==
    ASSUME AtomicInv, UNCHANGED <<tx, selection, before, live, edited>>, selection = tx.prev,
           pc' = "restore", todo' = Touched
    PROVE  AtomicInv'
<1>1. Undo' /\ Committed' /\ RollingBack' = RollingBack
  BY QuietAtomic
<1>2. Undone'
  BY <1>1 DEF AtomicInv, Undone, Undo, Undoable, Touched
<1> QED BY <1>1, <1>2 DEF AtomicInv, Complete, Saving

(* Backups may go once what they are the backups of is as it was.            *)
LEMMA SomeRemovedAtomic ==
    ASSUME TypeInv, AtomicInv, pc = "cleanup", SomeRemoved, pc' = "idle",
           UNCHANGED <<live, selection, before, edited>>
    PROVE  AtomicInv'
<1>1. /\ tx'.kept \subseteq tx.kept /\ tx'.backup = tx.backup /\ tx'.kind = tx.kind
      /\ tx'.phase = tx.phase /\ tx'.next = tx.next /\ tx'.prev = tx.prev /\ tx'.has = tx.has
  BY DEF SomeRemoved, TypeInv, Transactions
<1>2. Committed'
  BY <1>1 DEF AtomicInv, Committed, Wanted
<1>3. Undo'
  <2>1. ASSUME RollingBack, NEW p \in Paths \ edited PROVE Undoable(p)'
    BY <1>1, <2>1 DEF AtomicInv, Undo, Undone, Undoable, Deletes, Synced, Lost
  <2> QED BY <1>1, <2>1 DEF Undo, RollingBack
<1> QED BY <1>2, <1>3 DEF AtomicInv, Undone, Complete, Saving

(* The restore of one directory that nobody else touched.                    *)
LEMMA RestoreOneAtomic ==
    ASSUME TypeInv, Control, AtomicInv, NEW p \in Paths, tx.phase = "converging",
           p \notin edited => Undoable(p), RollingBack,
           tx.kind[p[1]] # "none",
           \/ Lost(p) /\ UNCHANGED <<live, tx, rescued>>
           \/ ~Lost(p) /\ Deletes(p) /\ p \in tx.has /\ RestoreDeleted(p)
           \/ ~Lost(p) /\ Deletes(p) /\ p \notin tx.has /\ UNCHANGED <<live, tx, rescued>>
           \/ ~Lost(p) /\ ~Deletes(p) /\ RestoreSynced(p)
    PROVE  /\ \A q \in Paths : q # p => live'[q] = live[q]
           /\ tx'.kept \in {tx.kept, tx.kept \ {p}}
           /\ tx'.backup = tx.backup /\ tx'.kind = tx.kind /\ tx'.phase = tx.phase
           /\ tx'.next = tx.next /\ tx'.prev = tx.prev /\ tx'.has = tx.has
           /\ p \notin edited => live'[p] = before[p]
<1> DEFINE b == tx.backup[p]
<1>1. b \in Dirs /\ live[p] \in Dirs /\ before[p] \in Dirs /\ tx.kept \subseteq tx.has
  BY DEF TypeInv, Transactions, Control, Backups
<1>2. \/ tx' = tx
      \/ tx' = [tx EXCEPT !.kept = @ \ {p}]
      \/ tx' = [tx EXCEPT !.kept = @ \ {p}, !.aside = @ \cup {p}]
  BY DEF RestoreDeleted, RestoreSynced, SetAside
<1>3. /\ tx'.kept \in {tx.kept, tx.kept \ {p}}
      /\ tx'.backup = tx.backup /\ tx'.kind = tx.kind /\ tx'.phase = tx.phase
      /\ tx'.next = tx.next /\ tx'.prev = tx.prev /\ tx'.has = tx.has
  BY <1>2 DEF TypeInv, Transactions
<1>4. \/ live' = live
      \/ \E d : live' = [live EXCEPT ![p] = d]
  BY DEF RestoreDeleted, RestoreSynced
<1>5. \A q \in Paths : q # p => live'[q] = live[q]
  BY <1>4 DEF TypeInv
<1>6. ASSUME p \notin edited PROVE live'[p] = before[p]
  <2> USE <1>6
  <2>1. Synced(p) \/ Deletes(p)
    BY PathName DEF Synced, Deletes, TypeInv, Transactions, Kinds
  <2>2. CASE (Lost(p) \/ Deletes(p)) /\ p \notin tx.kept /\ UNCHANGED live
    BY <2>1, <2>2 DEF Undoable, Lost
  <2>3. CASE Deletes(p) /\ p \in tx.kept /\ RestoreDeleted(p)
    <3>1. b = before[p] /\ live[p] \in {Missing, before[p]}
      BY <2>3 DEF Undoable
    <3>2. Exists(live[p]) => Merge(live[p], b) = before[p]
      BY <1>1, <3>1, MergeSame DEF Exists
    <3> QED BY <2>3, <3>1, <3>2 DEF RestoreDeleted, TypeInv
  <2>4. CASE Synced(p) /\ RestoreSynced(p)
    <3>1. b = before[p] /\ Between(live[p], b)
      BY <2>4 DEF Undoable
    <3>2. Merge(Unsynced(live[p], b), b) = before[p]
      BY <1>1, <3>1, UndoneDir
    <3> QED BY <2>4, <3>2 DEF RestoreSynced, TypeInv
  <2> QED BY <1>1, <2>1, <2>2, <2>3, <2>4 DEF Lost, Synced, Deletes
<1> QED BY <1>3, <1>5, <1>6
LEMMA AtomicStep == TypeInv /\ Control /\ AtomicInv /\ [Next]_vars => AtomicInv'
<1> SUFFICES ASSUME TypeInv, Control, AtomicInv, [Next]_vars PROVE AtomicInv'
  OBVIOUS
<1>1. ASSUME NEW o \in Saves \cup Others, Call(o) PROVE AtomicInv'
  BY <1>1, IdleAtomic DEF Call, disk, history
<1>2. CASE Recover
  <2>1. UNCHANGED <<live, tx, selection, before, edited, op>>
    BY <1>2 DEF Recover, disk, history, budgets
  <2>2. \/ pc' = "scan" /\ tx.phase = "none"
        \/ pc' = "cleanup" /\ (selection = tx.next \/ tx.phase = "capturing")
        \/ pc' = "restore" /\ selection # tx.next /\ todo' = Touched
    BY <1>2 DEF Recover, GotoCleanup, GotoRestore, Touched
  <2>3. Undo' /\ Committed' /\ RollingBack' = RollingBack
    BY <2>1, <2>2, QuietAtomic
  <2>4. Undone'
    BY <2>1, <2>2, <2>3 DEF AtomicInv, Undone, Undo, Undoable, Touched, RollingBack
  <2> QED BY <2>2, <2>3, <2>4 DEF AtomicInv, Complete, Saving
<1>3. CASE Scan
  <2>1. tx'.phase = "none"
    BY <1>3 DEF Scan, Control, Phases, disk
  <2>2. ~Saving'
    BY <1>3 DEF Scan, Finish, Saving
  <2> QED BY <2>1, <2>2, NotConverging DEF AtomicInv, Committed, RollingBack, Undo, Undone, Complete
<1>4. CASE Begin
  <2>1. tx'.phase = "capturing" /\ ~Saving'
    BY <1>4 DEF Begin, NoTx, Saving
  <2> QED BY <2>1 DEF AtomicInv, Committed, RollingBack, Undo, Undone, Complete
<1>5. CASE Capture
  <2>1. CASE pc' = "cleanup"
    <3>1. tx'.phase = "capturing" /\ ~Saving'
      BY <1>5, <2>1 DEF Capture, Control, Phases, Saving
    <3> QED BY <3>1 DEF AtomicInv, Committed, RollingBack, Undo, Undone, Complete
  <2>2. CASE pc' # "cleanup"
    <3> DEFINE h == {p \in Planned({"add", "update", "delete"}) : Exists(live[p])}
    <3>1. /\ tx'.phase = "converging" /\ tx'.kind = plan /\ tx'.has = h /\ tx'.kept = Copied
          /\ tx'.prev = tx.prev /\ tx'.next = tx.next
          /\ tx'.backup = [p \in Paths |-> IF p \in Copied THEN live[p] ELSE Missing]
      BY <1>5, <2>2 DEF Capture, GotoCleanup, TypeInv, Transactions
    <3>2. /\ pc' = "stage" /\ before' = live /\ live' = live /\ edited' = {}
          /\ selection' = selection /\ tx.prev = selection
      BY <1>5, <2>2 DEF Capture, GotoCleanup, Control, Planning
    <3>3. \A p \in Paths : Undoable(p)'
      <4>1. ASSUME NEW p \in Paths PROVE Undoable(p)'
        <5>1. p \in Copied <=> plan[p[1]] \in {"add", "update"} /\ live[p] # Missing
          BY DEF Copied, Planned, Exists
        <5>2. tx'.backup[p] = IF p \in Copied THEN live[p] ELSE Missing
          BY <3>1
        <5>3. Between(live[p], live[p])
          BY DEF Between
        <5> HIDE DEF h
        <5> QED BY <3>1, <3>2, <5>1, <5>2, <5>3 DEF Undoable, Deletes, Synced
      <4> QED BY <4>1
    <3>4. Complete'
      BY <3>1 DEF Complete, Synced, Copied, Planned
    <3> HIDE DEF h
    <3>5. Committed' /\ Undone'
      BY <3>1, <3>2 DEF Committed, Undone
    <3> QED BY <3>3, <3>4, <3>5 DEF AtomicInv, Undo
  <2> QED BY <2>1, <2>2
<1>6. CASE Stage
  <2>1. UNCHANGED <<selection, before, edited, op>> /\ selection = tx.prev
    BY <1>6 DEF Stage, history, Control, Planning, Saving
  <2>2. CASE UNCHANGED <<live, tx>>
    <3>1. \/ pc' = "restore" /\ todo' = Touched
          \/ pc' \in {"stage", "apply"}
      BY <1>6, <2>2 DEF Stage, GotoRestore, Touched
    <3>2. CASE pc' \in {"stage", "apply"}
      <4>1. Undo' /\ Committed'
        BY <2>1, <2>2, QuietAtomic
      <4> QED BY <1>6, <2>2, <3>2, <4>1 DEF AtomicInv, Undone, Complete, Stage, Saving, Synced
    <3> QED BY <2>1, <2>2, <3>1, <3>2, GiveUpAtomic
  <2>3. CASE ~UNCHANGED <<live, tx>>
    <3>1. PICK p \in todo : /\ tx' = [tx EXCEPT !.kept = @ \cup {p}, !.backup[p] = live[p]]
                            /\ live' = [live EXCEPT ![p] = Missing]
      BY <1>6, <2>3 DEF Stage
    <3>2. p \in tx.has \ tx.kept /\ p \in Paths /\ Deletes(p) /\ pc' = pc
      BY <1>6, <2>3 DEF Stage, Control, Left, Phases, Saving, TypeInv, Transactions
    <3>3. /\ tx'.kept = tx.kept \cup {p} /\ tx'.backup = [tx.backup EXCEPT ![p] = live[p]]
          /\ tx'.phase = tx.phase /\ tx'.kind = tx.kind /\ tx'.has = tx.has
          /\ tx'.next = tx.next /\ tx'.prev = tx.prev
      BY <3>1, <3>2 DEF TypeInv, Transactions
    <3>4. /\ tx'.backup[p] = live[p] /\ live'[p] = Missing
          /\ \A q \in Paths : q # p => tx'.backup[q] = tx.backup[q] /\ live'[q] = live[q]
      BY <3>1, <3>2, <3>3 DEF TypeInv, Transactions
    <3>5. Undo'
      <4>1. ASSUME RollingBack, NEW q \in Paths \ edited PROVE Undoable(q)'
        <5>1. Undoable(q)
          BY <4>1 DEF AtomicInv, Undo
        <5>2. CASE q = p
          BY <2>1, <3>2, <3>3, <3>4, <5>1, <5>2 DEF Undoable, Deletes, Synced
        <5>3. CASE q # p
          BY <2>1, <3>3, <3>4, <5>1, <5>3 DEF Undoable, Deletes, Synced, Lost
        <5> QED BY <5>2, <5>3
      <4> QED BY <2>1, <3>3, <4>1 DEF Undo, RollingBack
    <3>6. Committed' /\ Undone' /\ Complete'
      BY <1>6, <2>1, <3>2, <3>3 DEF Stage, Committed, Undone, Complete, Saving, Synced, AtomicInv
    <3> QED BY <3>5, <3>6 DEF AtomicInv
  <2> QED BY <2>2, <2>3
<1>7. CASE Apply
  <2>1. UNCHANGED <<tx, selection, before, edited>>
    BY <1>7 DEF Apply, history
  <2>2. CASE op.kind # "save"
    <3>1. tx'.phase = "none"
      BY <1>7, <2>1, <2>2 DEF Apply, Control, Phases
    <3>2. ~Saving'
      BY <1>7, <2>2 DEF Apply, Finish, Saving
    <3> QED BY <3>1, <3>2 DEF AtomicInv, Committed, RollingBack, Undo, Undone, Complete
  <2>3. CASE op.kind = "save"
    <3>1. tx.phase = "converging" /\ plan = tx.kind /\ selection = tx.prev
      BY <1>7, <2>3 DEF Apply, Control, Phases, Planning, Saving
    <3>2. CASE pc' = "restore"
      BY <1>7, <2>1, <2>3, <3>1, <3>2, GiveUpAtomic DEF Apply, GotoRestore, Touched
    <3>3. CASE pc' = "decide"
      <4>1. UNCHANGED live
        BY <1>7, <3>3 DEF Apply
      <4>2. Undo' /\ Committed'
        BY <2>1, <3>1, <4>1, QuietAtomic
      <4> QED
        BY <1>7, <2>1, <2>3, <3>3, <4>2 DEF Apply, AtomicInv, Undone, Complete, Saving, Synced
    <3>4. ASSUME NEW f \in todo, live' = [live EXCEPT ![f[1]].managed[f[2]] = "bundled"],
                 UNCHANGED <<pc, op>>
          PROVE  AtomicInv'
      <4> DEFINE p == f[1]
      <4>1. p \in Paths /\ f[2] \in Managed /\ Synced(p)
        BY <1>7, <3>1 DEF Apply, Control, Left, Planned, Synced
      <4>2. live' = [live EXCEPT ![p] = [@ EXCEPT !.managed[f[2]] = "bundled"]]
        BY <3>4
      <4> HIDE DEF p
      <4>3. live'[p] = [live[p] EXCEPT !.managed[f[2]] = "bundled"]
            /\ \A q \in Paths : q # p => live'[q] = live[q]
        BY <4>1, <4>2 DEF TypeInv
      <4>4. \A b : Between(live[p], b) => Between(live'[p], b)
        BY <4>1, <4>3 DEF Between, TypeInv, Dirs
      <4>5. ~Lost(p)
        BY <1>7, <2>3, <4>1 DEF Apply, AtomicInv, Complete, Saving, Lost
      <4>6. Undo'
        <5>1. ASSUME RollingBack, NEW q \in Paths \ edited PROVE Undoable(q)'
          <6>1. Undoable(q)
            BY <5>1 DEF AtomicInv, Undo
          <6>2. CASE q = p
            BY <2>1, <4>1, <4>4, <4>5, <6>1, <6>2 DEF Undoable, Deletes, Synced, Lost
          <6>3. CASE q # p
            BY <2>1, <4>3, <6>1, <6>3 DEF Undoable, Deletes, Synced, Lost
          <6> QED BY <6>2, <6>3
        <5> QED BY <2>1, <5>1 DEF Undo, RollingBack
      <4>7. Committed' /\ Undone' /\ Complete'
        BY <1>7, <2>1, <3>1, <3>4 DEF Apply, Committed, Undone, Complete, Saving, Synced, AtomicInv
      <4> QED BY <4>6, <4>7 DEF AtomicInv
    <3> QED BY <1>7, <2>3, <3>2, <3>3, <3>4 DEF Apply, GotoRestore
  <2> QED BY <2>2, <2>3
<1>8. CASE Decide
  <2>1. /\ UNCHANGED <<live, tx, before, edited>> /\ tx.phase = "converging"
        /\ tx.next = op.next /\ selection = tx.prev
    BY <1>8 DEF Decide, history, Control, Phases, Planning, Saving
  <2>2. CASE pc' = "restore"
    BY <1>8, <2>1, <2>2, GiveUpAtomic DEF Decide, GotoRestore, GotoCleanup, Touched
  <2>3. CASE pc' # "restore"
    <3>1. pc' = "cleanup" /\ selection' = tx.next /\ Plan(tx.next) = NoPlan
      BY <1>8, <2>1, <2>3 DEF Decide, GotoCleanup, GotoRestore
    <3>2. ASSUME NEW p \in Paths PROVE Wanted(p, tx.next)
      <4>1. p[1] \in Names /\ \E r \in Roots : p = <<p[1], r>>
        BY DEF Paths
      <4>2. Kind(tx.next, p[1]) = "none"
        BY <3>1, <4>1 DEF Plan, NoPlan
      <4>3. live[p] \in {live[<<p[1], r>>] : r \in Roots}
        BY <4>1
      <4> QED BY <4>1, <4>2, <4>3 DEF Kind, Wanted, Exists
    <3>3. Committed'
      BY <2>1, <3>1, <3>2 DEF Committed, Wanted
    <3>4. Undo' /\ Undone' /\ Complete'
      BY <2>1, <3>1 DEF Undo, Undone, RollingBack, Complete, Saving
    <3> QED BY <3>3, <3>4 DEF AtomicInv
  <2> QED BY <2>2, <2>3
<1>9. CASE Restore
  <2>1. UNCHANGED <<selection, before, edited>> /\ pc = "restore" /\ tx.phase = "converging"
        /\ selection = tx.prev
    BY <1>9 DEF Restore, history, Control, Phases, Planning
  <2>2. CASE BackupIsMissing
    BY <2>1, <2>2, IdleAtomic DEF BackupIsMissing, Finish
  <2>3. CASE todo = {} /\ pc' = "cleanup" /\ UNCHANGED <<live, tx>>
    <3>1. Undo' /\ Committed' /\ RollingBack' = RollingBack
      BY <2>1, <2>3, QuietAtomic
    <3>2. Undone'
      BY <2>1, <2>3, <3>1 DEF AtomicInv, Undone
    <3> QED BY <2>3, <3>1, <3>2 DEF AtomicInv, Complete, Saving
  <2>4. CASE RestoreEntry
    <3>1. pc' = pc
      BY <2>4 DEF RestoreEntry
    <3>2. PICK p \in todo :
             /\ todo' = todo \ {p}
             /\ \/ Lost(p) /\ UNCHANGED <<live, tx, rescued>>
                \/ ~Lost(p) /\ Deletes(p) /\ p \in tx.has /\ RestoreDeleted(p)
                \/ ~Lost(p) /\ Deletes(p) /\ p \notin tx.has /\ UNCHANGED <<live, tx, rescued>>
                \/ ~Lost(p) /\ ~Deletes(p) /\ RestoreSynced(p)
      BY <2>4 DEF RestoreEntry
    <3>3. p \in Paths /\ tx.kind[p[1]] # "none"
      BY <2>1 DEF Control, Left, Touched
    <3>4. CASE ~RollingBack
      <4>1. \/ tx' = tx
            \/ tx' = [tx EXCEPT !.kept = @ \ {p}]
            \/ tx' = [tx EXCEPT !.kept = @ \ {p}, !.aside = @ \cup {p}]
        BY <3>2 DEF RestoreDeleted, RestoreSynced, SetAside
      <4>2. tx'.phase = tx.phase /\ tx'.next = tx.next /\ tx'.prev = tx.prev
        BY <4>1 DEF TypeInv, Transactions
      <4> QED BY <2>1, <3>1, <3>4, <4>2
            DEF AtomicInv, Committed, Undo, Undone, RollingBack, Complete, Saving
    <3>5. CASE RollingBack
      <4>1. \A q \in Paths \ edited : Undoable(q)
        BY <3>5 DEF AtomicInv, Undo
      <4>2. /\ \A q \in Paths : q # p => live'[q] = live[q]
            /\ tx'.kept \in {tx.kept, tx.kept \ {p}}
            /\ tx'.backup = tx.backup /\ tx'.kind = tx.kind /\ tx'.phase = tx.phase
            /\ tx'.next = tx.next /\ tx'.prev = tx.prev /\ tx'.has = tx.has
            /\ p \notin edited => live'[p] = before[p]
        BY <2>1, <3>2, <3>3, <3>5, <4>1, RestoreOneAtomic
      <4>3. Undo'
        <5>1. ASSUME NEW q \in Paths \ edited PROVE Undoable(q)'
          <6>1. Undoable(q)
            BY <4>1
          <6>2. CASE q = p
            <7>1. Between(before[p], before[p])
              BY DEF Between
            <7> QED BY <2>1, <4>2, <5>1, <6>1, <6>2, <7>1 DEF Undoable, Deletes, Synced, Lost
          <6>3. CASE q # p
            BY <2>1, <4>2, <6>1, <6>3 DEF Undoable, Deletes, Synced, Lost
          <6> QED BY <6>2, <6>3
        <5> QED BY <2>1, <5>1 DEF Undo
      <4>4. Undone'
        BY <2>1, <3>1, <3>2, <3>5, <4>2 DEF AtomicInv, Undone, RollingBack
      <4>5. Committed' /\ Complete'
        BY <2>1, <3>1, <3>5, <4>2 DEF Committed, RollingBack, Complete, Saving
      <4> QED BY <4>3, <4>4, <4>5 DEF AtomicInv
    <3> QED BY <3>4, <3>5
  <2> QED BY <1>9, <2>2, <2>3, <2>4 DEF Restore, GotoCleanup
<1>10. CASE Cleanup
  <2>1. tx'.phase = "none" /\ ~Saving'
    BY <1>10 DEF Cleanup, Finish, NoTx, Saving
  <2> QED BY <2>1 DEF AtomicInv, Committed, RollingBack, Undo, Undone, Complete
<1>11. CASE Remove
  <2>1. tx'.phase = "none" /\ ~Saving'
    BY <1>11 DEF Remove, Finish, Saving, Control, Phases
  <2> QED BY <2>1 DEF AtomicInv, Committed, RollingBack, Undo, Undone, Complete
<1>12. CASE CleanupFails
  <2>1. CASE SomeRemoved
    BY <1>12, <2>1, SomeRemovedAtomic DEF CleanupFails, Finish
  <2>2. CASE UNCHANGED <<tx, owed>>
    BY <1>12, <2>2, IdleAtomic DEF CleanupFails, Finish
  <2> QED BY <1>12, <2>1, <2>2 DEF CleanupFails
<1>13. ASSUME NEW p \in Paths, Edit(p) \/ RemoveLive(p) PROVE AtomicInv'
  <2>1. /\ UNCHANGED <<tx, selection, before, pc, op, todo>> /\ edited \subseteq edited'
        /\ \A q \in Paths \ edited' : live'[q] = live[q]
    BY <1>13 DEF Edit, RemoveLive, task, TypeInv
  <2>2. Undo' /\ RollingBack' = RollingBack
    BY <2>1, QuietAtomic
  <2>3. Committed'
    BY <2>1 DEF AtomicInv, Committed, Wanted
  <2>4. Undone' /\ Complete'
    BY <2>1, <2>2 DEF AtomicInv, Undone, Complete, Saving, Synced
  <2> QED BY <2>2, <2>3, <2>4 DEF AtomicInv
<1>14. CASE Crash
  <2>1. pc' = "idle" /\ UNCHANGED <<selection, before, edited>>
    BY <1>14 DEF Crash, Down, Finish
  <2>2. CASE UNCHANGED <<live, tx, owed>>
    BY <2>1, <2>2, IdleAtomic
  <2>3. CASE pc = "cleanup" /\ SomeRemoved /\ UNCHANGED live
    BY <2>1, <2>3, SomeRemovedAtomic
  <2>4. ASSUME pc = "restore", NEW p \in todo, ~Lost(p), ~Deletes(p), NEW d,
               d \in HalfUndone(live[p], tx.backup[p]), live' = [live EXCEPT ![p] = d],
               UNCHANGED <<tx, owed>>
        PROVE  AtomicInv'
    <3>1. p \in Paths /\ live[p] \in Dirs /\ tx.backup[p] \in Dirs /\ tx.kind[p[1]] # "none"
          /\ selection = tx.prev
      BY <2>4 DEF Control, Left, Planning, Touched, TypeInv, Transactions
    <3>2. Between(live[p], tx.backup[p]) => Between(d, tx.backup[p])
      BY <2>4, <3>1, HalfUndoneDir
    <3>3. live'[p] = d /\ \A q \in Paths : q # p => live'[q] = live[q]
      BY <2>4, <3>1 DEF TypeInv
    <3>4. Undo'
      <4>1. ASSUME RollingBack, NEW q \in Paths \ edited PROVE Undoable(q)'
        <5>1. Undoable(q)
          BY <4>1 DEF AtomicInv, Undo
        <5>2. CASE q = p
          BY <2>1, <2>4, <3>1, <3>2, <3>3, <5>1, <5>2 DEF Undoable, Deletes, Synced, Lost
        <5>3. CASE q # p
          BY <2>1, <2>4, <3>3, <5>1, <5>3 DEF Undoable, Deletes, Synced, Lost
        <5> QED BY <5>2, <5>3
      <4> QED BY <2>1, <2>4, <4>1 DEF Undo, RollingBack
    <3>5. Committed' /\ Undone' /\ Complete'
      BY <2>1, <2>4, <3>1 DEF Committed, Undone, Complete, Saving
    <3> QED BY <3>4, <3>5 DEF AtomicInv
  <2> QED BY <1>14, <2>2, <2>3, <2>4 DEF Crash
<1>15. CASE Start
  BY <1>15, IdleAtomic DEF Start, disk, history
<1>16. CASE UNCHANGED vars
  <2>1. UNCHANGED <<live, tx, selection, before, edited, pc, op, todo>>
    BY <1>16 DEF vars, disk, task, history
  <2>2. Undo' /\ RollingBack' = RollingBack
    BY <2>1, QuietAtomic
  <2> QED BY <2>1, <2>2 DEF AtomicInv, Committed, Undone, Complete, Saving, Synced, Wanted
<1> QED
  BY <1>1, <1>2, <1>3, <1>4, <1>5, <1>6, <1>7, <1>8, <1>9, <1>10, <1>11, <1>12, <1>13, <1>14,
     <1>15, <1>16 DEF Next, Step

(* Only the cleanup ends a transaction, and it comes when there is nothing   *)
(* left to take back or the save has been committed.                         *)
LEMMA AtomicEnd ==
    ASSUME TypeInv, Control, AtomicInv, [Next]_vars,
           tx.phase = "converging", tx'.phase = "none", NEW p \in Paths \ edited
    PROVE  \/ selection # tx.next /\ live[p] = before[p]
           \/ selection = tx.next /\ (tx.prev = tx.next \/ Wanted(p, tx.next))
<1>1. pc = "cleanup"
  <2> SUFFICES ASSUME pc # "cleanup" PROVE tx'.phase = tx.phase
    BY DEF AtomicInv
  <2>1. CASE UNCHANGED tx
    BY <2>1
  <2>2. CASE Begin \/ Capture
    BY <2>2 DEF Begin, Capture, Control, Phases
  <2>3. CASE Stage \/ Restore
    <3>1. \E k, a, b : \/ tx' = [tx EXCEPT !.kept = k]
                       \/ tx' = [tx EXCEPT !.kept = k, !.aside = a]
                       \/ tx' = [tx EXCEPT !.kept = k, !.backup = b]
                       \/ tx' = tx
      <4>1. CASE Stage
        <5>1. ASSUME NEW q \in todo, tx' = [tx EXCEPT !.kept = @ \cup {q}, !.backup[q] = live[q]]
              PROVE  tx' = [tx EXCEPT !.kept = @ \cup {q}, !.backup = [@ EXCEPT ![q] = live[q]]]
          BY <5>1 DEF TypeInv, Transactions
        <5> QED BY <4>1, <5>1 DEF Stage
      <4>2. CASE Restore
        BY <4>2 DEF Restore, RestoreEntry, RestoreDeleted, RestoreSynced, SetAside, BackupIsMissing
      <4> QED BY <2>3, <4>1, <4>2
    <3> QED BY <3>1 DEF TypeInv, Transactions
  <2>4. [Next]_vars => UNCHANGED tx \/ Begin \/ Capture \/ Stage \/ Restore \/ pc = "cleanup"
    <3>1. ASSUME Recover \/ Scan \/ Apply \/ Decide \/ Remove PROVE UNCHANGED tx
      BY <3>1 DEF Recover, Scan, Apply, Decide, Remove, disk
    <3>2. ASSUME Cleanup \/ CleanupFails PROVE pc = "cleanup"
      BY <3>2 DEF Cleanup, CleanupFails
    <3>3. ASSUME Crash PROVE UNCHANGED tx \/ pc = "cleanup"
      BY <3>3 DEF Crash
    <3>4. ASSUME Start \/ UNCHANGED vars PROVE UNCHANGED tx
      BY <3>4 DEF Start, vars, disk
    <3>5. ASSUME NEW q \in Paths, Edit(q) \/ RemoveLive(q) PROVE UNCHANGED tx
      BY <3>5 DEF Edit, RemoveLive
    <3>6. ASSUME NEW o \in Saves \cup Others, Call(o) PROVE UNCHANGED tx
      BY <3>6 DEF Call, disk
    <3> QED BY <3>1, <3>2, <3>3, <3>4, <3>5, <3>6 DEF Next, Step
  <2> QED BY <2>1, <2>2, <2>3, <2>4
<1> QED BY <1>1 DEF AtomicInv, Committed, Undone, RollingBack

-----------------------------------------------------------------------------
(* The theorems *)

Inv == TypeInv /\ Control /\ UserInv /\ AtomicInv

(* Every step of an operation finds the transaction in the phase it counts   *)
(* on: nothing is captured, or a skill removed, while an interrupted save is *)
(* still to be taken back, and a restore has a selection that was not saved. *)
THEOREM TransactionInPhase == Spec => [](TypeInv /\ Control)
<1>1. Init => TypeInv /\ Control
  BY InitType, InitControl
<1>2. TypeInv /\ Control /\ [Next]_vars => (TypeInv /\ Control)'
  BY TypeStep, ControlStep DEF Control
<1> QED BY <1>1, <1>2, PTL DEF Spec

(* The whole invariant: besides, what is owed to the user is in the live     *)
(* files, among those moved aside or in a backup that will be restored, and  *)
(* a directory nobody else touched is as the transaction last left it.       *)
THEOREM InvHolds == Spec => []Inv
<1>1. Init => Inv
  BY InitType, InitControl, InitUser, InitAtomic DEF Inv
<1>2. Inv /\ [Next]_vars => Inv'
  BY TypeStep, ControlStep, UserStep, AtomicStep DEF Inv, Control
<1> QED BY <1>1, <1>2, PTL DEF Spec

(* A file of the user is never lost unless the user removed it, uninstalled, *)
(* or confirmed the removal of its skill, through any failed or interrupted  *)
(* saves, crashes in the middle of a cleanup or an undo, and edits meanwhile.*)
THEOREM UserFilesAreKept == Spec => []UserFilesKept
<1>1. Inv => UserFilesKept
  BY DEF Inv, UserInv
<1> QED BY <1>1, InvHolds, PTL

(* A save happens or it does not, for every directory nobody else touched.   *)
THEOREM SavesAreAtomic == Spec => SaveIsAtomic
<1>1. Inv /\ [Next]_vars =>
        [tx.phase = "converging" /\ tx'.phase = "none" =>
          \A p \in Paths \ edited :
              \/ selection # tx.next /\ live[p] = before[p]
              \/ selection = tx.next /\ (tx.prev = tx.next \/ Wanted(p, tx.next))]_vars
  BY AtomicEnd DEF Inv
<1> QED BY <1>1, InvHolds, PTL DEF Spec, SaveIsAtomic
=============================================================================
