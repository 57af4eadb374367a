--------------------------- MODULE WorkspaceLabels ---------------------------
(***************************************************************************)
(* The compound commit of workspace labels: a catalog file and the         *)
(* workspace registry file change together through a journal, while other  *)
(* registry mutations share the registry queue, any write may fail with or *)
(* without having taken effect, and the daemon may crash between any two.  *)
(*                                                                         *)
(*   workspace-labels/internal/catalog-store.ts   commit, recover          *)
(*   workspace-registry.ts     mutateCache, commitWorkspaceLabelMutation   *)
(*   (under packages/server/src/server/)                                   *)
(*                                                                         *)
(* The registry queue admits one mutation at a time (holder); who is next  *)
(* depends on arrival times and is left open.  Label requests are          *)
(* serialized by WorkspaceLabelService.exclusive.  A file write is one     *)
(* step, since writeJsonFileAtomic renames a complete file into place.     *)
(***************************************************************************)
EXTENDS Integers

CONSTANTS
    Names, Colors, Workspaces, NoColor,
    LostAcks,      \* the files whose write may take effect and yet reject
    StaleRefresh,  \* whether labels may change under a refresh that has read
    WithOverlap,   \* whether another mutation may slip in before the freeze
    MaxCalls,      \* bound on label requests
    MaxMutations,  \* bound on other registry mutations
    MaxFaults,     \* bound on failed file operations
    MaxCrashes     \* bound on crashes

ASSUME LabelsAssumption ==
    /\ LostAcks \subseteq {"journal", "catalog", "records", "marker", "remove"}
    /\ {StaleRefresh, WithOverlap} \subseteq BOOLEAN
    /\ {MaxCalls, MaxMutations, MaxFaults, MaxCrashes} \subseteq Nat
    /\ NoColor \notin Colors

VARIABLES
    up,            \* "down", "boot" before label initialization, "recovering", "up"
    journal,       \* workspace-labels.transaction.json
    catalogFile,   \* workspace-labels.json
    recordsFile,   \* workspaces.json
    labels,        \* WorkspaceLabelCatalogStore.labels
    cache,         \* FileBackedRegistry.cache
    blocked,       \* blocked of the store and of the registry, always set together
    holder,        \* who is inside mutateCache: "none", "label" or "other"
    pc,            \* where the current label request is
    plan,          \* its staged mutation
    outcome,       \* how the latest request ended
    staged,        \* the staged records of the other mutation
    held,          \* the record a refresh has read, if any
    committed,     \* history: the current request passed the commit point
    calls, mutations, faults, crashes

files == <<journal, catalogFile, recordsFile>>
memory == <<labels, cache, blocked>>
request == <<pc, plan, outcome, committed>>
writer == <<staged, held>>
vars == <<up, files, memory, holder, request, writer, calls, mutations, faults, crashes>>

NoHeld == [ws |-> "none"]
EmptyCatalog == [n \in Names |-> NoColor]

Records == [Workspaces ->
    [present : BOOLEAN, archived : BOOLEAN, labels : SUBSET Names]]

LabelsOf(records) == [w \in Workspaces |-> records[w].labels]

WithLabels(records, asg) ==
    [w \in Workspaces |-> [records[w] EXCEPT !.labels = asg[w]]]

NoJournal == [phase |-> "none", catalog |-> EmptyCatalog,
              touched |-> {}, before |-> [w \in Workspaces |-> {}]]
NoPlan == [catalog |-> EmptyCatalog, records |-> [w \in Workspaces |->
              [present |-> FALSE, archived |-> FALSE, labels |-> {}]], touched |-> {}]

\* Restores the records as they were staged, whatever happened to them since.
Rollback_Slip(records, j) ==
    [w \in Workspaces |->
        IF w \in j.touched
        THEN [present |-> TRUE, archived |-> FALSE, labels |-> j.before[w]]
        ELSE records[w]]

\* What recovery makes of a set of records: the journal's before-labels on the
\* workspaces it touched and that still exist, every other field as it is now.
Rollback(records, j) ==
    [w \in Workspaces |->
        IF w \in j.touched /\ records[w].present
        THEN [records[w] EXCEPT !.labels = j.before[w]]
        ELSE records[w]]

\* The state a restart would serve.
LogicalCatalog == IF journal.phase = "prepared" THEN journal.catalog ELSE catalogFile
LogicalRecords ==
    IF journal.phase = "prepared" THEN Rollback(recordsFile, journal) ELSE recordsFile

LC == INSTANCE LabelCatalog WITH catalog <- LogicalCatalog,
                                 assigned <- LabelsOf(LogicalRecords)

-----------------------------------------------------------------------------
Init ==
    /\ up = "up"
    /\ journal = NoJournal
    /\ catalogFile = EmptyCatalog
    /\ recordsFile = [w \in Workspaces |->
                        [present |-> TRUE, archived |-> FALSE, labels |-> {}]]
    /\ labels = catalogFile /\ cache = recordsFile /\ blocked = FALSE
    /\ holder = "none" /\ pc = "idle" /\ plan = NoPlan /\ outcome = "none"
    /\ staged = NoPlan.records /\ held = NoHeld /\ committed = FALSE
    /\ calls = 0 /\ mutations = 0 /\ faults = 0 /\ crashes = 0

(* Label requests. *)

Refused(r) ==
    \/ r.kind \in {"assign", "unassign"} /\ (~cache[r.ws].present \/ cache[r.ws].archived)
    \/ LC!Missing(r, labels)
    \/ LC!Collides(r, labels)

\* The registry writes when the staged records or the catalog differ.
Staged(r) ==
    LET asg == LC!AfterLabels(r, LabelsOf(cache), labels) IN
    [catalog |-> LC!AfterCatalog(r, labels),
     records |-> WithLabels(cache, asg),
     touched |-> {w \in Workspaces : asg[w] # cache[w].labels}]

Changes(p) == p.touched # {} \/ p.catalog # labels

\* commit() up to and including stage(): the planner runs with the queue held;
\* a planner that throws or changes nothing leaves the queue at once.
Request(r) ==
    /\ up = "up" /\ pc = "idle" /\ calls < MaxCalls
    /\ held # NoHeld => StaleRefresh
    /\ calls' = calls + 1 /\ committed' = FALSE
    /\ \/ /\ blocked
          /\ outcome' = "uncertain"
          /\ UNCHANGED <<holder, pc, plan>>
       \/ /\ ~blocked /\ holder = "none" /\ Refused(r)
          /\ pc' = "resolve" /\ outcome' = "none"
          /\ UNCHANGED <<holder, plan>>
       \/ /\ ~blocked /\ holder = "none" /\ ~Refused(r) /\ ~Changes(Staged(r))
          /\ pc' = "cleanup" /\ outcome' = "none"
          /\ UNCHANGED <<holder, plan>>
       \/ /\ ~blocked /\ holder = "none" /\ ~Refused(r) /\ Changes(Staged(r))
          /\ plan' = Staged(r) /\ holder' = "label" /\ pc' = "journal" /\ outcome' = "none"
    /\ UNCHANGED <<up, files, memory, writer, mutations, faults, crashes>>

\* A failed file operation: it had no effect, or, for the files in LostAcks,
\* it had one all the same.
Fail == faults < MaxFaults /\ faults' = faults + 1
Effect(file) == {FALSE} \cup (IF file \in LostAcks THEN {TRUE} ELSE {})

\* The queue is not released when the mutation throws.
Reject_Slip == UNCHANGED holder /\ pc' = "resolve" /\ plan' = NoPlan

\* The mutation rejects: mutateCache releases the queue and commit() goes on
\* to find out what is durable.
Reject == holder' = "none" /\ pc' = "resolve" /\ plan' = NoPlan

Prepared ==
    [phase |-> "prepared", catalog |-> labels,
     touched |-> plan.touched, before |-> LabelsOf(cache)]

WriteJournal ==
    /\ pc = "journal"
    /\ \/ /\ journal' = Prepared /\ pc' = "catalog"
          /\ UNCHANGED <<holder, plan, faults>>
       \/ \E e \in Effect("journal") :
             /\ Fail /\ Reject
             /\ journal' = IF e THEN Prepared ELSE journal
    /\ UNCHANGED <<up, catalogFile, recordsFile, memory, outcome, committed, writer,
                   calls, mutations, crashes>>

WriteCatalog ==
    /\ pc = "catalog"
    /\ \/ /\ catalogFile' = plan.catalog
          /\ pc' = IF plan.touched = {} THEN "marker" ELSE "records"
          /\ UNCHANGED <<holder, plan, faults>>
       \/ \E e \in Effect("catalog") :
             /\ Fail /\ Reject
             /\ catalogFile' = IF e THEN plan.catalog ELSE catalogFile
    /\ UNCHANGED <<up, journal, recordsFile, memory, outcome, committed, writer,
                   calls, mutations, crashes>>

\* The cache follows the file before the commit point.
WriteRecords_Slip ==
    /\ pc = "records"
    /\ \/ /\ recordsFile' = plan.records /\ pc' = "marker" /\ cache' = plan.records
          /\ UNCHANGED <<holder, plan, faults>>
       \/ \E e \in Effect("records") :
             /\ Fail /\ Reject
             /\ recordsFile' = IF e THEN plan.records ELSE recordsFile
             /\ UNCHANGED cache
    /\ UNCHANGED <<up, journal, catalogFile, labels, blocked, outcome, committed, writer,
                   calls, mutations, crashes>>

WriteRecords ==
    /\ pc = "records"
    /\ \/ /\ recordsFile' = plan.records /\ pc' = "marker"
          /\ UNCHANGED <<holder, plan, faults>>
       \/ \E e \in Effect("records") :
             /\ Fail /\ Reject
             /\ recordsFile' = IF e THEN plan.records ELSE recordsFile
    /\ UNCHANGED <<up, journal, catalogFile, memory, outcome, committed, writer,
                   calls, mutations, crashes>>

\* afterWorkspaceWrite: rewriting the journal's phase is the commit point; the
\* caches follow in the same breath.
WriteMarker ==
    /\ pc = "marker"
    /\ \/ /\ journal' = [journal EXCEPT !.phase = "committed"] /\ committed' = TRUE
          /\ cache' = plan.records /\ labels' = plan.catalog
          /\ holder' = "none" /\ pc' = "cleanup" /\ plan' = NoPlan
          /\ UNCHANGED faults
       \/ \E e \in Effect("marker") :
             /\ Fail /\ Reject /\ committed' = e
             /\ journal' = IF e THEN [journal EXCEPT !.phase = "committed"] ELSE journal
             /\ UNCHANGED <<cache, labels>>
    /\ UNCHANGED <<up, catalogFile, recordsFile, blocked, outcome, writer,
                   calls, mutations, crashes>>

\* removeTransaction, whose failure is ignored.
Cleanup ==
    /\ pc = "cleanup"
    /\ \/ journal' = NoJournal /\ UNCHANGED faults
       \/ Fail /\ UNCHANGED journal
    /\ pc' = "idle" /\ outcome' = "ack"
    /\ UNCHANGED <<up, catalogFile, recordsFile, memory, holder, plan, committed, writer,
                   calls, mutations, crashes>>

(* A commit that failed. *)

End(o) == pc' = "idle" /\ outcome' = o

\* A committed marker is always taken for the leftover of an earlier commit.
Resolve_Slip1 ==
    /\ pc = "resolve"
    /\ \/ /\ journal.phase # "prepared" /\ End("rejected") /\ UNCHANGED faults
       \/ /\ journal.phase = "prepared" /\ pc' = "recover"
          /\ UNCHANGED <<outcome, faults>>
       \/ /\ Fail /\ pc' = "block" /\ UNCHANGED outcome
    /\ UNCHANGED <<up, files, memory, holder, plan, committed, writer,
                   calls, mutations, crashes>>

\* A journal that cannot be read is taken for none.
Resolve_Slip2 ==
    /\ pc = "resolve"
    /\ \/ /\ journal.phase = "none" /\ End("rejected") /\ UNCHANGED faults
       \/ /\ journal.phase = "committed" /\ pc' = "block"
          /\ UNCHANGED <<outcome, faults>>
       \/ /\ journal.phase = "prepared" /\ pc' = "recover"
          /\ UNCHANGED <<outcome, faults>>
       \/ Fail /\ End("rejected")
    /\ UNCHANGED <<up, files, memory, holder, plan, committed, writer,
                   calls, mutations, crashes>>

\* resolveFailedCommit: what the journal on disk says decides.
Resolve ==
    /\ pc = "resolve"
    /\ \/ /\ journal.phase = "none" /\ End("rejected") /\ UNCHANGED faults
       \/ /\ journal.phase = "committed" /\ pc' = "block"
          /\ UNCHANGED <<outcome, faults>>
       \/ /\ journal.phase = "prepared" /\ pc' = "recover"
          /\ UNCHANGED <<outcome, faults>>
       \/ /\ Fail /\ pc' = "block" /\ UNCHANGED outcome
    /\ UNCHANGED <<up, files, memory, holder, plan, committed, writer,
                   calls, mutations, crashes>>

\* blockUntilRestart, some microtasks after the queue was released.
Block ==
    /\ pc = "block"
    /\ blocked' = TRUE /\ End("uncertain")
    /\ UNCHANGED <<up, files, labels, cache, holder, plan, committed, writer,
                   calls, mutations, faults, crashes>>

\* Recovery of a prepared journal, in the running daemon or during startup.
RecoverStage ==
    /\ pc = "recover" /\ holder = "none"
    /\ holder' = "label" /\ pc' = "rCatalog"
    /\ UNCHANGED <<up, files, memory, plan, outcome, committed, writer,
                   calls, mutations, faults, crashes>>

\* A failed recovery blocks the running daemon and stops a starting one.
RecoveryFails ==
    /\ Fail /\ holder' = "none"
    /\ IF up = "recovering" THEN up' = "down" /\ pc' = "idle"
                            ELSE pc' = "block" /\ UNCHANGED up
    /\ UNCHANGED <<outcome, memory>>

RestoredSome == \E w \in journal.touched : cache[w].present

RecoverCatalog ==
    /\ pc = "rCatalog"
    /\ \/ /\ catalogFile' = journal.catalog
          /\ pc' = IF RestoredSome THEN "rRecords" ELSE "rRemove"
          /\ UNCHANGED <<up, holder, outcome, memory, faults>>
       \/ \E e \in Effect("catalog") :
             /\ RecoveryFails
             /\ catalogFile' = IF e THEN journal.catalog ELSE catalogFile
    /\ UNCHANGED <<journal, recordsFile, plan, committed, writer, calls, mutations, crashes>>

RecoverRecords ==
    /\ pc = "rRecords"
    /\ \/ /\ recordsFile' = Rollback(cache, journal) /\ pc' = "rRemove"
          /\ UNCHANGED <<up, holder, outcome, memory, faults>>
       \/ \E e \in Effect("records") :
             /\ RecoveryFails
             /\ recordsFile' = IF e THEN Rollback(cache, journal) ELSE recordsFile
    /\ UNCHANGED <<journal, catalogFile, plan, committed, writer, calls, mutations, crashes>>

RecoverRemove ==
    /\ pc = "rRemove"
    /\ \/ /\ journal' = NoJournal
          /\ cache' = Rollback(cache, journal) /\ labels' = journal.catalog
          /\ holder' = "none"
          /\ IF up = "recovering" THEN up' = "up" /\ pc' = "idle" /\ UNCHANGED outcome
                                  ELSE End("rejected") /\ UNCHANGED up
          /\ UNCHANGED <<blocked, faults>>
       \/ \E e \in Effect("remove") :
             /\ RecoveryFails
             /\ journal' = IF e THEN NoJournal ELSE journal
    /\ UNCHANGED <<catalogFile, recordsFile, plan, committed, writer, calls, mutations, crashes>>

-----------------------------------------------------------------------------
(* Other mutations of the workspace registry. *)

\* What archive, remove, update and a stale upsert make of the cached records.
Archived(w) == [cache EXCEPT ![w].archived = TRUE]
Unarchived(w) == [cache EXCEPT ![w].archived = FALSE]
Removed(w) == [cache EXCEPT ![w] = [present |-> FALSE, archived |-> FALSE, labels |-> {}]]

\* The queue is free although a commit whose marker is durable has rejected and
\* blockUntilRestart has not run yet.
Overlap == pc \in {"resolve", "block"} /\ committed

\* A workspace that leaves the registry takes its labels with it.
LabelsChange(records) == LabelsOf(records) # LabelsOf(cache)

\* mutateCache up to the write: blocked until restart means it throws.
RegistryStage ==
    /\ up \in {"boot", "up"} /\ holder = "none" /\ ~blocked
    /\ Overlap => WithOverlap
    /\ \/ /\ mutations < MaxMutations /\ mutations' = mutations + 1
          /\ \E w \in Workspaces :
                /\ cache[w].present
                /\ staged' \in {Archived(w), Unarchived(w), Removed(w)} \ {cache}
                /\ held # NoHeld /\ LabelsChange(staged') => StaleRefresh
          /\ UNCHANGED held
       \/ /\ held # NoHeld
          /\ staged' = [cache EXCEPT ![held.ws] = held.record] /\ held' = NoHeld
          /\ UNCHANGED mutations
    /\ holder' = "other"
    /\ UNCHANGED <<up, files, memory, request, calls, faults, crashes>>

\* refreshWorkspaceRecord reads a record, asks git, and upserts the record.
RefreshRead ==
    /\ up = "up" /\ held = NoHeld
    /\ pc # "idle" \/ (holder = "other" /\ LabelsChange(staged)) => StaleRefresh
    /\ mutations < MaxMutations /\ mutations' = mutations + 1
    /\ \E w \in Workspaces :
          cache[w].present /\ held' = [ws |-> w, record |-> cache[w]]
    /\ UNCHANGED <<up, files, memory, holder, request, staged, calls, faults, crashes>>

\* Write, cache update and release of the queue; a failed write changes nothing.
RegistryWrite ==
    /\ holder = "other"
    /\ \/ recordsFile' = staged /\ cache' = staged /\ UNCHANGED faults
       \/ Fail /\ UNCHANGED <<recordsFile, cache>>
    /\ holder' = "none" /\ staged' = NoPlan.records
    /\ UNCHANGED <<up, journal, catalogFile, labels, blocked, request, held,
                   calls, mutations, crashes>>

-----------------------------------------------------------------------------
(* Crash and startup. *)

Crash ==
    /\ up # "down" /\ crashes < MaxCrashes /\ crashes' = crashes + 1
    /\ up' = "down" /\ pc' = "idle" /\ outcome' = "none" /\ plan' = NoPlan
    /\ holder' = "none" /\ staged' = NoPlan.records /\ held' = NoHeld
    /\ UNCHANGED <<files, memory, committed, calls, mutations, faults>>

\* The registry loads before anything else and may be mutated by bootstrap.
Start ==
    /\ up = "down" /\ up' = "boot"
    /\ cache' = recordsFile /\ labels' = EmptyCatalog /\ blocked' = FALSE
    /\ UNCHANGED <<files, holder, request, writer, calls, mutations, faults, crashes>>

\* Startup discards a prepared journal instead of rolling it back.
InitializeLabels_Slip ==
    /\ up = "boot" /\ holder = "none"
    /\ up' = "up" /\ labels' = catalogFile
    /\ journal' = NoJournal
    /\ UNCHANGED <<catalogFile, recordsFile, cache, blocked, holder, request, writer,
                   calls, mutations, faults, crashes>>

\* loadAndRecover: a committed marker is only cleaned up, a prepared one rolled
\* back, before the labels are served.
InitializeLabels ==
    /\ up = "boot" /\ holder = "none"
    /\ \/ /\ journal.phase = "prepared"
          /\ up' = "recovering" /\ pc' = "recover"
          /\ UNCHANGED <<journal, labels, faults>>
       \/ /\ journal.phase # "prepared"
          /\ up' = "up" /\ labels' = catalogFile /\ UNCHANGED pc
          /\ \/ journal' = NoJournal /\ UNCHANGED faults
             \/ journal.phase = "committed" /\ Fail /\ UNCHANGED journal
    /\ UNCHANGED <<catalogFile, recordsFile, cache, blocked, holder, plan, outcome, committed,
                   writer, calls, mutations, crashes>>

-----------------------------------------------------------------------------
LabelStep ==
    \/ WriteJournal \/ WriteCatalog \/ WriteRecords \/ WriteMarker \/ Cleanup
    \/ Resolve \/ Block
    \/ RecoverStage \/ RecoverCatalog \/ RecoverRecords \/ RecoverRemove

Next ==
    \/ \E r \in LC!Requests : Request(r)
    \/ LabelStep
    \/ RegistryStage \/ RefreshRead \/ RegistryWrite
    \/ Crash \/ Start \/ InitializeLabels

Spec == Init /\ [][Next]_vars

\* The event loop runs every promise that has settled, and a daemon that went
\* down is started again by its supervisor.
Fairness ==
    /\ WF_vars(LabelStep) /\ WF_vars(RegistryWrite)
    /\ WF_vars(Start) /\ WF_vars(InitializeLabels)

FairSpec == Spec /\ Fairness

-----------------------------------------------------------------------------
(* Properties. *)

\* The compound commit is atomic: what a restart would serve changes only by
\* one whole accepted request, or by a workspace leaving the registry, whatever
\* fails or crashes in between.
AtomicCommit == LC!Spec

\* No crash, failed write or overlapping registry mutation leaves a workspace
\* with a label name that the catalog a restart would serve does not define.
AssignedIsDefined == LC!AssignedIsDefined

\* A request rejected before the commit point has not taken effect and will
\* not after a restart: the rejection is never sent for a commit that is durable.
RejectedHasNoEffect == outcome = "rejected" => ~committed

\* While the daemon is not blocked nor finding out about a failed commit, its
\* caches, which every read is served from, are what a restart would load: an
\* unfinished or rolled back commit is never visible.
Undecided == {"resolve", "recover", "rCatalog", "rRecords", "rRemove", "block"}

CachesAreDurable ==
    up = "up" /\ ~blocked /\ pc \notin Undecided =>
        labels = LogicalCatalog /\ cache = LogicalRecords

\* Commits, rollbacks and recovery rewrite labels only: an archive or removal
\* that another mutation made durable is undone by no label write, even one
\* that restores records staged before it.
RegistryFieldsKept ==
    [][\A w \in Workspaces :
          holder # "other" =>
              /\ recordsFile'[w].present = recordsFile[w].present
              /\ recordsFile'[w].archived = recordsFile[w].archived]_vars

\* Every label request is answered, whatever fails under it.
RequestEnds == (pc # "idle") ~> (pc = "idle")

\* A prepared journal never outlives the commit or the recovery it belongs to:
\* it is decided, or the registry is frozen until a restart decides it.
PreparedIsDecided == (journal.phase = "prepared") ~> (journal.phase # "prepared" \/ blocked)
=============================================================================
