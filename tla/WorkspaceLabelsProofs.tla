------------------------ MODULE WorkspaceLabelsProofs ------------------------
(***************************************************************************)
(* Theorems about WorkspaceLabels, for any names, colors and workspaces,   *)
(* any failed writes with or without effect and any number of crashes:     *)
(* what a restart would serve changes only by whole accepted requests.     *)
(*                                                                         *)
(* They hold under NoStaleWrites.  Without it they are false: a refresh    *)
(* that read labels before they changed writes the old ones back, and so   *)
(* does a mutation between a commit whose marker is durable, but was       *)
(* reported as failed, and the freeze that follows.                        *)
(***************************************************************************)
EXTENDS WorkspaceLabels, TLAPS

USE LabelsAssumption

NoStaleWrites == StaleRefresh = FALSE /\ WithOverlap = FALSE

Catalogs == [Names -> Colors \cup {NoColor}]
Record == [present : BOOLEAN, archived : BOOLEAN, labels : SUBSET Names]
Journals == [phase : {"none", "prepared", "committed"}, catalog : Catalogs,
             touched : SUBSET Workspaces, before : [Workspaces -> SUBSET Names]]
PlanSet == [catalog : Catalogs, records : Records, touched : SUBSET Workspaces]

Writing == {"catalog", "records", "marker"}
Commits == {"journal"} \cup Writing
Restores == {"rCatalog", "rRecords", "rRemove"}
Pcs == {"idle", "cleanup", "resolve", "recover", "block"} \cup Commits \cup Restores

TypeInv ==
    /\ up \in {"down", "boot", "recovering", "up"}
    /\ journal \in Journals /\ catalogFile \in Catalogs /\ recordsFile \in Records
    /\ labels \in Catalogs /\ cache \in Records /\ blocked \in BOOLEAN
    /\ holder \in {"none", "label", "other"} /\ pc \in Pcs
    /\ plan \in PlanSet /\ staged \in Records
    /\ held # NoHeld => held \in [ws : Workspaces, record : Record]
    /\ committed \in BOOLEAN

\* Who may be where: the queue admits one, and a daemon that is not up is idle
\* or recovering.
Places ==
    /\ holder = "label" <=> pc \in Commits \cup Restores
    /\ up \in {"down", "boot"} => pc = "idle"
    /\ up = "down" => holder = "none"
    /\ up = "recovering" => holder # "other" /\ pc \in {"recover"} \cup Restores
    /\ blocked => pc = "idle" /\ up \in {"up", "down"}

\* A commit that is durable but reported as failed keeps everybody out until
\* the freeze.
Uncertain ==
    /\ Overlap => holder # "other" /\ journal.phase = "committed"
    /\ pc \in Commits \cup Restores \cup {"recover"} => ~committed
    /\ committed => journal.phase # "prepared"

\* The caches are what a restart would serve, until a freeze.
Durable ==
    up = "up" /\ ~Overlap /\ (blocked => holder = "other") =>
        labels = LogicalCatalog /\ cache = LogicalRecords

\* A prepared journal belongs to a commit that is under way or has failed.
Journaled ==
    /\ journal.phase = "prepared" /\ up = "up" /\ ~blocked =>
          pc \notin {"idle", "journal", "cleanup"}
    /\ pc \in Writing =>
          /\ journal.phase = "prepared" /\ journal.catalog = labels
          /\ journal.touched = plan.touched /\ journal.before = LabelsOf(cache)

\* The staged mutation is that of an accepted request, and so far written.
Planned ==
    /\ pc \in Commits => \E r \in LC!Requests : ~Refused(r) /\ plan = Staged(r)
    /\ pc \in {"journal", "catalog", "records"} => recordsFile = cache
    /\ pc \in {"records", "marker"} => catalogFile = plan.catalog
    /\ pc = "marker" => recordsFile = plan.records

\* Recovery rolls back records that agree with those on disk.
Restoring ==
    /\ up = "boot" => cache = recordsFile
    /\ pc \in {"recover"} \cup Restores =>
          /\ journal.phase = "prepared"
          /\ Rollback(cache, journal) = LogicalRecords
          /\ \A w \in Workspaces : cache[w].present = recordsFile[w].present
    /\ pc \in {"rRecords", "rRemove"} => catalogFile = journal.catalog
    /\ pc = "rRemove" => recordsFile = Rollback(cache, journal)

\* Another mutation keeps all labels, or removes one workspace with its labels.
KeepsLabels ==
    /\ LabelsOf(staged) = LabelsOf(cache)
    /\ journal.phase = "prepared" =>
          \A w \in Workspaces : staged[w].present = cache[w].present
Removes(w) ==
    /\ ~staged[w].present /\ staged[w].labels = {}
    /\ \A u \in Workspaces \ {w} :
          staged[u].present = cache[u].present /\ staged[u].labels = cache[u].labels
OtherStaged == holder = "other" => KeepsLabels \/ \E w \in Workspaces : Removes(w)

\* What a refresh has read, its labels above all, has not changed since.
HeldFresh ==
    held # NoHeld =>
        /\ up = "up" /\ pc = "idle"
        /\ held.record.present /\ held.record.labels = cache[held.ws].labels
        /\ holder = "other" => ~LabelsChange(staged)

\* A workspace that is gone has no labels.
Vacant(records) == \A w \in Workspaces : ~records[w].present => records[w].labels = {}
GoneUnlabelled ==
    /\ Vacant(recordsFile) /\ Vacant(cache)
    /\ holder = "other" => Vacant(staged)

Inv == /\ TypeInv /\ Places /\ Uncertain /\ Durable /\ Journaled /\ Planned /\ Restoring
       /\ OtherStaged /\ HeldFresh /\ GoneUnlabelled

-----------------------------------------------------------------------------
(* Records and their rollback *)

LEMMA SameRecords ==
    ASSUME NEW a \in Records, NEW b \in Records,
           \A w \in Workspaces : /\ a[w].present = b[w].present
                                 /\ a[w].archived = b[w].archived
                                 /\ a[w].labels = b[w].labels
    PROVE  a = b
<1>1. \A w \in Workspaces : a[w] = b[w]
  BY DEF Records
<1> QED BY <1>1 DEF Records

(* A rollback changes labels only, and only of touched records that exist.   *)
LEMMA RollbackFields ==
    ASSUME NEW records \in Records, NEW j \in Journals
    PROVE  /\ Rollback(records, j) \in Records
           /\ \A w \in Workspaces :
                /\ Rollback(records, j)[w].present = records[w].present
                /\ Rollback(records, j)[w].archived = records[w].archived
                /\ Rollback(records, j)[w].labels =
                      IF w \in j.touched /\ records[w].present THEN j.before[w]
                                                               ELSE records[w].labels
<1>1. j.before \in [Workspaces -> SUBSET Names]
  BY DEF Journals
<1>2. \A w \in Workspaces : records[w] \in Record
  BY DEF Records, Record
<1>3. \A w \in Workspaces : [records[w] EXCEPT !.labels = j.before[w]] \in Record
  BY <1>1, <1>2 DEF Record
<1>4. Rollback(records, j) \in [Workspaces -> Record]
  BY <1>2, <1>3 DEF Rollback
<1>5. ASSUME NEW w \in Workspaces
      PROVE  /\ Rollback(records, j)[w].present = records[w].present
             /\ Rollback(records, j)[w].archived = records[w].archived
             /\ Rollback(records, j)[w].labels =
                      IF w \in j.touched /\ records[w].present THEN j.before[w]
                                                               ELSE records[w].labels
  <2>1. CASE w \in j.touched /\ records[w].present
    <3>1. Rollback(records, j)[w] = [records[w] EXCEPT !.labels = j.before[w]]
      BY <2>1 DEF Rollback
    <3> QED BY <2>1, <3>1, <1>2 DEF Record
  <2>2. CASE ~(w \in j.touched /\ records[w].present)
    <3>1. Rollback(records, j)[w] = records[w]
      BY <2>2 DEF Rollback
    <3> QED BY <2>2, <3>1
  <2> QED BY <2>1, <2>2
<1> QED BY <1>4, <1>5 DEF Records, Record

LEMMA RollbackTwice ==
    ASSUME NEW records \in Records, NEW j \in Journals
    PROVE  Rollback(Rollback(records, j), j) = Rollback(records, j)
<1> DEFINE b == Rollback(records, j)
           c == Rollback(b, j)
<1>1. /\ b \in Records
      /\ \A w \in Workspaces :
            /\ b[w].present = records[w].present
            /\ b[w].labels = IF w \in j.touched /\ records[w].present THEN j.before[w]
                                                                    ELSE records[w].labels
  BY RollbackFields
<1> HIDE DEF b
<1>2. /\ c \in Records
      /\ \A w \in Workspaces :
            /\ c[w].present = b[w].present
            /\ c[w].archived = b[w].archived
            /\ c[w].labels = IF w \in j.touched /\ b[w].present THEN j.before[w]
                                                              ELSE b[w].labels
  BY <1>1, RollbackFields
<1> HIDE DEF c
<1>3. \A w \in Workspaces : c[w].labels = b[w].labels
  BY <1>1, <1>2
<1> QED BY <1>1, <1>2, <1>3, SameRecords DEF b, c

LEMMA LogicalTypes ==
    ASSUME TypeInv
    PROVE  /\ LogicalRecords \in Records /\ LogicalCatalog \in Catalogs
           /\ \A w \in Workspaces : LogicalRecords[w].present = recordsFile[w].present
  BY RollbackFields DEF TypeInv, LogicalRecords, LogicalCatalog, Journals

(* A journal that records what is there rolls back to what is there.         *)
LEMMA RollbackToSelf ==
    ASSUME NEW records \in Records, NEW j \in Journals, j.before = LabelsOf(records)
    PROVE  Rollback(records, j) = records
<1> DEFINE b == Rollback(records, j)
<1>1. /\ b \in Records
      /\ \A w \in Workspaces :
            /\ b[w].present = records[w].present
            /\ b[w].archived = records[w].archived
            /\ b[w].labels = IF w \in j.touched /\ records[w].present THEN j.before[w]
                                                                    ELSE records[w].labels
  BY RollbackFields
<1> HIDE DEF b
<1>2. \A w \in Workspaces : b[w].labels = records[w].labels
  BY <1>1 DEF LabelsOf
<1> QED BY <1>1, <1>2, SameRecords DEF b

-----------------------------------------------------------------------------
(* Requests *)

LEMMA RequestFields ==
    ASSUME NEW r \in LC!Requests
    PROVE  /\ r.kind \in {"assign", "unassign", "update", "delete", "count"} /\ r.name \in Names
           /\ r.kind \in {"assign", "unassign"} => r.ws \in Workspaces
           /\ r.kind \in {"assign", "update"} => r.color \in Colors
           /\ r.kind = "update" => r.newName \in Names
  BY DEF LC!Requests

LEMMA AfterLabelsType ==
    ASSUME NEW r \in LC!Requests, NEW asg \in [Workspaces -> SUBSET Names], NEW cat \in Catalogs
    PROVE  LC!AfterLabels(r, asg, cat) \in [Workspaces -> SUBSET Names]
<1> DEFINE after == LC!AfterLabels(r, asg, cat)
<1>1. CASE r.kind = "assign"
  <2>1. after = [asg EXCEPT ![r.ws] = @ \cup {r.name}]
    BY <1>1 DEF LC!AfterLabels
  <2> QED BY <1>1, <2>1, RequestFields
<1>2. CASE r.kind = "unassign"
  <2>1. after = [asg EXCEPT ![r.ws] = @ \ {r.name}]
    BY <1>2 DEF LC!AfterLabels
  <2> QED BY <1>2, <2>1, RequestFields
<1>3. CASE r.kind = "update"
  <2>1. after = [w \in Workspaces |-> LC!Renamed(r, asg[w])]
    BY <1>3 DEF LC!AfterLabels
  <2>2. \A w \in Workspaces : LC!Renamed(r, asg[w]) \in SUBSET Names
    BY <1>3, RequestFields DEF LC!Renamed
  <2> QED BY <2>1, <2>2
<1>4. CASE r.kind = "delete" /\ cat[r.name] # NoColor
  <2>1. after = [w \in Workspaces |-> asg[w] \ {r.name}]
    BY <1>4 DEF LC!AfterLabels
  <2> QED BY <2>1
<1>5. CASE r.kind = "count" \/ (r.kind = "delete" /\ cat[r.name] = NoColor)
  <2>1. after = asg
    BY <1>5 DEF LC!AfterLabels
  <2> QED BY <2>1
<1> QED BY <1>1, <1>2, <1>3, <1>4, <1>5, RequestFields

LEMMA AfterCatalogType ==
    ASSUME NEW r \in LC!Requests, NEW cat \in Catalogs
    PROVE  LC!AfterCatalog(r, cat) \in Catalogs
<1> DEFINE after == LC!AfterCatalog(r, cat)
<1>1. CASE r.kind = "assign" /\ cat[r.name] = NoColor
  <2>1. after = [cat EXCEPT ![r.name] = r.color]
    BY <1>1 DEF LC!AfterCatalog
  <2> QED BY <1>1, <2>1, RequestFields DEF Catalogs
<1>2. CASE r.kind = "update"
  <2>1. after = [cat EXCEPT ![r.name] = NoColor, ![r.newName] = r.color]
    BY <1>2 DEF LC!AfterCatalog
  <2> QED BY <1>2, <2>1, RequestFields DEF Catalogs
<1>3. CASE r.kind = "delete"
  <2>1. after = [cat EXCEPT ![r.name] = NoColor]
    BY <1>3 DEF LC!AfterCatalog
  <2> QED BY <2>1, RequestFields DEF Catalogs
<1>4. CASE r.kind \in {"unassign", "count"} \/ (r.kind = "assign" /\ cat[r.name] # NoColor)
  <2>1. after = cat
    BY <1>4 DEF LC!AfterCatalog
  <2> QED BY <2>1
<1> QED BY <1>1, <1>2, <1>3, <1>4, RequestFields

(* What a request stages: records that differ in labels only, and not in     *)
(* those of a workspace that is gone.                                        *)
LEMMA StagedPlan ==
    ASSUME TypeInv, Vacant(cache), NEW r \in LC!Requests, ~Refused(r)
    PROVE  /\ Staged(r) \in PlanSet
           /\ \A w \in Workspaces :
                /\ Staged(r).records[w].present = cache[w].present
                /\ Staged(r).records[w].archived = cache[w].archived
                /\ w \in Staged(r).touched => cache[w].present
                /\ w \notin Staged(r).touched => Staged(r).records[w].labels = cache[w].labels
           /\ LabelsOf(Staged(r).records) = LC!AfterLabels(r, LabelsOf(cache), labels)
<1> DEFINE asg == LC!AfterLabels(r, LabelsOf(cache), labels)
<1>1. LabelsOf(cache) \in [Workspaces -> SUBSET Names]
  BY DEF TypeInv, Records, LabelsOf
<1>2. asg \in [Workspaces -> SUBSET Names] /\ LC!AfterCatalog(r, labels) \in Catalogs
  BY <1>1, AfterLabelsType, AfterCatalogType DEF TypeInv
<1>3. /\ Staged(r).catalog = LC!AfterCatalog(r, labels)
      /\ Staged(r).records = WithLabels(cache, asg)
      /\ Staged(r).touched = {w \in Workspaces : asg[w] # cache[w].labels}
      /\ Staged(r) = [catalog |-> Staged(r).catalog, records |-> Staged(r).records,
                      touched |-> Staged(r).touched]
  BY DEF Staged
<1>4. ASSUME NEW w \in Workspaces, ~cache[w].present
      PROVE  asg[w] = {}
  <2>1. LabelsOf(cache)[w] = {}
    BY <1>4 DEF Vacant, LabelsOf
  <2>2. r.kind \in {"assign", "unassign"} => r.ws # w
    BY <1>4 DEF Refused
  <2>3. CASE r.kind \in {"assign", "unassign"}
    BY <1>1, <2>1, <2>2, <2>3, RequestFields DEF LC!AfterLabels
  <2>4. CASE r.kind = "update"
    BY <1>1, <2>1, <2>4 DEF LC!AfterLabels, LC!Renamed
  <2>5. CASE r.kind \in {"delete", "count"}
    BY <1>1, <2>1, <2>5 DEF LC!AfterLabels
  <2> QED BY <2>3, <2>4, <2>5, RequestFields
<1> HIDE DEF asg
<1>5. \A w \in Workspaces : cache[w] \in Record
  BY DEF TypeInv, Records, Record
<1>6. \A w \in Workspaces : WithLabels(cache, asg)[w] = [cache[w] EXCEPT !.labels = asg[w]]
  BY DEF WithLabels
<1>7. \A w \in Workspaces :
        /\ WithLabels(cache, asg)[w] \in Record
        /\ WithLabels(cache, asg)[w].present = cache[w].present
        /\ WithLabels(cache, asg)[w].archived = cache[w].archived
        /\ WithLabels(cache, asg)[w].labels = asg[w]
  BY <1>2, <1>5, <1>6 DEF Record
<1>8. WithLabels(cache, asg) \in Records
  BY <1>7 DEF WithLabels, Records, Record
<1>9. Staged(r) \in PlanSet
  BY <1>2, <1>3, <1>8 DEF PlanSet
<1>10. LabelsOf(Staged(r).records) = asg
  BY <1>2, <1>3, <1>7 DEF LabelsOf
<1>11. ASSUME NEW w \in Workspaces
       PROVE  /\ Staged(r).records[w].present = cache[w].present
              /\ Staged(r).records[w].archived = cache[w].archived
              /\ w \notin Staged(r).touched => Staged(r).records[w].labels = cache[w].labels
  BY <1>3, <1>7
<1>12. ASSUME NEW w \in Workspaces, w \in Staged(r).touched PROVE cache[w].present
  <2>1. asg[w] # cache[w].labels
    BY <1>3, <1>12
  <2> QED BY <1>4, <2>1 DEF Vacant
<1> QED BY <1>9, <1>10, <1>11, <1>12 DEF asg

LEMMA PlanUnchanged ==
    ASSUME UNCHANGED <<labels, cache>>, NEW r \in LC!Requests
    PROVE  (Refused(r)' <=> Refused(r)) /\ Staged(r)' = Staged(r)
  BY DEF Refused, Staged, LabelsOf, WithLabels

-----------------------------------------------------------------------------
(* The steps.  Each preserves the invariant; all but three leave what a      *)
(* restart would serve as it is.                                             *)

Same == LogicalCatalog' = LogicalCatalog /\ LogicalRecords' = LogicalRecords

LEMMA FilesUnchanged == ASSUME UNCHANGED files PROVE Same
  BY DEF files, Same, LogicalCatalog, LogicalRecords, Rollback

LEMMA InitInv == Init => Inv
<1> SUFFICES ASSUME Init PROVE Inv
  OBVIOUS
<1> USE DEF Init
<1>1. recordsFile \in Records /\ Vacant(recordsFile)
  BY DEF Records, Vacant
<1>2. EmptyCatalog \in Catalogs
  BY DEF EmptyCatalog, Catalogs
<1>3. NoJournal \in Journals /\ NoJournal.phase = "none"
  BY <1>2 DEF NoJournal, Journals
<1>4. NoPlan \in PlanSet /\ NoPlan.records \in Records
  BY <1>2 DEF NoPlan, PlanSet, Records
<1>5. TypeInv
  BY <1>1, <1>2, <1>3, <1>4 DEF TypeInv, Pcs
<1> QED
  BY <1>1, <1>3, <1>5 DEF Inv, Places, Uncertain, Durable, Journaled, Planned, Restoring,
     OtherStaged, HeldFresh, GoneUnlabelled, LogicalCatalog, LogicalRecords, Overlap, Commits,
     Writing, Restores

LEMMA RequestStep ==
    ASSUME NoStaleWrites, Inv, NEW r \in LC!Requests, Request(r)
    PROVE  Inv' /\ Same
<1> USE DEF Inv, Request, files, memory, writer
<1>1. /\ Same /\ pc = "idle" /\ up = "up" /\ held = NoHeld
      /\ UNCHANGED <<labels, cache, blocked, journal, recordsFile, catalogFile>>
  BY FilesUnchanged DEF NoStaleWrites
<1>2. CASE blocked
  <2>1. UNCHANGED <<holder, pc, plan>>
    BY <1>2 DEF TypeInv
  <2>2. TypeInv'
    BY <1>1, <2>1 DEF TypeInv
  <2>3. Places' /\ Uncertain' /\ Restoring' /\ Planned' /\ OtherStaged' /\ HeldFresh'
        /\ GoneUnlabelled'
    BY <1>1, <2>1 DEF Places, Uncertain, Restoring, Planned, OtherStaged, HeldFresh,
       GoneUnlabelled, Overlap, Commits, Writing, Restores, KeepsLabels, Removes, LabelsOf, Vacant
  <2>4. Durable' /\ Journaled'
    BY <1>1, <1>2, <2>1 DEF Durable, Journaled, Overlap, Same, Writing
  <2> QED BY <1>1, <2>2, <2>3, <2>4
<1>3. CASE ~blocked
  <2>1. journal.phase # "prepared" /\ labels = LogicalCatalog /\ cache = LogicalRecords
        /\ cache = recordsFile /\ labels = catalogFile /\ holder = "none"
    BY <1>1, <1>3 DEF Journaled, Durable, Overlap, LogicalCatalog, LogicalRecords
  <2>2. /\ ~committed'
        /\ \/ UNCHANGED <<holder, plan>> /\ pc' \in {"resolve", "cleanup"}
           \/ holder' = "label" /\ pc' = "journal" /\ plan' = Staged(r) /\ ~Refused(r)
    BY <1>3
  <2>3. Staged(r) \in PlanSet \/ plan' = plan
    BY <2>2, StagedPlan DEF GoneUnlabelled
  <2>4. TypeInv'
    BY <1>1, <2>1, <2>2, <2>3 DEF TypeInv, Pcs, Commits
  <2>5. Places' /\ Uncertain' /\ Restoring' /\ OtherStaged' /\ HeldFresh' /\ GoneUnlabelled'
    BY <1>1, <1>3, <2>1, <2>2 DEF Places, Uncertain, Restoring, OtherStaged, HeldFresh,
       GoneUnlabelled, Overlap, Commits, Writing, Restores, Vacant
  <2>6. Durable' /\ Journaled'
    BY <1>1, <2>1, <2>2 DEF Durable, Journaled, Same, Writing
  <2>7. Planned'
    <3>1. pc' = "journal" => ~Refused(r)' /\ plan' = Staged(r)'
      BY <1>1, <2>2, PlanUnchanged
    <3> QED BY <1>1, <2>1, <2>2, <3>1 DEF Planned, Commits, Writing
  <2> QED BY <1>1, <2>4, <2>5, <2>6, <2>7
<1> QED BY <1>1, <1>2, <1>3

-----------------------------------------------------------------------------
(* A commit *)

LEMMA CommitFacts ==
    ASSUME Inv, pc \in Commits
    PROVE  /\ up = "up" /\ holder = "label" /\ ~blocked /\ ~committed /\ held = NoHeld
           /\ labels = LogicalCatalog /\ cache = LogicalRecords
           /\ \E r \in LC!Requests : ~Refused(r) /\ plan = Staged(r)
  BY DEF Inv, TypeInv, Places, Uncertain, Durable, Planned, HeldFresh, Overlap, Commits, Writing,
     Restores

(* The staged records: what they roll back to, and what they share with the  *)
(* cache.                                                                    *)
LEMMA PlanFacts ==
    ASSUME Inv, pc \in Commits
    PROVE  /\ plan.records \in Records /\ plan.catalog \in Catalogs /\ Vacant(plan.records)
           /\ plan.touched = {} => plan.records = cache
           /\ pc \in Writing => Rollback(plan.records, journal) = cache
<1>1. PICK r \in LC!Requests : ~Refused(r) /\ plan = Staged(r)
  BY CommitFacts
<1>2. /\ plan \in PlanSet
      /\ \A w \in Workspaces :
           /\ plan.records[w].present = cache[w].present
           /\ plan.records[w].archived = cache[w].archived
           /\ w \in plan.touched => cache[w].present
           /\ w \notin plan.touched => plan.records[w].labels = cache[w].labels
  BY <1>1, StagedPlan DEF Inv, GoneUnlabelled
<1>3. plan.records \in Records /\ plan.catalog \in Catalogs /\ cache \in Records
  BY <1>2 DEF PlanSet, Inv, TypeInv
<1>4. Vacant(plan.records)
  BY <1>2 DEF Vacant, Inv, GoneUnlabelled
<1>5. plan.touched = {} => plan.records = cache
  BY <1>2, <1>3, SameRecords
<1>6. ASSUME pc \in Writing PROVE Rollback(plan.records, journal) = cache
  <2> DEFINE b == Rollback(plan.records, journal)
  <2>1. journal \in Journals /\ journal.touched = plan.touched
        /\ journal.before = LabelsOf(cache)
    BY <1>6 DEF Inv, TypeInv, Journaled
  <2>2. /\ b \in Records
        /\ \A w \in Workspaces :
             /\ b[w].present = plan.records[w].present
             /\ b[w].archived = plan.records[w].archived
             /\ b[w].labels = IF w \in journal.touched /\ plan.records[w].present
                              THEN journal.before[w] ELSE plan.records[w].labels
    BY <1>3, <2>1, RollbackFields
  <2> HIDE DEF b
  <2>3. \A w \in Workspaces : b[w].labels = cache[w].labels
    BY <1>2, <2>1, <2>2 DEF LabelsOf
  <2> QED BY <1>2, <1>3, <2>2, <2>3, SameRecords DEF b
<1> QED BY <1>3, <1>4, <1>5, <1>6

LEMMA RejectInv ==
    ASSUME Inv, pc \in Commits, Reject, Same, committed' = FALSE,
           journal' \in Journals, catalogFile' \in Catalogs, recordsFile' \in Records,
           Vacant(recordsFile'), UNCHANGED <<up, labels, cache, blocked, held, staged>>
    PROVE  Inv'
<1> USE DEF Inv, Reject
<1>1. up = "up" /\ ~blocked /\ held = NoHeld /\ labels = LogicalCatalog /\ cache = LogicalRecords
  BY CommitFacts
<1>2. NoPlan \in PlanSet
  BY DEF NoPlan, PlanSet, Records, EmptyCatalog, Catalogs
<1>3. TypeInv'
  BY <1>2 DEF TypeInv, Pcs
<1>4. Places' /\ Uncertain' /\ Planned' /\ Restoring' /\ OtherStaged' /\ HeldFresh'
      /\ GoneUnlabelled'
  BY <1>1 DEF Places, Uncertain, Planned, Restoring, OtherStaged, HeldFresh, GoneUnlabelled,
     Overlap, Commits, Writing, Restores, Vacant
<1>5. Durable' /\ Journaled'
  BY <1>1 DEF Durable, Journaled, Same, Writing
<1> QED BY <1>3, <1>4, <1>5

LEMMA WriteJournalStep == ASSUME Inv, WriteJournal PROVE Inv' /\ Same
<1> USE DEF Inv, WriteJournal, memory, writer
<1>1. /\ pc \in Commits /\ pc = "journal"
      /\ UNCHANGED <<up, labels, cache, blocked, held, staged, catalogFile, recordsFile, committed>>
  BY DEF Commits
<1>2. /\ up = "up" /\ holder = "label" /\ ~blocked /\ ~committed /\ held = NoHeld
      /\ labels = LogicalCatalog /\ cache = LogicalRecords /\ recordsFile = cache
  BY <1>1, CommitFacts DEF Planned
<1>3. LabelsOf(cache) \in [Workspaces -> SUBSET Names]
  BY DEF TypeInv, Records, LabelsOf
<1>4. plan.touched \subseteq Workspaces
  BY DEF TypeInv, PlanSet
<1>5. Prepared \in Journals /\ Prepared.phase = "prepared" /\ Prepared.catalog = labels
      /\ Prepared.touched = plan.touched /\ Prepared.before = LabelsOf(cache)
  BY <1>3, <1>4 DEF Prepared, Journals, TypeInv
<1>6. Rollback(cache, Prepared) = cache
  BY <1>5, RollbackToSelf DEF TypeInv
<1>7. Same
  <2>1. CASE journal' = journal
    BY <1>1, <2>1, FilesUnchanged DEF files
  <2>2. CASE journal' = Prepared
    <3>1. LogicalCatalog' = labels
      BY <1>5, <2>2 DEF LogicalCatalog
    <3>2. LogicalRecords' = Rollback(cache, Prepared)
      BY <1>1, <1>2, <1>5, <2>2 DEF LogicalRecords, Rollback
    <3> QED BY <1>2, <1>6, <3>1, <3>2 DEF Same
  <2> QED BY <2>1, <2>2
<1>8. CASE Reject
  BY <1>1, <1>2, <1>5, <1>7, <1>8, RejectInv DEF TypeInv, GoneUnlabelled
<1>9. CASE journal' = Prepared /\ pc' = "catalog" /\ UNCHANGED <<holder, plan, faults>>
  <2>1. TypeInv'
    BY <1>1, <1>5, <1>9 DEF TypeInv, Pcs, Commits, Writing
  <2>2. Places' /\ Uncertain' /\ Restoring' /\ OtherStaged' /\ HeldFresh' /\ GoneUnlabelled'
    BY <1>1, <1>2, <1>9 DEF Places, Uncertain, Restoring, OtherStaged, HeldFresh, GoneUnlabelled,
       Overlap, Commits, Writing, Restores, Vacant
  <2>3. Durable'
    BY <1>1, <1>2, <1>7 DEF Durable, Same
  <2>4. Journaled'
    BY <1>1, <1>5, <1>9 DEF Journaled, Writing, LabelsOf
  <2>5. Planned'
    BY <1>1, <1>2, <1>9, PlanUnchanged DEF Planned, Commits, Writing
  <2> QED BY <1>7, <2>1, <2>2, <2>3, <2>4, <2>5
<1> QED BY <1>7, <1>8, <1>9

LEMMA WriteCatalogStep == ASSUME Inv, WriteCatalog PROVE Inv' /\ Same
<1> USE DEF Inv, WriteCatalog, memory, writer
<1>1. /\ pc \in Commits /\ pc = "catalog" /\ pc \in Writing
      /\ UNCHANGED <<up, labels, cache, blocked, held, staged, journal, recordsFile, committed>>
  BY DEF Commits, Writing
<1>2. /\ up = "up" /\ holder = "label" /\ ~blocked /\ ~committed /\ held = NoHeld
      /\ labels = LogicalCatalog /\ cache = LogicalRecords /\ recordsFile = cache
      /\ journal.phase = "prepared"
  BY <1>1, CommitFacts DEF Planned, Journaled
<1>3. /\ plan.records \in Records /\ plan.catalog \in Catalogs
      /\ plan.touched = {} => plan.records = cache
  BY <1>1, PlanFacts
<1>4. Same
  BY <1>1, <1>2 DEF Same, LogicalCatalog, LogicalRecords, Rollback
<1>5. CASE Reject
  <2>1. catalogFile' \in Catalogs
    BY <1>3 DEF TypeInv
  <2> QED BY <1>1, <1>2, <1>4, <1>5, <2>1, RejectInv DEF TypeInv, GoneUnlabelled
<1>6. CASE /\ catalogFile' = plan.catalog
           /\ pc' = IF plan.touched = {} THEN "marker" ELSE "records"
           /\ UNCHANGED <<holder, plan, faults>>
  <2>1. TypeInv'
    BY <1>1, <1>3, <1>6 DEF TypeInv, Pcs, Commits, Writing
  <2>2. Places' /\ Uncertain' /\ Restoring' /\ OtherStaged' /\ HeldFresh' /\ GoneUnlabelled'
    BY <1>1, <1>2, <1>6 DEF Places, Uncertain, Restoring, OtherStaged, HeldFresh, GoneUnlabelled,
       Overlap, Commits, Writing, Restores, Vacant
  <2>3. Durable'
    BY <1>1, <1>2, <1>4 DEF Durable, Same
  <2>4. Journaled'
    BY <1>1, <1>6 DEF Journaled, Writing, LabelsOf
  <2>5. Planned'
    BY <1>1, <1>2, <1>3, <1>6, PlanUnchanged DEF Planned, Commits, Writing
  <2> QED BY <1>4, <2>1, <2>2, <2>3, <2>4, <2>5
<1> QED BY <1>4, <1>5, <1>6

LEMMA WriteRecordsStep == ASSUME Inv, WriteRecords PROVE Inv' /\ Same
<1> USE DEF Inv, WriteRecords, memory, writer
<1>1. /\ pc \in Commits /\ pc = "records" /\ pc \in Writing
      /\ UNCHANGED <<up, labels, cache, blocked, held, staged, journal, catalogFile, committed>>
  BY DEF Commits, Writing
<1>2. /\ up = "up" /\ holder = "label" /\ ~blocked /\ ~committed /\ held = NoHeld
      /\ labels = LogicalCatalog /\ cache = LogicalRecords /\ catalogFile = plan.catalog
      /\ journal.phase = "prepared"
  BY <1>1, CommitFacts DEF Planned, Journaled
<1>3. /\ plan.records \in Records /\ Vacant(plan.records)
      /\ Rollback(plan.records, journal) = cache
  BY <1>1, PlanFacts
<1>4. recordsFile' = recordsFile \/ recordsFile' = plan.records
  OBVIOUS
<1>5. Same
  <2>1. LogicalRecords' = Rollback(recordsFile', journal)
    BY <1>1, <1>2 DEF LogicalRecords, Rollback
  <2>2. LogicalRecords = Rollback(recordsFile, journal)
    BY <1>2 DEF LogicalRecords
  <2> QED BY <1>1, <1>2, <1>3, <1>4, <2>1, <2>2 DEF Same, LogicalCatalog
<1>6. recordsFile' \in Records /\ Vacant(recordsFile')
  BY <1>3, <1>4 DEF TypeInv, GoneUnlabelled
<1>7. CASE Reject
  BY <1>1, <1>2, <1>5, <1>6, <1>7, RejectInv DEF TypeInv
<1>8. CASE recordsFile' = plan.records /\ pc' = "marker" /\ UNCHANGED <<holder, plan, faults>>
  <2>1. TypeInv'
    BY <1>1, <1>6, <1>8 DEF TypeInv, Pcs, Commits, Writing
  <2>2. Places' /\ Uncertain' /\ Restoring' /\ OtherStaged' /\ HeldFresh' /\ GoneUnlabelled'
    BY <1>1, <1>2, <1>6, <1>8 DEF Places, Uncertain, Restoring, OtherStaged, HeldFresh,
       GoneUnlabelled, Overlap, Commits, Writing, Restores, Vacant
  <2>3. Durable'
    BY <1>1, <1>2, <1>5 DEF Durable, Same
  <2>4. Journaled'
    BY <1>1, <1>8 DEF Journaled, Writing, LabelsOf
  <2>5. Planned'
    BY <1>1, <1>2, <1>8, PlanUnchanged, CommitFacts DEF Planned, Commits, Writing
  <2> QED BY <1>5, <2>1, <2>2, <2>3, <2>4, <2>5
<1> QED BY <1>5, <1>7, <1>8

(* The commit point.                                                         *)
Committed == \E r \in LC!Requests : LC!Commit(r)

LEMMA WriteMarkerStep == ASSUME Inv, WriteMarker PROVE Inv' /\ (Same \/ Committed)
<1> USE DEF Inv, WriteMarker, writer
<1>1. /\ pc \in Commits /\ pc = "marker" /\ pc \in Writing
      /\ UNCHANGED <<up, blocked, held, staged, catalogFile, recordsFile>>
  BY DEF Commits, Writing
<1>2. /\ up = "up" /\ holder = "label" /\ ~blocked /\ ~committed /\ held = NoHeld
      /\ labels = LogicalCatalog /\ cache = LogicalRecords /\ catalogFile = plan.catalog
      /\ recordsFile = plan.records /\ journal.phase = "prepared"
  BY <1>1, CommitFacts DEF Planned, Journaled
<1>3. PICK r \in LC!Requests : ~Refused(r) /\ plan = Staged(r)
  BY <1>1, CommitFacts
<1>4. ASSUME journal' = [journal EXCEPT !.phase = "committed"]
      PROVE  /\ journal' \in Journals /\ journal'.phase = "committed"
             /\ LogicalCatalog' = plan.catalog /\ LogicalRecords' = plan.records
             /\ Committed
  <2>1. journal' \in Journals /\ journal'.phase = "committed"
    BY <1>4 DEF TypeInv, Journals
  <2>2. LogicalCatalog' = plan.catalog /\ LogicalRecords' = plan.records
    BY <1>1, <1>2, <2>1 DEF LogicalCatalog, LogicalRecords
  <2>3. LabelsOf(LogicalRecords)' = LabelsOf(plan.records)
    BY <2>2 DEF LabelsOf
  <2>4. LabelsOf(plan.records) = LC!AfterLabels(r, LabelsOf(cache), labels)
        /\ plan.catalog = LC!AfterCatalog(r, labels)
    <3>1. LabelsOf(Staged(r).records) = LC!AfterLabels(r, LabelsOf(cache), labels)
      BY <1>3, StagedPlan DEF GoneUnlabelled
    <3>2. Staged(r).catalog = LC!AfterCatalog(r, labels)
      BY DEF Staged
    <3> QED BY <1>3, <3>1, <3>2
  <2>5. ~LC!Missing(r, labels) /\ ~LC!Collides(r, labels)
    BY <1>3 DEF Refused
  <2>6. LC!Commit(r)
    BY <1>2, <2>2, <2>3, <2>4, <2>5 DEF LC!Commit
  <2> QED BY <2>1, <2>2, <2>6 DEF Committed
<1>5. /\ plan.records \in Records /\ plan.catalog \in Catalogs /\ Vacant(plan.records)
  BY <1>1, PlanFacts
<1>6. CASE /\ journal' = [journal EXCEPT !.phase = "committed"] /\ committed' = TRUE
           /\ cache' = plan.records /\ labels' = plan.catalog
           /\ holder' = "none" /\ pc' = "cleanup" /\ plan' = NoPlan
  <2>1. NoPlan \in PlanSet
    BY DEF NoPlan, PlanSet, Records, EmptyCatalog, Catalogs
  <2>2. TypeInv'
    BY <1>1, <1>4, <1>5, <1>6, <2>1 DEF TypeInv, Pcs
  <2>3. Places' /\ Uncertain' /\ Restoring' /\ OtherStaged' /\ HeldFresh' /\ GoneUnlabelled'
    BY <1>1, <1>2, <1>5, <1>6 DEF Places, Uncertain, Restoring, OtherStaged, HeldFresh,
       GoneUnlabelled, Overlap, Commits, Writing, Restores, Vacant
  <2>4. Durable' /\ Journaled' /\ Planned'
    BY <1>1, <1>4, <1>6 DEF Durable, Journaled, Planned, Commits, Writing
  <2> QED BY <1>4, <1>6, <2>2, <2>3, <2>4
<1>7. CASE /\ Reject /\ UNCHANGED <<cache, labels>> /\ committed' = FALSE /\ journal' = journal
  <2>1. Same
    BY <1>1, <1>7, FilesUnchanged DEF files
  <2> QED BY <1>1, <1>2, <1>7, <2>1, RejectInv DEF TypeInv, GoneUnlabelled
<1>8. CASE /\ Reject /\ UNCHANGED <<cache, labels>> /\ committed' = TRUE
           /\ journal' = [journal EXCEPT !.phase = "committed"]
  <2> USE DEF Reject
  <2>1. NoPlan \in PlanSet
    BY DEF NoPlan, PlanSet, Records, EmptyCatalog, Catalogs
  <2>2. TypeInv'
    BY <1>1, <1>4, <1>8, <2>1 DEF TypeInv, Pcs
  <2>3. Places' /\ Uncertain' /\ Restoring' /\ OtherStaged' /\ HeldFresh' /\ GoneUnlabelled'
    BY <1>1, <1>2, <1>4, <1>8 DEF Places, Uncertain, Restoring, OtherStaged, HeldFresh,
       GoneUnlabelled, Overlap, Commits, Writing, Restores, Vacant
  <2>4. Durable' /\ Journaled' /\ Planned'
    BY <1>1, <1>4, <1>8 DEF Durable, Journaled, Planned, Overlap, Commits, Writing
  <2> QED BY <1>4, <1>8, <2>2, <2>3, <2>4
<1>9. \/ /\ journal' = [journal EXCEPT !.phase = "committed"] /\ committed' = TRUE
         /\ cache' = plan.records /\ labels' = plan.catalog
         /\ holder' = "none" /\ pc' = "cleanup" /\ plan' = NoPlan
      \/ /\ Reject /\ UNCHANGED <<cache, labels>> /\ committed' = FALSE /\ journal' = journal
      \/ /\ Reject /\ UNCHANGED <<cache, labels>> /\ committed' = TRUE
         /\ journal' = [journal EXCEPT !.phase = "committed"]
  <2> HIDE DEF Inv
  <2>1. Effect("marker") \subseteq {TRUE, FALSE}
    BY DEF Effect
  <2> QED BY <2>1
<1> QED BY <1>6, <1>7, <1>8, <1>9

-----------------------------------------------------------------------------
(* The end of a commit, and recovery *)

LEMMA CleanupStep == ASSUME Inv, Cleanup PROVE Inv' /\ Same
<1> USE DEF Inv, Cleanup, memory, writer
<1>1. /\ pc = "cleanup" /\ pc' = "idle"
      /\ UNCHANGED <<up, catalogFile, recordsFile, labels, cache, blocked, holder, plan,
                     committed, staged, held>>
  OBVIOUS
<1>2. up = "up" /\ ~blocked /\ journal.phase # "prepared" /\ held = NoHeld /\ holder # "label"
  BY <1>1 DEF TypeInv, Places, Journaled, HeldFresh, Commits, Writing, Restores
<1>3. EmptyCatalog \in Catalogs
  BY DEF EmptyCatalog, Catalogs
<1>4. NoJournal \in Journals /\ NoJournal.phase = "none"
  BY <1>3 DEF NoJournal, Journals
<1>5. journal' \in Journals /\ journal'.phase # "prepared"
  BY <1>2, <1>4 DEF TypeInv
<1>6. Same
  BY <1>1, <1>2, <1>5 DEF Same, LogicalCatalog, LogicalRecords
<1>7. TypeInv'
  BY <1>1, <1>5 DEF TypeInv, Pcs
<1>8. Places' /\ Uncertain' /\ Restoring' /\ HeldFresh' /\ GoneUnlabelled' /\ Planned'
  BY <1>1, <1>2, <1>5 DEF Places, Uncertain, Restoring, HeldFresh, GoneUnlabelled, Planned,
     Overlap, Commits, Writing, Restores, Vacant
<1>9. Durable' /\ Journaled'
  BY <1>1, <1>2, <1>5, <1>6 DEF Durable, Journaled, Overlap, Same, Writing
<1>10. OtherStaged'
  BY <1>1, <1>5 DEF OtherStaged, KeepsLabels, Removes, LabelsOf
<1> QED BY <1>6, <1>7, <1>8, <1>9, <1>10

(* Nothing but the place of the request, and whether it is frozen, changes.  *)
LEMMA ResolveStep == ASSUME Inv, Resolve PROVE Inv' /\ Same
<1> USE DEF Inv, Resolve, memory, writer, files
<1>1. /\ Same /\ pc = "resolve"
      /\ UNCHANGED <<up, journal, catalogFile, recordsFile, labels, cache, blocked, holder, plan,
                     committed, staged, held>>
  BY FilesUnchanged
<1>2. up = "up" /\ ~blocked /\ held = NoHeld /\ holder # "label"
  BY <1>1 DEF TypeInv, Places, HeldFresh, Commits, Writing, Restores
<1>3. \/ journal.phase # "prepared" /\ pc' = "idle" /\ journal.phase = "none"
      \/ journal.phase = "prepared" /\ pc' = "recover"
      \/ pc' = "block"
  BY DEF End
<1>4. pc' = "block" \/ ~Overlap
  BY <1>3 DEF Uncertain
<1>5. TypeInv'
  BY <1>1, <1>3 DEF TypeInv, Pcs
<1>6. Places' /\ HeldFresh' /\ GoneUnlabelled' /\ Planned'
  BY <1>1, <1>2, <1>3 DEF Places, HeldFresh, GoneUnlabelled, Planned, Commits, Writing, Restores,
     Vacant
<1>7. Uncertain' /\ Journaled'
  BY <1>1, <1>3, <1>4 DEF Uncertain, Journaled, Overlap, Commits, Writing, Restores
<1>8. Durable'
  BY <1>1, <1>3, <1>4 DEF Durable, Overlap, Same
<1>9. OtherStaged'
  BY <1>1 DEF OtherStaged, KeepsLabels, Removes, LabelsOf
<1>10. Restoring'
  <2>1. pc' = "recover" => cache = LogicalRecords /\ journal.phase = "prepared"
    BY <1>2, <1>3, <1>4 DEF Durable
  <2>2. pc' = "recover" =>
          /\ Rollback(cache, journal) = LogicalRecords
          /\ \A w \in Workspaces : cache[w].present = recordsFile[w].present
    BY <2>1, RollbackTwice, LogicalTypes DEF LogicalRecords, TypeInv
  <2> QED BY <1>1, <1>2, <1>3, <2>1, <2>2 DEF Restoring, Restores, Same, Rollback
<1> QED BY <1>1, <1>5, <1>6, <1>7, <1>8, <1>9, <1>10

LEMMA BlockStep == ASSUME Inv, Block PROVE Inv' /\ Same
<1> USE DEF Inv, Block, writer, files
<1>1. /\ Same /\ pc = "block" /\ pc' = "idle" /\ blocked' = TRUE
      /\ UNCHANGED <<up, journal, catalogFile, recordsFile, labels, cache, holder, plan,
                     committed, staged, held>>
  BY FilesUnchanged DEF End
<1>2. up = "up" /\ ~blocked /\ held = NoHeld /\ holder # "label"
  BY <1>1 DEF TypeInv, Places, HeldFresh, Commits, Writing, Restores
<1>3. TypeInv'
  BY <1>1 DEF TypeInv, Pcs
<1>4. Places' /\ HeldFresh' /\ GoneUnlabelled' /\ Planned' /\ Uncertain' /\ Restoring'
  BY <1>1, <1>2 DEF Places, HeldFresh, GoneUnlabelled, Planned, Uncertain, Restoring, Overlap,
     Commits, Writing, Restores, Vacant
<1>5. Durable' /\ Journaled'
  BY <1>1, <1>2 DEF Durable, Journaled, Uncertain, Overlap, Same, Writing
<1>6. OtherStaged'
  BY <1>1 DEF OtherStaged, KeepsLabels, Removes, LabelsOf
<1> QED BY <1>1, <1>3, <1>4, <1>5, <1>6

LEMMA RecoverStageStep == ASSUME Inv, RecoverStage PROVE Inv' /\ Same
<1> USE DEF Inv, RecoverStage, memory, writer, files
<1>1. /\ Same /\ pc = "recover" /\ pc' = "rCatalog" /\ holder' = "label" /\ holder = "none"
      /\ UNCHANGED <<up, journal, catalogFile, recordsFile, labels, cache, blocked, plan,
                     committed, staged, held>>
  BY FilesUnchanged
<1>2. TypeInv'
  BY <1>1 DEF TypeInv, Pcs, Restores
<1>3. Places' /\ HeldFresh' /\ GoneUnlabelled' /\ Planned' /\ Uncertain' /\ OtherStaged'
  BY <1>1 DEF Places, HeldFresh, GoneUnlabelled, Planned, Uncertain, OtherStaged, Overlap,
     Commits, Writing, Restores, Vacant
<1>4. Durable' /\ Journaled'
  BY <1>1 DEF Durable, Journaled, Overlap, Same, Writing
<1>5. Restoring'
  BY <1>1 DEF Restoring, Restores, Same, Rollback
<1> QED BY <1>1, <1>2, <1>3, <1>4, <1>5

(* What recovery knows while it writes.                                      *)
LEMMA RestoreFacts ==
    ASSUME Inv, pc \in Restores
    PROVE  /\ up \in {"up", "recovering"} /\ holder = "label" /\ ~blocked /\ ~committed
           /\ held = NoHeld /\ ~Overlap
           /\ journal \in Journals /\ journal.phase = "prepared" /\ cache \in Records
           /\ Rollback(cache, journal) = LogicalRecords /\ LogicalCatalog = journal.catalog
           /\ \A w \in Workspaces : cache[w].present = recordsFile[w].present
           /\ up = "up" => labels = journal.catalog /\ cache = LogicalRecords
  BY DEF Inv, TypeInv, Places, Uncertain, Durable, Restoring, HeldFresh, Overlap, Restores,
     LogicalCatalog

(* A failed recovery step: it may have taken effect, and left things as a    *)
(* restart would serve them anyway.                                          *)
LEMMA RecoveryFailsInv ==
    ASSUME Inv, pc \in Restores, RecoveryFails, Same,
           journal' \in Journals, catalogFile' \in Catalogs, recordsFile' \in Records,
           Vacant(recordsFile'), UNCHANGED <<plan, committed, staged, held>>
    PROVE  Inv'
<1> USE DEF Inv, RecoveryFails, memory
<1>1. /\ up \in {"up", "recovering"} /\ ~blocked /\ ~committed /\ held = NoHeld
      /\ ~Overlap
      /\ UNCHANGED <<labels, cache, blocked, plan, committed, staged, held>> /\ holder' = "none"
  BY RestoreFacts
<1>2. \/ up = "recovering" /\ up' = "down" /\ pc' = "idle"
      \/ up = "up" /\ up' = "up" /\ pc' = "block"
  BY <1>1
<1>3. TypeInv'
  BY <1>1, <1>2 DEF TypeInv, Pcs
<1>4. Places' /\ HeldFresh' /\ GoneUnlabelled' /\ Planned' /\ Uncertain' /\ OtherStaged'
      /\ Restoring'
  BY <1>1, <1>2 DEF Places, HeldFresh, GoneUnlabelled, Planned, Uncertain, OtherStaged, Overlap,
     Restoring, Commits, Writing, Restores, Vacant
<1>5. Durable' /\ Journaled'
  BY <1>1, <1>2 DEF Durable, Journaled, Overlap, Same, Writing
<1> QED BY <1>3, <1>4, <1>5

LEMMA RecoverCatalogStep == ASSUME Inv, RecoverCatalog PROVE Inv' /\ Same
<1> USE DEF Inv, RecoverCatalog, writer
<1>1. /\ pc \in Restores /\ pc = "rCatalog"
      /\ UNCHANGED <<journal, recordsFile, plan, committed, staged, held>>
  BY DEF Restores
<1>2. journal \in Journals /\ journal.phase = "prepared" /\ journal.catalog \in Catalogs
  BY <1>1, RestoreFacts DEF Journals
<1>3. Same
  BY <1>1, <1>2 DEF Same, LogicalCatalog, LogicalRecords, Rollback
<1>4. catalogFile' \in Catalogs
  BY <1>2 DEF TypeInv
<1>5. CASE RecoveryFails
  BY <1>1, <1>3, <1>4, <1>5, RecoveryFailsInv DEF TypeInv, GoneUnlabelled
<1>6. CASE /\ catalogFile' = journal.catalog
           /\ pc' = IF RestoredSome THEN "rRecords" ELSE "rRemove"
           /\ UNCHANGED <<up, holder, outcome, memory, faults>>
  <2>1. UNCHANGED <<up, holder, labels, cache, blocked>> /\ pc' \in {"rRecords", "rRemove"}
    BY <1>6 DEF memory
  <2>2. TypeInv'
    BY <1>1, <1>4, <2>1 DEF TypeInv, Pcs, Restores
  <2>3. Places' /\ HeldFresh' /\ GoneUnlabelled' /\ Planned' /\ Uncertain' /\ OtherStaged'
    BY <1>1, <2>1 DEF Places, HeldFresh, GoneUnlabelled, Planned, Uncertain, OtherStaged, Overlap,
       Commits, Writing, Restores, Vacant, KeepsLabels, Removes, LabelsOf
  <2>4. Durable' /\ Journaled'
    BY <1>1, <1>3, <2>1 DEF Durable, Journaled, Overlap, Same, Writing
  <2>5. ASSUME ~RestoredSome PROVE recordsFile = Rollback(cache, journal)
    <3>1. /\ recordsFile \in Records /\ Rollback(cache, journal) \in Records
          /\ Rollback(cache, journal) = Rollback(recordsFile, journal)
      BY <1>1, <1>2, RestoreFacts, LogicalTypes DEF TypeInv, LogicalRecords
    <3>2. \A w \in Workspaces : ~(w \in journal.touched /\ recordsFile[w].present)
      BY <1>1, <2>5, RestoreFacts DEF RestoredSome
    <3>3. \A w \in Workspaces :
            /\ Rollback(recordsFile, journal)[w].present = recordsFile[w].present
            /\ Rollback(recordsFile, journal)[w].archived = recordsFile[w].archived
            /\ Rollback(recordsFile, journal)[w].labels = recordsFile[w].labels
      BY <1>2, <3>1, <3>2, RollbackFields
    <3> QED BY <3>1, <3>3, SameRecords
  <2>6. Restoring'
    <3>1. /\ Rollback(cache, journal) = LogicalRecords
          /\ \A w \in Workspaces : cache[w].present = recordsFile[w].present
          /\ up # "boot"
      BY <1>1, RestoreFacts
    <3>2. Rollback(cache, journal)' = Rollback(cache, journal)
      BY <1>1, <2>1 DEF Rollback
    <3>3. pc' = "rRemove" => recordsFile = Rollback(cache, journal)
      BY <1>6, <2>5
    <3> QED BY <1>1, <1>2, <1>3, <1>6, <2>1, <3>1, <3>2, <3>3 DEF Restoring, Restores, Same
  <2> QED BY <1>3, <2>2, <2>3, <2>4, <2>6
<1> QED BY <1>3, <1>5, <1>6

LEMMA RecoverRecordsStep == ASSUME Inv, RecoverRecords PROVE Inv' /\ Same
<1> USE DEF Inv, RecoverRecords, writer
<1>1. /\ pc \in Restores /\ pc = "rRecords"
      /\ UNCHANGED <<journal, catalogFile, plan, committed, staged, held>>
  BY DEF Restores
<1> DEFINE b == Rollback(cache, journal)
<1>2. /\ journal \in Journals /\ journal.phase = "prepared" /\ cache \in Records
      /\ b = LogicalRecords /\ catalogFile = journal.catalog
      /\ \A w \in Workspaces : cache[w].present = recordsFile[w].present
  BY <1>1, RestoreFacts DEF Restoring
<1>3. b \in Records /\ (\A w \in Workspaces : b[w].present = cache[w].present)
      /\ Rollback(b, journal) = b
  BY <1>2, RollbackFields, RollbackTwice
<1>4. Vacant(b)
  <2>1. \A w \in Workspaces : ~cache[w].present => b[w].labels = cache[w].labels
    BY <1>2, RollbackFields
  <2> QED BY <1>3, <2>1 DEF Vacant, GoneUnlabelled
<1> HIDE DEF b
<1>5. recordsFile' = recordsFile \/ recordsFile' = b
  BY DEF b
<1>6. Same
  <2>1. LogicalRecords' = Rollback(recordsFile', journal) /\ LogicalCatalog' = LogicalCatalog
    BY <1>1, <1>2 DEF LogicalRecords, LogicalCatalog, Rollback
  <2>2. LogicalRecords = Rollback(recordsFile, journal)
    BY <1>2 DEF LogicalRecords
  <2> QED BY <1>2, <1>3, <1>5, <2>1, <2>2 DEF Same
<1>7. recordsFile' \in Records /\ Vacant(recordsFile')
  BY <1>3, <1>4, <1>5 DEF TypeInv, GoneUnlabelled
<1>8. CASE RecoveryFails
  BY <1>1, <1>6, <1>7, <1>8, RecoveryFailsInv DEF TypeInv
<1>9. CASE /\ recordsFile' = b /\ pc' = "rRemove"
           /\ UNCHANGED <<up, holder, outcome, memory, faults>>
  <2>1. UNCHANGED <<up, holder, labels, cache, blocked>>
    BY <1>9 DEF memory
  <2>2. TypeInv'
    BY <1>1, <1>7, <1>9, <2>1 DEF TypeInv, Pcs, Restores
  <2>3. Places' /\ HeldFresh' /\ GoneUnlabelled' /\ Planned' /\ Uncertain' /\ OtherStaged'
    BY <1>1, <1>7, <1>9, <2>1 DEF Places, HeldFresh, GoneUnlabelled, Planned, Uncertain,
       OtherStaged, Overlap, Commits, Writing, Restores, Vacant
  <2>4. Durable' /\ Journaled'
    BY <1>1, <1>6, <1>9, <2>1 DEF Durable, Journaled, Overlap, Same, Writing, Restores
  <2>5. Restoring'
    <3>1. Rollback(cache, journal)' = b
      BY <1>1, <2>1 DEF Rollback, b
    <3>2. up # "boot"
      BY <1>1, RestoreFacts
    <3> QED BY <1>1, <1>2, <1>3, <1>6, <1>9, <2>1, <3>1, <3>2 DEF Restoring, Restores, Same
  <2> QED BY <1>6, <2>2, <2>3, <2>4, <2>5
<1> QED BY <1>6, <1>8, <1>9 DEF b

LEMMA RecoverRemoveStep == ASSUME Inv, RecoverRemove PROVE Inv' /\ Same
<1> USE DEF Inv, RecoverRemove, writer
<1>1. /\ pc \in Restores /\ pc = "rRemove"
      /\ UNCHANGED <<catalogFile, recordsFile, plan, committed, staged, held>>
  BY DEF Restores
<1>2. /\ journal \in Journals /\ journal.phase = "prepared" /\ cache \in Records
      /\ Rollback(cache, journal) = LogicalRecords /\ LogicalCatalog = journal.catalog
      /\ catalogFile = journal.catalog /\ recordsFile = Rollback(cache, journal)
      /\ held = NoHeld /\ ~committed /\ ~blocked /\ up \in {"up", "recovering"}
  BY <1>1, RestoreFacts DEF Restoring
<1>3. EmptyCatalog \in Catalogs
  BY DEF EmptyCatalog, Catalogs
<1>4. NoJournal \in Journals /\ NoJournal.phase = "none"
  BY <1>3 DEF NoJournal, Journals
<1>5. ASSUME journal' = NoJournal
      PROVE  LogicalCatalog' = catalogFile /\ LogicalRecords' = recordsFile
  BY <1>1, <1>4, <1>5 DEF LogicalCatalog, LogicalRecords
<1>6. Same
  <2>1. CASE journal' = NoJournal
    BY <1>2, <1>5, <2>1 DEF Same
  <2>2. CASE journal' = journal
    BY <1>1, <2>2, FilesUnchanged DEF files
  <2> QED BY <2>1, <2>2
<1>7. CASE RecoveryFails
  <2>1. journal' \in Journals
    BY <1>2, <1>4
  <2> QED BY <1>1, <1>6, <1>7, <2>1, RecoveryFailsInv DEF TypeInv, GoneUnlabelled
<1>8. CASE /\ journal' = NoJournal
           /\ cache' = Rollback(cache, journal) /\ labels' = journal.catalog
           /\ holder' = "none" /\ UNCHANGED <<blocked, faults>>
           /\ up' = "up" /\ pc' = "idle"
  <2>1. cache' = recordsFile /\ labels' = catalogFile
    BY <1>2, <1>8
  <2>2. TypeInv'
    BY <1>1, <1>4, <1>8, <2>1 DEF TypeInv, Pcs
  <2>3. Places' /\ HeldFresh' /\ GoneUnlabelled' /\ Planned' /\ Uncertain' /\ OtherStaged'
        /\ Restoring'
    BY <1>1, <1>2, <1>8, <2>1 DEF Places, HeldFresh, GoneUnlabelled, Planned, Uncertain,
       OtherStaged, Restoring, Overlap, Commits, Writing, Restores, Vacant
  <2>4. Durable' /\ Journaled'
    BY <1>1, <1>4, <1>5, <1>8, <2>1 DEF Durable, Journaled, Writing
  <2> QED BY <1>6, <2>2, <2>3, <2>4
<1>9. \/ RecoveryFails
      \/ /\ journal' = NoJournal
         /\ cache' = Rollback(cache, journal) /\ labels' = journal.catalog
         /\ holder' = "none" /\ UNCHANGED <<blocked, faults>>
         /\ up' = "up" /\ pc' = "idle"
  <2> HIDE DEF Inv
  <2>1. up = "recovering" \/ up = "up"
    BY <1>2
  <2> QED BY <2>1 DEF End
<1> QED BY <1>6, <1>7, <1>8, <1>9

-----------------------------------------------------------------------------
(* Other mutations of the registry, crash and startup *)

\* Nobody recovers or commits with a journal when the queue admits another.
LEMMA StageFacts ==
    ASSUME NoStaleWrites, Inv, up \in {"boot", "up"}, holder = "none", ~blocked,
           Overlap => WithOverlap
    PROVE  /\ ~Overlap /\ pc \notin Commits \cup Restores
           /\ held # NoHeld => up = "up" /\ pc = "idle" /\ journal.phase # "prepared"
  BY DEF NoStaleWrites, Inv, TypeInv, Places, Uncertain, HeldFresh, Journaled

LEMMA RegistryStageStep == ASSUME NoStaleWrites, Inv, RegistryStage PROVE Inv' /\ Same
<1> USE DEF Inv, RegistryStage, memory, request, files
<1>1. /\ Same /\ up \in {"boot", "up"} /\ holder = "none" /\ ~blocked /\ holder' = "other"
      /\ UNCHANGED <<up, journal, catalogFile, recordsFile, labels, cache, blocked, pc, plan,
                     committed>>
  BY FilesUnchanged
<1>2. /\ ~Overlap /\ pc \notin Commits \cup Restores
      /\ held # NoHeld => up = "up" /\ pc = "idle" /\ journal.phase # "prepared"
  BY <1>1, StageFacts
<1>3. \A w \in Workspaces : cache[w] \in Record
  BY DEF TypeInv, Records, Record
<1>4. /\ staged' \in Records /\ Vacant(staged') /\ OtherStaged'
      /\ held' = NoHeld \/ (held' = held /\ (held # NoHeld => ~LabelsChange(staged)'))
  <2>1. CASE /\ held # NoHeld
             /\ staged' = [cache EXCEPT ![held.ws] = held.record] /\ held' = NoHeld
    <3>1. /\ held.ws \in Workspaces /\ held.record \in Record /\ held.record.present
          /\ held.record.labels = cache[held.ws].labels /\ journal.phase # "prepared"
      BY <1>2, <2>1 DEF TypeInv, HeldFresh
    <3>2. \A w \in Workspaces : staged'[w] = IF w = held.ws THEN held.record ELSE cache[w]
      BY <2>1, <3>1 DEF TypeInv, Records
    <3>3. staged' \in Records
      BY <1>3, <2>1, <3>1 DEF TypeInv, Records, Record
    <3>4. \A w \in Workspaces : staged'[w].labels = cache[w].labels
      BY <3>1, <3>2
    <3>5. Vacant(staged')
      BY <3>1, <3>2 DEF Vacant, GoneUnlabelled
    <3>6. KeepsLabels'
      BY <1>1, <3>1, <3>4 DEF KeepsLabels, LabelsOf
    <3> QED BY <2>1, <3>3, <3>5, <3>6 DEF OtherStaged
  <2>2. CASE /\ held' = held
             /\ held # NoHeld /\ LabelsChange(staged') => StaleRefresh
             /\ \E w \in Workspaces :
                   staged' \in {Archived(w), Unarchived(w), Removed(w)} \ {cache}
    <3>1. PICK w \in Workspaces : staged' \in {Archived(w), Unarchived(w), Removed(w)}
      BY <2>2
    <3>2. held # NoHeld => ~LabelsChange(staged)'
      BY <1>1, <2>2 DEF NoStaleWrites, LabelsChange, LabelsOf
    <3>3. CASE staged' = Archived(w) \/ staged' = Unarchived(w)
      <4>1. PICK a \in BOOLEAN : staged' = [cache EXCEPT ![w].archived = a]
        BY <3>3 DEF Archived, Unarchived
      <4>2. staged' \in Records
        BY <1>3, <4>1 DEF TypeInv, Records, Record
      <4>3. \A u \in Workspaces : /\ staged'[u].present = cache[u].present
                                  /\ staged'[u].labels = cache[u].labels
        BY <1>3, <4>1 DEF TypeInv, Records, Record
      <4>4. Vacant(staged')
        BY <4>3 DEF Vacant, GoneUnlabelled
      <4>5. KeepsLabels'
        BY <1>1, <4>3 DEF KeepsLabels, LabelsOf
      <4> QED BY <2>2, <3>2, <4>2, <4>4, <4>5 DEF OtherStaged
    <3>4. CASE staged' = Removed(w)
      <4> DEFINE gone == [present |-> FALSE, archived |-> FALSE, labels |-> {}]
      <4>1. staged' = [cache EXCEPT ![w] = gone] /\ gone \in Record
        BY <3>4 DEF Removed, Record
      <4>2. /\ staged' \in Records /\ staged'[w] = gone
            /\ \A u \in Workspaces \ {w} : staged'[u] = cache[u]
        BY <1>3, <4>1 DEF TypeInv, Records, Record
      <4>3. Vacant(staged')
        BY <4>2 DEF Vacant, GoneUnlabelled
      <4>4. Removes(w)'
        BY <1>1, <4>2 DEF Removes
      <4> QED BY <2>2, <3>2, <4>2, <4>3, <4>4 DEF OtherStaged
    <3> QED BY <3>1, <3>3, <3>4
  <2> QED BY <2>1, <2>2
<1>5. TypeInv'
  BY <1>1, <1>4 DEF TypeInv
<1>6. Places' /\ Uncertain' /\ Planned' /\ Restoring' /\ Journaled'
  BY <1>1, <1>2, PlanUnchanged DEF Places, Uncertain, Planned, Restoring, Journaled, Overlap,
     Commits, Writing, Restores, Rollback, Same, LabelsOf
<1>7. Durable'
  BY <1>1, <1>2 DEF Durable, Overlap, Same
<1>8. HeldFresh' /\ GoneUnlabelled'
  BY <1>1, <1>4 DEF HeldFresh, GoneUnlabelled, Vacant
<1> QED BY <1>1, <1>4, <1>5, <1>6, <1>7, <1>8

LEMMA RefreshReadStep == ASSUME NoStaleWrites, Inv, RefreshRead PROVE Inv' /\ Same
<1> USE DEF Inv, RefreshRead, memory, request, files
<1>1. /\ Same /\ up = "up" /\ pc = "idle" /\ (holder = "other" => ~LabelsChange(staged))
      /\ UNCHANGED <<up, journal, catalogFile, recordsFile, labels, cache, blocked, holder, pc,
                     plan, committed, staged>>
  BY FilesUnchanged DEF NoStaleWrites
<1>2. PICK w \in Workspaces : cache[w].present /\ held' = [ws |-> w, record |-> cache[w]]
  OBVIOUS
<1>3. cache[w] \in Record
  BY DEF TypeInv, Records, Record
<1>4. TypeInv'
  BY <1>1, <1>2, <1>3 DEF TypeInv
<1>5. Places' /\ Uncertain' /\ Planned' /\ Restoring' /\ Journaled' /\ GoneUnlabelled'
  BY <1>1 DEF Places, Uncertain, Planned, Restoring, Journaled, GoneUnlabelled, Overlap,
     Commits, Writing, Restores, Vacant
<1>6. Durable'
  BY <1>1 DEF Durable, Overlap, Same
<1>7. HeldFresh'
  BY <1>1, <1>2 DEF HeldFresh, LabelsChange, LabelsOf
<1>8. OtherStaged'
  BY <1>1 DEF OtherStaged, KeepsLabels, Removes, LabelsOf
<1> QED BY <1>1, <1>4, <1>5, <1>6, <1>7, <1>8

(* A workspace leaves the registry with its labels, or only other fields of  *)
(* a record change.                                                          *)
Dropped == \E w \in Workspaces : LC!Drop(w)
LabelsKept ==
    LogicalCatalog' = LogicalCatalog /\ LabelsOf(LogicalRecords)' = LabelsOf(LogicalRecords)

LEMMA SameKeepsLabels == ASSUME Same PROVE LabelsKept
  BY DEF Same, LabelsKept, LabelsOf

LEMMA OtherFacts ==
    ASSUME Inv, holder = "other"
    PROVE  /\ up \in {"boot", "up"} /\ ~Overlap /\ pc \notin Commits \cup Restores
           /\ up = "up" => labels = LogicalCatalog /\ cache = LogicalRecords
           /\ up = "boot" => cache = recordsFile
           /\ journal.phase = "prepared" => Rollback(cache, journal) = LogicalRecords
           /\ journal.phase # "prepared" => cache = LogicalRecords
<1>1. /\ up \in {"boot", "up"} /\ ~Overlap /\ pc \notin Commits \cup Restores
      /\ up = "up" => labels = LogicalCatalog /\ cache = LogicalRecords
      /\ up = "boot" => cache = recordsFile
  BY DEF Inv, TypeInv, Places, Uncertain, Durable, Restoring
<1>2. recordsFile \in Records /\ journal \in Journals
  BY DEF Inv, TypeInv
<1>3. journal.phase = "prepared" => Rollback(cache, journal) = LogicalRecords
  BY <1>1, <1>2, RollbackTwice DEF LogicalRecords
<1>4. journal.phase # "prepared" => cache = LogicalRecords
  BY <1>1 DEF LogicalRecords
<1> QED BY <1>1, <1>3, <1>4

\* The labels a restart would serve of a set of records.
Serves(records, w) ==
    IF journal.phase = "prepared" /\ w \in journal.touched /\ records[w].present
    THEN journal.before[w] ELSE records[w].labels

LEMMA RegistryWriteStep ==
    ASSUME Inv, RegistryWrite PROVE Inv' /\ (LabelsKept \/ Dropped)
<1> USE DEF Inv, RegistryWrite, request
<1>1. /\ holder = "other" /\ holder' = "none"
      /\ UNCHANGED <<up, journal, catalogFile, labels, blocked, pc, plan, committed, held>>
  OBVIOUS
<1>2. /\ up \in {"boot", "up"} /\ ~Overlap /\ pc \notin Commits \cup Restores
      /\ up = "up" => labels = LogicalCatalog /\ cache = LogicalRecords
      /\ up = "boot" => cache = recordsFile
      /\ journal.phase = "prepared" => Rollback(cache, journal) = LogicalRecords
      /\ journal.phase # "prepared" => cache = LogicalRecords
  BY <1>1, OtherFacts
<1>3. NoPlan.records \in Records
  BY DEF NoPlan, Records
<1>4. staged \in Records /\ cache \in Records /\ journal \in Journals /\ Vacant(staged)
  BY <1>1 DEF TypeInv, GoneUnlabelled
<1>5. CASE UNCHANGED <<recordsFile, cache>>
  <2>1. Same
    BY <1>1, <1>5, FilesUnchanged DEF files
  <2>2. TypeInv'
    BY <1>1, <1>3, <1>5 DEF TypeInv
  <2>3. Places' /\ Uncertain' /\ Planned' /\ Restoring' /\ GoneUnlabelled' /\ OtherStaged'
        /\ HeldFresh'
    BY <1>1, <1>2, <1>5, <2>1 DEF Places, Uncertain, Planned, Restoring, GoneUnlabelled,
       OtherStaged, HeldFresh, Overlap, Commits, Writing, Restores, Vacant, Rollback, Same
  <2>4. Durable' /\ Journaled'
    BY <1>1, <1>2, <1>5, <2>1 DEF Durable, Journaled, Overlap, Same, Commits
  <2> QED BY <2>1, <2>2, <2>3, <2>4, SameKeepsLabels
<1>6. CASE recordsFile' = staged /\ cache' = staged
  <2>1. \A w \in Workspaces : LogicalRecords'[w].labels = Serves(staged, w)
    <3>1. CASE journal.phase = "prepared"
      <4>1. LogicalRecords' = Rollback(staged, journal)
        BY <1>1, <1>6, <3>1 DEF LogicalRecords, Rollback
      <4> QED BY <1>4, <3>1, <4>1, RollbackFields DEF Serves
    <3>2. CASE journal.phase # "prepared"
      BY <1>1, <1>6, <3>2 DEF LogicalRecords, Serves
    <3> QED BY <3>1, <3>2
  <2>2. \A w \in Workspaces : LogicalRecords[w].labels = Serves(cache, w)
    <3>1. CASE journal.phase = "prepared"
      BY <1>2, <1>4, <3>1, RollbackFields DEF Serves
    <3>2. CASE journal.phase # "prepared"
      BY <1>2, <3>2 DEF Serves
    <3> QED BY <3>1, <3>2
  <2>3. LogicalCatalog' = LogicalCatalog
    BY <1>1 DEF LogicalCatalog
  <2>4. LabelsKept \/ Dropped
    <3>1. CASE KeepsLabels
      <4>1. \A w \in Workspaces : staged[w].labels = cache[w].labels
        BY <3>1 DEF KeepsLabels, LabelsOf
      <4>2. \A w \in Workspaces : Serves(staged, w) = Serves(cache, w)
        BY <3>1, <4>1 DEF KeepsLabels, Serves
      <4>3. LabelsOf(LogicalRecords)' = LabelsOf(LogicalRecords)
        BY <2>1, <2>2, <4>2 DEF LabelsOf
      <4> QED BY <2>3, <4>3 DEF LabelsKept
    <3>2. ASSUME NEW w \in Workspaces, Removes(w) PROVE LC!Drop(w)
      <4>1. Serves(staged, w) = {}
        BY <3>2 DEF Removes, Serves
      <4>2. \A u \in Workspaces \ {w} : Serves(staged, u) = Serves(cache, u)
        BY <3>2 DEF Removes, Serves
      <4>3. LabelsOf(LogicalRecords)' = [LabelsOf(LogicalRecords) EXCEPT ![w] = {}]
        BY <2>1, <2>2, <4>1, <4>2 DEF LabelsOf
      <4> QED BY <2>3, <4>3 DEF LC!Drop
    <3> QED BY <1>1, <3>1, <3>2 DEF OtherStaged, Dropped
  <2>5. up = "up" => LogicalRecords' = staged
    <3>1. CASE journal.phase # "prepared"
      BY <1>1, <1>6, <3>1 DEF LogicalRecords
    <3>2. CASE journal.phase = "prepared" /\ up = "up"
      <4>1. LogicalRecords' = Rollback(staged, journal)
        BY <1>1, <1>6, <3>2 DEF LogicalRecords, Rollback
      <4>2. \A w \in Workspaces : cache[w].labels = Serves(cache, w)
        BY <1>2, <2>2, <3>2
      <4>3. \A w \in Workspaces : staged[w].labels = Serves(staged, w)
        BY <1>1, <3>2, <4>2 DEF OtherStaged, KeepsLabels, Removes, LabelsOf, Serves
      <4>4. /\ Rollback(staged, journal) \in Records
            /\ \A w \in Workspaces :
                 /\ Rollback(staged, journal)[w].present = staged[w].present
                 /\ Rollback(staged, journal)[w].archived = staged[w].archived
                 /\ Rollback(staged, journal)[w].labels = staged[w].labels
        BY <1>4, <2>1, <4>1, <4>3, RollbackFields
      <4> QED BY <1>4, <4>1, <4>4, SameRecords
    <3> QED BY <3>1, <3>2
  <2>6. TypeInv'
    BY <1>1, <1>3, <1>4, <1>6 DEF TypeInv
  <2>7. Places' /\ Uncertain' /\ Planned' /\ GoneUnlabelled' /\ OtherStaged'
    BY <1>1, <1>2, <1>4, <1>6 DEF Places, Uncertain, Planned, GoneUnlabelled, OtherStaged,
       Overlap, Commits, Writing, Restores, Vacant
  <2>8. Durable' /\ Journaled'
    BY <1>1, <1>2, <1>6, <2>3, <2>5 DEF Durable, Journaled, Overlap, Commits
  <2>9. HeldFresh'
    <3>1. held # NoHeld => held.ws \in Workspaces
      BY DEF TypeInv
    <3>2. held # NoHeld => \A w \in Workspaces : staged[w].labels = cache[w].labels
      BY <1>1 DEF HeldFresh, LabelsChange, LabelsOf
    <3> QED BY <1>1, <1>6, <3>1, <3>2 DEF HeldFresh
  <2>10. Restoring'
    <3>1. pc = "recover" => LogicalRecords' = Rollback(staged, journal)
      BY <1>1, <1>6 DEF Restoring, LogicalRecords, Rollback
    <3> QED BY <1>1, <1>2, <1>6, <3>1 DEF Restoring, Restores, Rollback
  <2> QED BY <2>4, <2>6, <2>7, <2>8, <2>9, <2>10
<1> QED BY <1>5, <1>6

LEMMA CrashStep == ASSUME Inv, Crash PROVE Inv' /\ Same
<1> USE DEF Inv, Crash, files, memory
<1>1. /\ Same /\ up' = "down" /\ pc' = "idle" /\ holder' = "none" /\ held' = NoHeld
      /\ plan' = NoPlan /\ staged' = NoPlan.records
      /\ UNCHANGED <<journal, catalogFile, recordsFile, labels, cache, blocked, committed>>
  BY FilesUnchanged
<1>2. NoPlan \in PlanSet /\ NoPlan.records \in Records
  BY DEF NoPlan, PlanSet, Records, EmptyCatalog, Catalogs
<1>3. TypeInv'
  BY <1>1, <1>2 DEF TypeInv, Pcs
<1> QED
  BY <1>1, <1>3 DEF Places, Uncertain, Durable, Journaled, Planned, Restoring, OtherStaged,
     HeldFresh, GoneUnlabelled, Overlap, Commits, Writing, Restores, Vacant

LEMMA StartStep == ASSUME Inv, Start PROVE Inv' /\ Same
<1> USE DEF Inv, Start, files, request, writer
<1>1. /\ Same /\ up = "down" /\ up' = "boot" /\ cache' = recordsFile /\ labels' = EmptyCatalog
      /\ blocked' = FALSE
      /\ UNCHANGED <<journal, catalogFile, recordsFile, holder, pc, plan, committed, staged,
                     held>>
  BY FilesUnchanged
<1>2. EmptyCatalog \in Catalogs
  BY DEF EmptyCatalog, Catalogs
<1>3. TypeInv'
  BY <1>1, <1>2 DEF TypeInv
<1> QED
  BY <1>1, <1>3 DEF Places, Uncertain, Durable, Journaled, Planned, Restoring, OtherStaged,
     HeldFresh, GoneUnlabelled, Overlap, Commits, Writing, Restores, Vacant

LEMMA InitializeLabelsStep == ASSUME Inv, InitializeLabels PROVE Inv' /\ Same
<1> USE DEF Inv, InitializeLabels, writer
<1>1. /\ up = "boot" /\ holder = "none" /\ cache = recordsFile /\ pc = "idle" /\ held = NoHeld
      /\ UNCHANGED <<catalogFile, recordsFile, cache, blocked, holder, plan, committed, staged,
                     held>>
  BY DEF Restoring, Places, HeldFresh
<1>2. EmptyCatalog \in Catalogs
  BY DEF EmptyCatalog, Catalogs
<1>3. NoJournal \in Journals /\ NoJournal.phase = "none"
  BY <1>2 DEF NoJournal, Journals
<1>4. CASE /\ journal.phase = "prepared" /\ up' = "recovering" /\ pc' = "recover"
           /\ UNCHANGED <<journal, labels, faults>>
  <2>1. Same
    BY <1>1, <1>4, FilesUnchanged DEF files
  <2>2. TypeInv'
    BY <1>1, <1>4 DEF TypeInv, Pcs
  <2>3. ~blocked
    BY <1>1 DEF Places
  <2>4. Places' /\ Uncertain' /\ Planned' /\ OtherStaged' /\ HeldFresh' /\ GoneUnlabelled'
    BY <1>1, <1>4, <2>3 DEF Places, Uncertain, Planned, OtherStaged, HeldFresh, GoneUnlabelled, Overlap,
       Commits, Writing, Restores, Vacant
  <2>5. Durable' /\ Journaled'
    BY <1>1, <1>4 DEF Durable, Journaled, Writing
  <2>6. Restoring'
    <3>1. Rollback(cache, journal)' = LogicalRecords'
      BY <1>1, <1>4 DEF LogicalRecords, Rollback
    <3> QED BY <1>1, <1>4, <3>1 DEF Restoring, Restores
  <2> QED BY <2>1, <2>2, <2>4, <2>5, <2>6
<1>5. CASE /\ journal.phase # "prepared" /\ up' = "up" /\ labels' = catalogFile /\ pc' = pc
           /\ journal' \in {NoJournal, journal}
  <2>1. journal' \in Journals /\ journal'.phase # "prepared"
    BY <1>3, <1>5 DEF TypeInv
  <2>2. /\ LogicalRecords = recordsFile /\ LogicalRecords' = recordsFile
        /\ LogicalCatalog = catalogFile /\ LogicalCatalog' = catalogFile
    BY <1>1, <1>5, <2>1 DEF LogicalRecords, LogicalCatalog
  <2>3. TypeInv'
    BY <1>1, <1>5, <2>1 DEF TypeInv, Pcs
  <2>4. Same
    BY <2>2 DEF Same
  <2> QED
    BY <1>1, <1>5, <2>1, <2>2, <2>3, <2>4 DEF Places, Uncertain, Durable, Journaled, Planned,
       Restoring, OtherStaged, HeldFresh, GoneUnlabelled, Overlap, Commits, Writing, Restores,
       Vacant
<1> QED BY <1>4, <1>5

-----------------------------------------------------------------------------
(* The theorems *)

LEMMA LabelStepStep ==
    ASSUME Inv, LabelStep PROVE Inv' /\ (Same \/ Committed)
  BY WriteJournalStep, WriteCatalogStep, WriteRecordsStep, WriteMarkerStep, CleanupStep,
     ResolveStep, BlockStep, RecoverStageStep, RecoverCatalogStep, RecoverRecordsStep,
     RecoverRemoveStep DEF LabelStep

LEMMA StutterStep == ASSUME Inv, UNCHANGED vars PROVE Inv' /\ Same
<1> USE DEF Inv, vars, files, memory, request, writer
<1>1. Same
  BY FilesUnchanged
<1>2. TypeInv' /\ Places' /\ Uncertain' /\ HeldFresh' /\ GoneUnlabelled' /\ OtherStaged'
  BY DEF TypeInv, Places, Uncertain, HeldFresh, GoneUnlabelled, OtherStaged, Overlap, Vacant,
     LabelsChange, LabelsOf, KeepsLabels, Removes
<1>3. Durable' /\ Journaled' /\ Restoring'
  BY <1>1 DEF Durable, Journaled, Restoring, Overlap, LabelsOf, Rollback, Same
<1>4. Planned'
  BY PlanUnchanged DEF Planned
<1> QED BY <1>1, <1>2, <1>3, <1>4

LEMMA NextStep ==
    ASSUME NoStaleWrites, Inv, [Next]_vars
    PROVE  Inv' /\ (LabelsKept \/ Dropped \/ Committed)
<1>1. CASE \E r \in LC!Requests : Request(r)
  BY <1>1, RequestStep, SameKeepsLabels
<1>2. CASE LabelStep
  BY <1>2, LabelStepStep, SameKeepsLabels
<1>3. CASE RegistryStage \/ RefreshRead \/ RegistryWrite
  BY <1>3, RegistryStageStep, RefreshReadStep, RegistryWriteStep, SameKeepsLabels
<1>4. CASE Crash \/ Start \/ InitializeLabels
  BY <1>4, CrashStep, StartStep, InitializeLabelsStep, SameKeepsLabels
<1>5. CASE UNCHANGED vars
  BY <1>5, StutterStep, SameKeepsLabels
<1> QED BY <1>1, <1>2, <1>3, <1>4, <1>5 DEF Next

(* Files, journal and memory agree in every state, whatever fails or crashes. *)
THEOREM LabelInvariant == ASSUME NoStaleWrites PROVE Spec => []Inv
<1>1. Init => Inv
  BY InitInv
<1>2. Inv /\ [Next]_vars => Inv'
  BY NextStep
<1> QED BY <1>1, <1>2, PTL DEF Spec

(* The compound commit implements the abstract catalog: what a restart would *)
(* serve changes by whole accepted requests and by workspaces that leave the *)
(* registry, and by nothing else.                                            *)
THEOREM CommitIsAtomic == ASSUME NoStaleWrites PROVE Spec => AtomicCommit
<1>1. Init => LC!Init
  <2> SUFFICES ASSUME Init PROVE LC!Init
    OBVIOUS
  <2>1. LogicalCatalog = EmptyCatalog /\ LogicalRecords = recordsFile
    BY DEF Init, LogicalCatalog, LogicalRecords, NoJournal
  <2> QED BY <2>1 DEF Init, LC!Init, EmptyCatalog, LabelsOf
<1>2. Inv /\ [Next]_vars => [LC!Next]_<<LogicalCatalog, LabelsOf(LogicalRecords)>>
  <2> SUFFICES ASSUME Inv, [Next]_vars
               PROVE  [LC!Next]_<<LogicalCatalog, LabelsOf(LogicalRecords)>>
    OBVIOUS
  <2>1. LabelsKept \/ Dropped \/ Committed
    BY NextStep
  <2> QED BY <2>1 DEF LabelsKept, Dropped, Committed, LC!Next
<1> QED BY <1>1, <1>2, LabelInvariant, PTL DEF Spec, AtomicCommit, LC!Spec

-----------------------------------------------------------------------------
(* What follows from the invariant and the refinement.                       *)

(* Outside a freeze and its preparation, every read is served from what a    *)
(* restart would load.                                                       *)
THEOREM ReadsAreDurable == ASSUME NoStaleWrites PROVE Spec => []CachesAreDurable
<1>1. Inv => CachesAreDurable
  BY DEF Inv, Durable, CachesAreDurable, Overlap, Undecided
<1> QED BY <1>1, LabelInvariant, PTL

LEMMA CommitKeepsDefined ==
    ASSUME TypeInv, AssignedIsDefined, NEW r \in LC!Requests, LC!Commit(r)
    PROVE  AssignedIsDefined'
<1> DEFINE cat == LogicalCatalog
           asg == LabelsOf(LogicalRecords)
<1>1. /\ cat \in Catalogs /\ asg \in [Workspaces -> SUBSET Names]
      /\ \A w \in Workspaces : asg[w] \subseteq LC!Defined(cat)
  BY LogicalTypes DEF AssignedIsDefined, LC!AssignedIsDefined, LabelsOf, Records
<1>2. /\ ~LC!Missing(r, cat) /\ ~LC!Collides(r, cat)
      /\ cat' = LC!AfterCatalog(r, cat) /\ asg' = LC!AfterLabels(r, asg, cat)
  BY DEF LC!Commit
<1>3. /\ r.kind \in {"assign", "unassign", "update", "delete", "count"} /\ r.name \in Names
      /\ r.kind \in {"assign", "unassign"} => r.ws \in Workspaces
      /\ r.kind \in {"assign", "update"} => r.color \in Colors
      /\ r.kind = "update" => r.newName \in Names
  BY RequestFields
<1> SUFFICES ASSUME NEW w \in Workspaces, NEW n \in asg'[w]
             PROVE  n \in Names /\ cat'[n] # NoColor
  BY DEF AssignedIsDefined, LC!AssignedIsDefined, LC!Defined
<1>4. \A m \in asg[w] : m \in Names /\ cat[m] # NoColor
  BY <1>1 DEF LC!Defined
<1> HIDE DEF cat, asg
<1>5. CASE r.kind = "assign"
  <2>1. asg' = [asg EXCEPT ![r.ws] = @ \cup {r.name}]
    BY <1>2, <1>5 DEF LC!AfterLabels
  <2>2. n \in asg[w] \/ n = r.name
    BY <1>1, <1>3, <1>5, <2>1
  <2>3. cat' = IF cat[r.name] = NoColor THEN [cat EXCEPT ![r.name] = r.color] ELSE cat
    BY <1>2, <1>5 DEF LC!AfterCatalog
  <2> QED BY <1>1, <1>3, <1>4, <1>5, <2>2, <2>3 DEF Catalogs
<1>6. CASE r.kind = "unassign"
  <2>1. asg' = [asg EXCEPT ![r.ws] = @ \ {r.name}] /\ cat' = cat
    BY <1>2, <1>6 DEF LC!AfterLabels, LC!AfterCatalog
  <2>2. n \in asg[w]
    BY <1>1, <1>3, <1>6, <2>1
  <2> QED BY <1>4, <2>1, <2>2
<1>7. CASE r.kind = "update"
  <2>1. asg' = [v \in Workspaces |-> LC!Renamed(r, asg[v])]
    BY <1>2, <1>7 DEF LC!AfterLabels
  <2>2. cat' = [cat EXCEPT ![r.name] = NoColor, ![r.newName] = r.color]
    BY <1>2, <1>7 DEF LC!AfterCatalog
  <2>3. n = r.newName \/ (n \in asg[w] /\ n # r.name)
    BY <2>1 DEF LC!Renamed
  <2> QED BY <1>1, <1>3, <1>4, <1>7, <2>2, <2>3 DEF Catalogs
<1>8. CASE r.kind = "delete"
  <2>1. cat' = [cat EXCEPT ![r.name] = NoColor]
    BY <1>2, <1>8 DEF LC!AfterCatalog
  <2>2. asg' = IF cat[r.name] # NoColor THEN [v \in Workspaces |-> asg[v] \ {r.name}] ELSE asg
    BY <1>2, <1>8 DEF LC!AfterLabels
  <2>3. n \in asg[w] /\ n # r.name
    BY <1>4, <2>2
  <2> QED BY <1>1, <1>4, <2>1, <2>3 DEF Catalogs
<1>9. CASE r.kind = "count"
  BY <1>2, <1>4, <1>9 DEF LC!AfterLabels, LC!AfterCatalog
<1> QED BY <1>3, <1>5, <1>6, <1>7, <1>8, <1>9

(* No crash, failed write or other mutation leaves a workspace with a label  *)
(* name that the catalog a restart would serve does not define.              *)
THEOREM EveryLabelDefined == ASSUME NoStaleWrites PROVE Spec => []AssignedIsDefined
<1>1. Init => AssignedIsDefined
  <2> SUFFICES ASSUME Init PROVE AssignedIsDefined
    OBVIOUS
  <2>1. LogicalRecords = recordsFile
    BY DEF Init, LogicalRecords, NoJournal
  <2> QED BY <2>1 DEF Init, AssignedIsDefined, LC!AssignedIsDefined, LabelsOf
<1>2. Inv /\ AssignedIsDefined /\ [Next]_vars => AssignedIsDefined'
  <2> SUFFICES ASSUME Inv, AssignedIsDefined, [Next]_vars PROVE AssignedIsDefined'
    OBVIOUS
  <2>1. LabelsKept \/ Dropped \/ Committed
    BY NextStep
  <2>2. CASE LabelsKept
    BY <2>2 DEF LabelsKept, AssignedIsDefined, LC!AssignedIsDefined
  <2>3. ASSUME NEW w \in Workspaces, LC!Drop(w) PROVE AssignedIsDefined'
    <3>1. LabelsOf(LogicalRecords)' = [LabelsOf(LogicalRecords) EXCEPT ![w] = {}]
      BY <2>3 DEF LC!Drop
    <3>2. LogicalCatalog' = LogicalCatalog
      BY <2>3 DEF LC!Drop
    <3> QED BY <3>1, <3>2 DEF AssignedIsDefined, LC!AssignedIsDefined, LabelsOf
  <2> QED BY <2>1, <2>2, <2>3, CommitKeepsDefined DEF Dropped, Committed, Inv
<1> QED BY <1>1, <1>2, LabelInvariant, PTL DEF Spec

\* A request that is under way is unanswered, and so is every request of a
\* daemon that went down.
Unanswered == pc # "idle" \/ up # "up" => outcome = "none"

LEMMA UnansweredStep ==
    ASSUME Inv, Unanswered, RejectedHasNoEffect, [Next]_vars
    PROVE  Unanswered' /\ RejectedHasNoEffect'
<1> USE DEF Inv, Unanswered, RejectedHasNoEffect, End
<1>1. ASSUME NEW r \in LC!Requests, Request(r) PROVE Unanswered' /\ RejectedHasNoEffect'
  BY <1>1 DEF Request
<1>2. CASE WriteJournal \/ WriteCatalog \/ WriteRecords \/ WriteMarker
  BY <1>2 DEF WriteJournal, WriteCatalog, WriteRecords, WriteMarker, Reject
<1>3. CASE Cleanup \/ Block
  BY <1>3 DEF Cleanup, Block, Places, TypeInv, Restores
<1>4. CASE Resolve
  BY <1>4 DEF Resolve, Uncertain, Overlap, Places, TypeInv, Restores
<1>5. CASE RecoverStage
  BY <1>5 DEF RecoverStage
<1>6. CASE RecoverCatalog \/ RecoverRecords
  BY <1>6 DEF RecoverCatalog, RecoverRecords, RecoveryFails
<1>7. CASE RecoverRemove
  <2>1. ~committed
    BY <1>7 DEF RecoverRemove, Uncertain, Restores
  <2> QED BY <1>7, <2>1 DEF RecoverRemove, RecoveryFails, Places, TypeInv, Restores
<1>8. CASE RegistryStage \/ RefreshRead \/ RegistryWrite
  BY <1>8 DEF RegistryStage, RefreshRead, RegistryWrite, request
<1>9. CASE Crash \/ Start \/ InitializeLabels
  BY <1>9 DEF Crash, Start, InitializeLabels, request
<1>10. CASE UNCHANGED vars
  BY <1>10 DEF vars, request
<1> QED BY <1>1, <1>2, <1>3, <1>4, <1>5, <1>6, <1>7, <1>8, <1>9, <1>10 DEF Next, LabelStep

(* A rejection is never sent for a commit that is durable.                   *)
THEOREM RejectionIsTrue == ASSUME NoStaleWrites PROVE Spec => []RejectedHasNoEffect
<1>1. Init => Unanswered /\ RejectedHasNoEffect
  BY DEF Init, Unanswered, RejectedHasNoEffect
<1>2. Inv /\ Unanswered /\ RejectedHasNoEffect /\ [Next]_vars
          => (Unanswered /\ RejectedHasNoEffect)'
  BY UnansweredStep
<1> QED BY <1>1, <1>2, LabelInvariant, PTL DEF Spec

\* No label write changes another field of a record on disk.
FieldsKept ==
    \A w \in Workspaces :
        holder # "other" =>
            /\ recordsFile'[w].present = recordsFile[w].present
            /\ recordsFile'[w].archived = recordsFile[w].archived

LEMMA FieldsKeptStep == ASSUME Inv, [Next]_vars PROVE FieldsKept
<1>1. CASE WriteRecords
  <2>1. pc = "records" /\ recordsFile' \in {recordsFile, plan.records}
    BY <1>1 DEF WriteRecords
  <2>2. PICK r \in LC!Requests : ~Refused(r) /\ plan = Staged(r)
    BY <2>1 DEF Inv, Planned, Commits, Writing
  <2>3. recordsFile = cache
    BY <2>1 DEF Inv, Planned
  <2>4. \A w \in Workspaces : /\ plan.records[w].present = cache[w].present
                              /\ plan.records[w].archived = cache[w].archived
    BY <2>2, StagedPlan DEF Inv, GoneUnlabelled
  <2> QED BY <2>1, <2>3, <2>4 DEF FieldsKept
<1>2. CASE RecoverRecords
  <2>1. pc = "rRecords" /\ recordsFile' \in {recordsFile, Rollback(cache, journal)}
    BY <1>2 DEF RecoverRecords
  <2>2. journal.phase = "prepared" /\ Rollback(cache, journal) = LogicalRecords
    BY <2>1 DEF Inv, Restoring, Restores
  <2>3. Rollback(cache, journal) = Rollback(recordsFile, journal)
    BY <2>2 DEF LogicalRecords
  <2>4. recordsFile \in Records /\ journal \in Journals
    BY DEF Inv, TypeInv
  <2> QED BY <2>1, <2>3, <2>4, RollbackFields DEF FieldsKept
<1>3. CASE RegistryWrite
  BY <1>3 DEF RegistryWrite, FieldsKept
<1>4. CASE \E r \in LC!Requests : Request(r)
  BY <1>4 DEF Request, files, FieldsKept
<1>5. CASE WriteJournal \/ WriteCatalog \/ WriteMarker \/ Cleanup \/ Resolve \/ Block
  BY <1>5 DEF WriteJournal, WriteCatalog, WriteMarker, Cleanup, Resolve, Block, files, FieldsKept
<1>6. CASE RecoverStage \/ RecoverCatalog \/ RecoverRemove
  BY <1>6 DEF RecoverStage, RecoverCatalog, RecoverRemove, files, FieldsKept
<1>7. CASE RegistryStage \/ RefreshRead
  BY <1>7 DEF RegistryStage, RefreshRead, files, FieldsKept
<1>8. CASE Crash \/ Start \/ InitializeLabels
  BY <1>8 DEF Crash, Start, InitializeLabels, files, FieldsKept
<1>9. CASE UNCHANGED vars
  BY <1>9 DEF vars, files, FieldsKept
<1> QED BY <1>1, <1>2, <1>3, <1>4, <1>5, <1>6, <1>7, <1>8, <1>9 DEF Next, LabelStep

(* An archive or a removal that another mutation made durable is undone by   *)
(* no commit, rollback or recovery.                                          *)
THEOREM LabelWritesOnlyLabels == ASSUME NoStaleWrites PROVE Spec => RegistryFieldsKept
<1>1. Inv /\ [Next]_vars => [FieldsKept]_vars
  BY FieldsKeptStep
<1> QED BY <1>1, LabelInvariant, PTL DEF Spec, RegistryFieldsKept, FieldsKept
=============================================================================
