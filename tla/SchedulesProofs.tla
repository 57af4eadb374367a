--------------------------- MODULE SchedulesProofs ---------------------------
(***************************************************************************)
(* Theorems about Schedules, for any number of overlapping ticks and       *)
(* requests and any bounds on time, edits, failed writes and restarts.     *)
(*                                                                         *)
(* One inductive invariant carries them: what each piece of memory knows   *)
(* about the record on disk.  A thread that executes holds the schedule's  *)
(* place in runningScheduleIds and a run recorded as running; a result in  *)
(* hand agrees with the Team Runs admitted; recovery starts from empty     *)
(* memory; and stop() waits for every execution there is.                  *)
(***************************************************************************)
EXTENDS Schedules, TLAPS

USE SchedulesAssumption

Results == {"ok", "failed", "gone"}
Pcs == {"idle", "due", "ended", "append", "execute", "finish"}
Slots == Nat \cup {NoSlot}
Activities == [pc : Pcs, at : Nat, id : Nat, result : Results \cup {"none"}]

Files ==
    [exists : BOOLEAN, status : {"active", "paused", "completed"}, limit : Slots,
     expires : Slots, next : Slots, runs : Seq(RunType)]

\* An active schedule has a next run, and no other has.
DueIffActive(s) == s.status = "active" <=> s.next # NoSlot

TypeInv ==
    /\ file \in Files /\ DueIffActive(file)
    /\ target \in {"team", "agent"} /\ now \in Nat
    /\ teamRuns \subseteq DOMAIN file.runs
    /\ mode \in {"up", "stopping", "stopped", "down", "recover", "record", "advance", "sweep"}
    /\ occurrence \in [id : Nat, result : Results \cup {"none"}]
    /\ running \in BOOLEAN
    /\ fire \in [Threads -> Activities]
    /\ draining \subseteq Threads
    /\ faults \in Nat

\* Who executes holds the schedule's place, and nobody else does.
Mutex ==
    /\ \A t \in Threads : InFlight(t) => running
    /\ \A t, u \in Threads : InFlight(t) /\ InFlight(u) => t = u

\* An execution that has been recorded is still recorded as running.
Working(t) == fire[t].pc \in {"execute", "finish"}
HasRun == \A t \in Threads : Working(t) => fire[t].id \in Running(file)

\* A result in hand says whether a Team Run was admitted.
ResultInHand ==
    /\ \A t \in Threads : fire[t].pc = "finish" =>
          /\ fire[t].result \in Results
          /\ target = "team" => (fire[t].result = "ok" <=> fire[t].id \in teamRuns)
    /\ mode = "record" =>
          /\ target = "team" /\ file.exists /\ occurrence.id \in Running(file)
          /\ occurrence.result \in Results
          /\ occurrence.result = "ok" <=> occurrence.id \in teamRuns

\* A daemon that is down or starting has nothing in memory.
Quiet == ~Serving => ~running /\ \A t \in Threads : fire[t].pc = "idle"

\* stop() waits for every execution of a Team Run schedule.
Awaited ==
    /\ mode \in {"stopping", "stopped"} /\ target = "team" =>
          \A t \in Threads : InFlight(t) => t \in draining
    /\ mode = "stopped" => draining = {}

\* Unless a write failed, a run recorded as running is executing, or is the
\* one that a restart has still to close.
Accounted ==
    file.exists /\ faults = 0 =>
        /\ \A i, j \in Running(file) : i = j
        /\ Serving => \A i \in Running(file) : \E t \in Threads : Working(t) /\ fire[t].id = i
        /\ mode \in {"advance", "sweep"} => Running(file) = {}

Ids == \A t \in Threads : fire[t].id \in {0} \cup DOMAIN file.runs

Inv == /\ TypeInv /\ Mutex /\ HasRun /\ ResultInHand /\ Quiet /\ Awaited /\ Accounted
       /\ AdmissionsRecorded /\ Ids

-----------------------------------------------------------------------------
(* The record *)

LEMMA CompletedFile ==
    ASSUME NEW s \in Files
    PROVE  /\ Completed(s) \in Files /\ DueIffActive(Completed(s))
           /\ Completed(s).runs = s.runs /\ Completed(s).exists = s.exists
  BY DEF Files, Slots, Completed, DueIffActive

LEMMA AdvanceSlot ==
    ASSUME now \in Nat, NEW n \in Nat
    PROVE  Advance(n) \in Nat /\ NextSlot(n) \in Nat /\ Advance(n) \in Slots
           /\ Advance(n) # NoSlot /\ NextSlot(n) # NoSlot
  BY DEF Advance, NextSlot, Slots

LEMMA PastDueFile ==
    ASSUME now \in Nat, NEW s \in Files, DueIffActive(s)
    PROVE  /\ PastDue(s) \in Files /\ DueIffActive(PastDue(s))
           /\ PastDue(s).runs = s.runs /\ PastDue(s).exists = s.exists
  BY AdvanceSlot DEF Files, Slots, PastDue, Overdue, DueIffActive

(* Ending a run changes its status and no other run.                         *)
EndRun(s, i, status) == [s EXCEPT !.runs[i].status = status]

LEMMA EndRunFile ==
    ASSUME NEW s \in Files, NEW i \in Running(s), NEW status \in {"succeeded", "failed"},
           NEW f, f = EndRun(s, i, status)
    PROVE  /\ f \in Files /\ f.status = s.status /\ f.next = s.next /\ f.exists = s.exists
           /\ DOMAIN f.runs = DOMAIN s.runs /\ f.runs[i].status = status
           /\ \A j \in DOMAIN s.runs : j # i => f.runs[j] = s.runs[j]
           /\ Running(f) = Running(s) \ {i}
<1> DEFINE g == [s.runs EXCEPT ![i].status = status]
<1>1. i \in DOMAIN s.runs /\ s.runs \in Seq(RunType)
  BY DEF Running, Files
<1>2. s.runs[i] \in RunType
  BY <1>1
<1>3. [s.runs[i] EXCEPT !.status = status] \in RunType
  BY <1>2 DEF RunType
<1>4. g \in Seq(RunType) /\ DOMAIN g = DOMAIN s.runs
  BY <1>1, <1>3
<1>5. f = [s EXCEPT !.runs = g]
  BY <1>1 DEF EndRun, Files
<1>6. /\ f \in Files /\ f.status = s.status /\ f.next = s.next /\ f.exists = s.exists
      /\ f.runs = g
  BY <1>4, <1>5 DEF Files
<1>7. g[i].status = status /\ \A j \in DOMAIN s.runs : j # i => g[j] = s.runs[j]
  BY <1>1, <1>2 DEF RunType
<1>8. Running(f) = Running(s) \ {i}
  BY <1>4, <1>6, <1>7 DEF Running
<1> QED BY <1>4, <1>6, <1>7, <1>8

(* finishRun ends its run, leaves the others alone and keeps the record      *)
(* well-formed, whatever happened to the schedule during the run.            *)
LEMMA FinishRunFile ==
    ASSUME now \in Nat, NEW s \in Files, DueIffActive(s), NEW i \in Running(s),
           NEW result \in Results, NEW f, f = FinishRun(s, i, result)
    PROVE  /\ f \in Files /\ DueIffActive(f) /\ f.exists = s.exists
           /\ DOMAIN f.runs = DOMAIN s.runs
           /\ f.runs[i].status = IF result = "ok" THEN "succeeded" ELSE "failed"
           /\ \A j \in DOMAIN s.runs : j # i => f.runs[j] = s.runs[j]
           /\ Running(f) = Running(s) \ {i}
<1> DEFINE status == IF result = "ok" THEN "succeeded" ELSE "failed"
           e == EndRun(s, i, status)
           n == Advance(IF s.next = NoSlot THEN now ELSE s.next)
<1>1. /\ e \in Files /\ e.status = s.status /\ e.next = s.next /\ e.exists = s.exists
      /\ DOMAIN e.runs = DOMAIN s.runs /\ e.runs[i].status = status
      /\ \A j \in DOMAIN s.runs : j # i => e.runs[j] = s.runs[j]
      /\ Running(e) = Running(s) \ {i}
  BY EndRunFile
<1>2. n \in Slots /\ n # NoSlot
  BY AdvanceSlot DEF Files, Slots
<1>3. \/ f = Completed(e)
      \/ f = e
      \/ f = [e EXCEPT !.next = NoSlot] /\ e.status = "paused"
      \/ f = [e EXCEPT !.next = n] /\ e.status = "active"
  <2> HIDE DEF n
  <2>1. e.status \in {"active", "paused", "completed"}
    BY <1>1 DEF Files
  <2> QED BY <2>1 DEF FinishRun, EndRun, Results, n
<1> HIDE DEF e, n
<1>4. f \in Files /\ DueIffActive(f) /\ f.runs = e.runs /\ f.exists = e.exists
  BY <1>1, <1>2, <1>3, CompletedFile DEF Files, DueIffActive, Slots
<1>5. Running(f) = Running(e)
  BY <1>4 DEF Running
<1> QED BY <1>1, <1>4, <1>5 DEF status

LEMMA AppendRunFile ==
    ASSUME NEW s \in Files, DueIffActive(s), NEW r \in RunType, r.status = "running",
           NEW f, f = [s EXCEPT !.runs = Append(@, r)], NEW n, n = Len(s.runs) + 1
    PROVE  /\ f \in Files /\ DueIffActive(f) /\ f.exists = s.exists
           /\ n \in Nat /\ n \notin DOMAIN s.runs /\ DOMAIN f.runs = DOMAIN s.runs \cup {n}
           /\ \A j \in DOMAIN s.runs : f.runs[j] = s.runs[j]
           /\ Running(f) = Running(s) \cup {n}
<1> DEFINE g == Append(s.runs, r)
<1>1. s.runs \in Seq(RunType)
  BY DEF Files
<1>2. /\ g \in Seq(RunType) /\ n \in Nat /\ DOMAIN g = DOMAIN s.runs \cup {n}
      /\ g[n] = r /\ n \notin DOMAIN s.runs
      /\ \A j \in DOMAIN s.runs : g[j] = s.runs[j]
  BY <1>1
<1>3. f \in Files /\ f.runs = g /\ f.status = s.status /\ f.next = s.next
      /\ f.exists = s.exists
  BY <1>2 DEF Files
<1> HIDE DEF g
<1>4. Running(f) = Running(s) \cup {n}
  BY <1>2, <1>3 DEF Running
<1> QED BY <1>2, <1>3, <1>4 DEF DueIffActive

(* Nothing the invariant says of the runs changes with the rest of a record. *)
LEMMA SameRuns ==
    ASSUME NEW s, NEW f, f.runs = s.runs
    PROVE  Running(f) = Running(s) /\ DOMAIN f.runs = DOMAIN s.runs
  BY DEF Running

(* What a thread does next, or that it is done, is again an activity.        *)
LEMMA FireTypes ==
    ASSUME fire \in [Threads -> Activities], NEW t \in Threads
    PROVE  /\ [fire EXCEPT ![t] = Idle] \in [Threads -> Activities]
           /\ \A pc \in Pcs : [fire EXCEPT ![t].pc = pc] \in [Threads -> Activities]
           /\ \A pc \in Pcs, n \in Nat :
                 [fire EXCEPT ![t].pc = pc, ![t].id = n] \in [Threads -> Activities]
           /\ \A pc \in Pcs, result \in Results :
                 [fire EXCEPT ![t].pc = pc, ![t].result = result] \in [Threads -> Activities]
<1>1. Idle \in Activities
  BY DEF Idle, Activities, Pcs
<1>2. fire[t] \in Activities
  OBVIOUS
<1>3. \A pc \in Pcs : [fire[t] EXCEPT !.pc = pc] \in Activities
  BY <1>2 DEF Activities
<1>4. \A pc \in Pcs, n \in Nat : [fire[t] EXCEPT !.pc = pc, !.id = n] \in Activities
  BY <1>2 DEF Activities
<1>5. \A pc \in Pcs, result \in Results :
        [fire[t] EXCEPT !.pc = pc, !.result = result] \in Activities
  BY <1>2 DEF Activities
<1>6. \A a \in Activities : [fire EXCEPT ![t] = a] \in [Threads -> Activities]
  OBVIOUS
<1> QED BY <1>1, <1>2, <1>3, <1>4, <1>5, <1>6

(* A step that leaves the runs and the threads alone, and only of the rest   *)
(* of the record makes something else, is harmless while the daemon serves.  *)
LEMMA EditInv ==
    ASSUME Inv, Serving, file' \in Files, DueIffActive(file'), file'.runs = file.runs,
           file'.exists => file.exists,
           UNCHANGED <<target, teamRuns, now, mode, occurrence, running, fire, draining, faults>>
    PROVE  Inv'
<1> USE DEF Inv
<1>1. Running(file)' = Running(file) /\ DOMAIN file'.runs = DOMAIN file.runs
  BY DEF Running
<1>2. TypeInv'
  BY <1>1 DEF TypeInv, DueIffActive
<1>3. Mutex' /\ HasRun' /\ Quiet' /\ Awaited' /\ Ids' /\ AdmissionsRecorded'
  BY <1>1 DEF Mutex, HasRun, Quiet, Awaited, Ids, AdmissionsRecorded, InFlight, Working, Serving
<1>4. ResultInHand' /\ Accounted'
  BY <1>1 DEF ResultInHand, Accounted, Working, Serving
<1> QED BY <1>2, <1>3, <1>4

-----------------------------------------------------------------------------
(* The steps *)

LEMMA InitInv == Init => Inv
<1> SUFFICES ASSUME Init PROVE Inv
  OBVIOUS
<1>1. file \in Files /\ DueIffActive(file) /\ DOMAIN file.runs = {} /\ Running(file) = {}
  BY DEF Init, Files, Slots, NextSlot, DueIffActive, Running
<1>2. fire \in [Threads -> Activities]
  BY DEF Init, Idle, Pcs, Activities
<1>3. TypeInv
  BY <1>1, <1>2 DEF Init, TypeInv, NoOccurrence
<1> QED
  BY <1>1, <1>3 DEF Init, Inv, Mutex, HasRun, ResultInHand, Quiet, Awaited, Accounted, Ids,
     AdmissionsRecorded, InFlight, Working, Serving, Idle

(* A thread that takes up this schedule without executing it disturbs nothing. *)
LEMMA TakeUpInv ==
    ASSUME Inv, acceptingDispatches, NEW t \in Threads, NEW a \in Activities,
           fire[t].pc = "idle", a.pc \in {"due", "ended"}, a.id = 0,
           fire' = [fire EXCEPT ![t] = a],
           UNCHANGED <<file, target, teamRuns, now, mode, occurrence, running, draining, faults>>
    PROVE  Inv'
<1> USE DEF Inv
<1>1. fire' \in [Threads -> Activities]
  BY DEF TypeInv
<1>2. \A u \in Threads : u # t => fire'[u] = fire[u]
  BY DEF TypeInv
<1>3. fire'[t] = a /\ Serving
  BY DEF TypeInv, Serving, acceptingDispatches
<1>4. TypeInv'
  BY <1>1 DEF TypeInv
<1> HIDE DEF Activities
<1>5. Mutex' /\ HasRun' /\ Awaited' /\ Ids'
  BY <1>2, <1>3 DEF Mutex, HasRun, Awaited, Ids, InFlight, Working, Running
<1>6. ResultInHand' /\ Quiet' /\ AdmissionsRecorded'
  BY <1>2, <1>3 DEF ResultInHand, Quiet, AdmissionsRecorded, Serving, Running
<1>7. Accounted'
  <2>1. Running(file)' = Running(file)
    BY DEF Running
  <2>2. \A u \in Threads : Working(u) => Working(u)' /\ fire'[u].id = fire[u].id
    BY <1>2, <1>3 DEF Working
  <2> QED BY <2>1, <2>2 DEF Accounted, Serving
<1> QED BY <1>4, <1>5, <1>6, <1>7

LEMMA TickInv == ASSUME Inv, NEW t \in Ticks, Tick(t) PROVE Inv'
<1> DEFINE a == [Idle EXCEPT !.pc = "ended", !.at = now]
           b == [Idle EXCEPT !.pc = "due"]
<1>1. t \in Threads /\ now \in Nat
  BY DEF Threads, Inv, TypeInv
<1>2. a \in Activities /\ a.pc = "ended" /\ a.id = 0
  BY <1>1 DEF Idle, Activities, Pcs
<1>3. b \in Activities /\ b.pc = "due" /\ b.id = 0
  BY DEF Idle, Activities, Pcs
<1>4. fire' = [fire EXCEPT ![t] = a] \/ fire' = [fire EXCEPT ![t] = b]
  BY DEF Tick
<1> HIDE DEF a, b
<1> QED BY <1>1, <1>2, <1>3, <1>4, TakeUpInv DEF Tick, budgets

LEMMA InspectInv == ASSUME Inv, NEW t \in Manuals, Inspect(t) PROVE Inv'
<1> DEFINE b == [Idle EXCEPT !.pc = "due"]
<1>1. t \in Threads
  BY DEF Threads
<1>2. b \in Activities /\ b.pc = "due" /\ b.id = 0
  BY DEF Idle, Activities, Pcs
<1>3. fire' = [fire EXCEPT ![t] = b]
  BY DEF Inspect
<1> HIDE DEF b
<1> QED BY <1>1, <1>2, <1>3, TakeUpInv DEF Inspect

LEMMA BeginInv == ASSUME Inv, NEW t \in Threads, Begin(t) PROVE Inv'
<1> USE DEF Begin, Inv
<1>1. CASE acceptingDispatches /\ ~running
  <2>1. TypeInv'
    <3>1. fire' = [fire EXCEPT ![t].pc = "append"] /\ "append" \in Pcs
      BY <1>1 DEF Goto, Pcs
    <3>2. fire' \in [Threads -> Activities]
      BY <3>1, FireTypes DEF TypeInv
    <3> QED BY <1>1, <3>2 DEF TypeInv, Goto, budgets
  <2>2. \A u \in Threads : ~InFlight(u)
    BY <1>1 DEF Mutex
  <2>3. fire'[t].pc = "append" /\ fire'[t].id = fire[t].id
        /\ \A u \in Threads : u # t => fire'[u] = fire[u]
    BY <1>1 DEF Goto, TypeInv, Activities
  <2>4. Serving
    BY <1>1 DEF Serving, acceptingDispatches
  <2>5. Mutex' /\ HasRun' /\ Awaited' /\ Ids'
    BY <1>1, <2>2, <2>3 DEF Mutex, HasRun, Awaited, Ids, InFlight, Working, Running,
       acceptingDispatches
  <2>6. ResultInHand' /\ Quiet' /\ AdmissionsRecorded'
    BY <2>2, <2>3, <2>4 DEF ResultInHand, Quiet, AdmissionsRecorded, Serving, InFlight, Running
  <2>7. Accounted'
    BY <2>2, <2>3, <2>4 DEF Accounted, Serving, InFlight, Working, Running, budgets
  <2> QED BY <2>1, <2>5, <2>6, <2>7
<1>2. CASE ~(acceptingDispatches /\ ~running)
  <2>1. TypeInv'
    <3>1. fire' \in [Threads -> Activities]
      BY <1>2, FireTypes DEF Settle, TypeInv
    <3> QED BY <1>2, <3>1 DEF TypeInv, Settle, budgets
  <2> QED
    BY <1>2, <2>1 DEF TypeInv, Mutex, HasRun, ResultInHand, Quiet, Awaited, Accounted, Ids,
       AdmissionsRecorded, InFlight, Working, Serving, budgets, In, Settle, Idle
<1> QED BY <1>1, <1>2

LEMMA CompleteIfDueInv == ASSUME Inv, NEW t \in Threads, CompleteIfDue(t) PROVE Inv'
<1> USE DEF CompleteIfDue, Inv
<1>1. file' = file \/ file' = Completed(file)
  OBVIOUS
<1>2. /\ file' \in Files /\ DueIffActive(file') /\ file'.runs = file.runs
      /\ file'.exists = file.exists
  BY <1>1, CompletedFile DEF TypeInv
<1>3. Running(file') = Running(file) /\ Running(file)' = Running(file)
  BY <1>2 DEF Running
<1>4. TypeInv'
  <2>1. fire' \in [Threads -> Activities]
    BY FireTypes DEF Settle, TypeInv
  <2> QED BY <1>2, <2>1 DEF TypeInv, Settle, budgets, DueIffActive
<1> QED
  BY <1>2, <1>3, <1>4 DEF TypeInv, Mutex, HasRun, ResultInHand, Quiet, Awaited, Accounted, Ids,
     AdmissionsRecorded, InFlight, Working, Serving, budgets, In, Settle, Idle

LEMMA AppendRunInv == ASSUME Inv, NEW t \in Threads, AppendRun(t) PROVE Inv'
<1> USE DEF AppendRun, Inv
<1>1. CASE file.exists
  <2> DEFINE n == Len(file.runs) + 1
             r == [status |-> "running", manual |-> t \in Manuals]
  <2>1. file' = [file EXCEPT !.runs = Append(@, r)]
    BY <1>1
  <2>2. /\ file' \in Files /\ DueIffActive(file') /\ file'.exists = file.exists
        /\ n \in Nat /\ n \notin DOMAIN file.runs /\ DOMAIN file'.runs = DOMAIN file.runs \cup {n}
        /\ \A j \in DOMAIN file.runs : file'.runs[j] = file.runs[j]
        /\ Running(file') = Running(file) \cup {n}
    <3>1. file \in Files /\ DueIffActive(file)
      BY DEF TypeInv
    <3>2. r \in RunType /\ r.status = "running"
      BY DEF RunType
    <3> HIDE DEF AppendRun, Inv, r, n
    <3>3. n = Len(file.runs) + 1
      BY DEF n
    <3> QED BY <2>1, <3>1, <3>2, <3>3, AppendRunFile
  <2>3. fire' = [fire EXCEPT ![t].pc = "execute", ![t].id = n]
    BY <1>1
  <2> HIDE DEF n, r
  <2>4. TypeInv'
    <3>1. fire' \in [Threads -> Activities]
      BY <2>2, <2>3, FireTypes DEF Pcs, TypeInv
    <3> QED BY <1>1, <2>2, <3>1 DEF TypeInv, budgets, DueIffActive
  <2>5. Running(file)' = Running(file) \cup {n}
    BY <2>2 DEF Running
  <2>6. HasRun' /\ Ids'
    BY <2>2, <2>3, <2>5 DEF TypeInv, HasRun, Ids, Working, Running
  <2>7. Accounted'
    BY <1>1, <2>2, <2>3, <2>5 DEF TypeInv, Mutex, Accounted, InFlight, Working, Serving, In, budgets
  <2>8. AdmissionsRecorded'
    BY <2>2, <2>5 DEF TypeInv, AdmissionsRecorded, Running
  <2>9. Mutex' /\ Awaited'
    BY <1>1, <2>3 DEF TypeInv, Mutex, Awaited, InFlight, In
  <2> QED
    BY <1>1, <2>2, <2>3, <2>4, <2>5, <2>6, <2>7, <2>8, <2>9
       DEF TypeInv, ResultInHand, Quiet, In, Serving
<1>2. CASE ~file.exists
  <2>1. TypeInv'
    <3>1. fire' \in [Threads -> Activities]
      BY <1>2, FireTypes DEF Settle, TypeInv
    <3> QED BY <1>2, <3>1 DEF TypeInv, Settle, budgets
  <2> QED
    BY <1>2, <2>1 DEF TypeInv, Mutex, HasRun, ResultInHand, Quiet, Awaited, Accounted, Ids,
       AdmissionsRecorded, InFlight, Working, Serving, budgets, In, Settle, Idle
<1> QED BY <1>1, <1>2

LEMMA AppendFailsInv == ASSUME Inv, NEW t \in Threads, AppendFails(t) PROVE Inv'
<1> USE DEF AppendFails, Inv
<1>1. TypeInv'
  <2>1. fire' \in [Threads -> Activities]
    BY FireTypes DEF Settle, TypeInv
  <2> QED BY <2>1 DEF TypeInv, Settle
<1> QED
  BY <1>1 DEF TypeInv, Mutex, HasRun, ResultInHand, Quiet, Awaited, Accounted, Ids,
     AdmissionsRecorded, InFlight, Working, Serving, In, Settle, Idle

(* After an admission the Team Runs and the result agree, and no other       *)
(* occurrence is affected.                                                   *)
LEMMA AdmitFacts ==
    ASSUME NEW id, NEW result \in Results, Admit(id, result)
    PROVE  /\ result = "ok" <=> id \in teamRuns'
           /\ teamRuns' \subseteq teamRuns \cup {id} /\ teamRuns \subseteq teamRuns'
  BY DEF Admit, Results

LEMMA ExecuteInv == ASSUME Inv, NEW t \in Threads, Execute(t) PROVE Inv'
<1> USE DEF Inv
<1>1. PICK result \in Results :
        /\ IF target = "team" THEN Admit(fire[t].id, result) ELSE Prompt(result)
        /\ fire' = [fire EXCEPT ![t].pc = "finish", ![t].result = result]
  BY DEF Execute, Results
<1>2. fire[t].id \in Running(file) /\ InFlight(t) /\ Serving
  BY DEF Execute, HasRun, Working, InFlight, In
<1>3. /\ teamRuns' \subseteq teamRuns \cup {fire[t].id} /\ teamRuns \subseteq teamRuns'
      /\ target = "team" => (result = "ok" <=> fire[t].id \in teamRuns')
  BY <1>1, AdmitFacts DEF Prompt
<1>4. TypeInv'
  <2>1. fire' \in [Threads -> Activities]
    BY <1>1, FireTypes DEF Pcs, TypeInv
  <2> QED BY <1>2, <1>3, <2>1 DEF TypeInv, Execute, budgets, Running
<1>5. AdmissionsRecorded'
  BY <1>2, <1>3 DEF Execute, AdmissionsRecorded, Running, TypeInv
<1>6. Mutex' /\ HasRun' /\ Awaited' /\ Accounted' /\ Quiet' /\ Ids'
  BY <1>1, <1>2 DEF TypeInv, Execute, Mutex, HasRun, Awaited, Accounted, Quiet, Ids, InFlight,
     Working, Serving, In, budgets
<1>7. ResultInHand'
  <2>1. /\ fire'[t].result = result /\ fire'[t].id = fire[t].id
        /\ \A u \in Threads : u # t => fire'[u] = fire[u]
    BY <1>1 DEF TypeInv, Activities
  <2>2. \A u \in Threads : u # t => fire[u].pc # "finish"
    BY <1>2 DEF Mutex, InFlight
  <2>3. mode' # "record"
    BY <1>2 DEF Execute, Serving
  <2> QED BY <1>3, <2>1, <2>2, <2>3 DEF Execute, ResultInHand
<1> QED BY <1>4, <1>5, <1>6, <1>7

LEMMA FinishInv == ASSUME Inv, NEW t \in Threads, Finish(t) PROVE Inv'
<1> USE DEF Inv
<1> DEFINE id == fire[t].id
           result == fire[t].result
<1>1. id \in Running(file) /\ InFlight(t) /\ Serving /\ result \in Results
  BY DEF Finish, HasRun, ResultInHand, Working, InFlight, In
<1>2. TypeInv /\ file \in Files /\ DueIffActive(file) /\ now \in Nat
  BY DEF TypeInv
<1>3. fire' = [fire EXCEPT ![t] = Idle] /\ draining' = draining \ {t} /\ ~running'
  BY DEF Finish, Settle
<1>4. \A u \in Threads : fire'[u].pc \notin {"append", "execute", "finish"}
  BY <1>1, <1>2, <1>3 DEF Mutex, TypeInv, InFlight, Idle
<1>5. CASE ~file.exists
  <2>1. file' = file
    BY <1>5 DEF Finish
  <2>2. TypeInv'
    <3>1. fire' \in [Threads -> Activities]
      BY <1>2, <1>3, FireTypes DEF TypeInv
    <3> QED BY <1>3, <2>1, <3>1 DEF Finish, TypeInv, budgets
  <2> QED
    BY <1>1, <1>2, <1>3, <1>4, <1>5, <2>1, <2>2 DEF Finish, TypeInv, Mutex, HasRun, ResultInHand,
       Quiet, Awaited, Accounted, Ids, AdmissionsRecorded, InFlight, Working, Serving, Idle, In
<1>6. CASE file.exists
  <2>1. file' = FinishRun(file, id, result)
    BY <1>6 DEF Finish
  <2>2. /\ file' \in Files /\ DueIffActive(file') /\ file'.exists = file.exists
        /\ DOMAIN file'.runs = DOMAIN file.runs
        /\ file'.runs[id].status = IF result = "ok" THEN "succeeded" ELSE "failed"
        /\ \A j \in DOMAIN file.runs : j # id => file'.runs[j] = file.runs[j]
        /\ Running(file') = Running(file) \ {id}
    BY <1>1, <1>2, <2>1, FinishRunFile
  <2>3. Running(file)' = Running(file) \ {id}
    BY <2>2 DEF Running
  <2>4. target = "team" => (result = "ok" <=> id \in teamRuns)
    BY DEF Finish, ResultInHand, In
  <2> HIDE DEF id, result
  <2>5. TypeInv'
    <3>1. fire' \in [Threads -> Activities]
      BY <1>2, <1>3, FireTypes DEF TypeInv
    <3> QED BY <1>3, <2>2, <3>1 DEF Finish, TypeInv, budgets, DueIffActive
  <2>6. AdmissionsRecorded'
    BY <2>2, <2>4 DEF Finish, AdmissionsRecorded
  <2>7. Accounted'
    BY <1>1, <2>2, <2>3 DEF Finish, Accounted, Serving, budgets
  <2>8. Ids'
    BY <1>2, <1>3, <2>2 DEF Ids, TypeInv, Idle
  <2> QED
    BY <1>1, <1>2, <1>3, <1>4, <2>5, <2>6, <2>7, <2>8 DEF Finish, TypeInv, Mutex, HasRun,
       ResultInHand, Quiet, Awaited, InFlight, Working, Serving, Idle, In
<1> QED BY <1>5, <1>6

LEMMA FinishFailsInv == ASSUME Inv, NEW t \in Threads, FinishFails(t) PROVE Inv'
<1> USE DEF Inv
<1>1. fire' = [fire EXCEPT ![t] = Idle] /\ draining' = draining \ {t} /\ ~running'
  BY DEF FinishFails, Settle
<1>2. \A u \in Threads : fire'[u].pc \notin {"append", "execute", "finish"}
  BY <1>1 DEF FinishFails, Mutex, TypeInv, InFlight, In, Idle
<1>3. TypeInv'
  <2>1. fire' \in [Threads -> Activities]
    BY <1>1, FireTypes DEF TypeInv
  <2>2. faults' \in Nat
    BY DEF FinishFails, TypeInv
  <2>3. running' = FALSE
    BY DEF FinishFails
  <2> QED BY <1>1, <2>1, <2>2, <2>3 DEF FinishFails, TypeInv
<1> QED
  BY <1>1, <1>2, <1>3 DEF FinishFails, TypeInv, Mutex, HasRun, ResultInHand, Quiet, Awaited,
     Accounted, Ids, AdmissionsRecorded, InFlight, Working, Serving, Idle, In

LEMMA EditedInv ==
    ASSUME Inv, NEW s \in Files, DueIffActive(s), s.runs = file.runs,
           s.exists => file.exists, Edited(s)
    PROVE  Inv'
  BY EditInv DEF Edited, memory

LEMMA EditsInv == ASSUME Inv, Edits PROVE Inv'
<1>1. file \in Files /\ DueIffActive(file) /\ now \in Nat
  BY DEF Inv, TypeInv
<1>2. NextSlot(now) \in Slots /\ NextSlot(now) # NoSlot /\ now \in Slots /\ now # NoSlot
  BY <1>1, AdvanceSlot DEF Slots
<1>3. ASSUME Pause PROVE Inv'
  <2> DEFINE s == [file EXCEPT !.status = "paused", !.next = NoSlot]
  <2>1. s \in Files /\ DueIffActive(s) /\ s.runs = file.runs /\ s.exists = file.exists
    BY <1>1 DEF Files, Slots, DueIffActive
  <2>2. Edited(s)
    BY <1>3 DEF Pause
  <2> HIDE DEF s
  <2> QED BY <2>1, <2>2, EditedInv
<1>4. ASSUME Resume PROVE Inv'
  <2> DEFINE s == [file EXCEPT !.status = "active", !.next = NextSlot(now)]
  <2>1. s \in Files /\ DueIffActive(s) /\ s.runs = file.runs /\ s.exists = file.exists
    BY <1>1, <1>2 DEF Files, DueIffActive
  <2>2. Edited(s)
    BY <1>4 DEF Resume
  <2> HIDE DEF s
  <2> QED BY <2>1, <2>2, EditedInv
<1>5. ASSUME Reschedule PROVE Inv'
  <2> DEFINE n == IF file.status = "active" THEN NextSlot(now) ELSE NoSlot
             s == [file EXCEPT !.next = n]
  <2>1. n \in Slots /\ (file.status = "active" <=> n # NoSlot)
    BY <1>2 DEF Slots
  <2>2. s \in Files /\ DueIffActive(s) /\ s.runs = file.runs /\ s.exists = file.exists
    <3> HIDE DEF n
    <3> QED BY <1>1, <2>1 DEF Files, DueIffActive
  <2>3. Edited(s)
    BY <1>5 DEF Reschedule
  <2> HIDE DEF s
  <2> QED BY <2>2, <2>3, EditedInv
<1>6. ASSUME SetMaxRuns PROVE Inv'
  <2>1. PICK n \in InitMaxRuns : Edited([file EXCEPT !.limit = n])
    BY <1>6 DEF SetMaxRuns
  <2> DEFINE s == [file EXCEPT !.limit = n]
  <2>2. s \in Files /\ DueIffActive(s) /\ s.runs = file.runs /\ s.exists = file.exists
    BY <1>1 DEF Files, Slots, DueIffActive
  <2>3. Edited(s)
    BY <2>1
  <2> HIDE DEF s
  <2> QED BY <2>2, <2>3, EditedInv
<1>7. ASSUME CreateOrReplace PROVE Inv'
  <2>1. PICK n \in InitMaxRuns, e \in Expiry, runOnCreate \in BOOLEAN :
          Edited([file EXCEPT !.status = "active", !.limit = n, !.expires = e,
                              !.next = IF runOnCreate THEN now ELSE NextSlot(now)])
    BY <1>7 DEF CreateOrReplace
  <2> DEFINE next == IF runOnCreate THEN now ELSE NextSlot(now)
             s == [file EXCEPT !.status = "active", !.limit = n, !.expires = e, !.next = next]
  <2>2. next \in Slots /\ next # NoSlot
    BY <1>2
  <2>3. s \in Files /\ DueIffActive(s) /\ s.runs = file.runs /\ s.exists = file.exists
    <3> HIDE DEF next
    <3> QED BY <1>1, <2>2 DEF Files, Slots, DueIffActive
  <2>4. Edited(s)
    BY <2>1
  <2> HIDE DEF s
  <2> QED BY <2>3, <2>4, EditedInv
<1>8. ASSUME Delete PROVE Inv'
  <2> DEFINE s == [file EXCEPT !.exists = FALSE]
  <2>1. s \in Files /\ DueIffActive(s) /\ s.runs = file.runs /\ ~s.exists
    BY <1>1 DEF Files, DueIffActive
  <2>2. Edited(s)
    BY <1>8 DEF Delete
  <2> HIDE DEF s
  <2> QED BY <2>1, <2>2, EditedInv
<1> QED BY <1>3, <1>4, <1>5, <1>6, <1>7, <1>8 DEF Edits

LEMMA CompleteForAgentInv == ASSUME Inv, CompleteForAgent PROVE Inv'
<1>1. file \in Files /\ DueIffActive(file)
  BY DEF Inv, TypeInv
<1>2. file' = file \/ file' = Completed(file)
  BY DEF CompleteForAgent
<1>3. file' \in Files /\ DueIffActive(file') /\ file'.runs = file.runs
      /\ file'.exists = file.exists
  BY <1>1, <1>2, CompletedFile
<1> QED BY <1>3, EditInv DEF CompleteForAgent, budgets

(* Steps that touch nothing the invariant speaks of.                         *)
LEMMA UnrelatedInv ==
    ASSUME Inv, now' \in Nat,
           UNCHANGED <<file, target, teamRuns, mode, occurrence, running, fire, draining, faults>>
    PROVE  Inv'
  BY DEF Inv, TypeInv, Mutex, HasRun, ResultInHand, Quiet, Awaited, Accounted, Ids,
     AdmissionsRecorded, InFlight, Working, Serving, Running

LEMMA OtherInv == ASSUME Inv, TargetEnds \/ Clock \/ UNCHANGED vars PROVE Inv'
<1>1. now' \in Nat
  BY DEF Inv, TypeInv, TargetEnds, Clock, vars
<1> QED BY <1>1, UnrelatedInv DEF TargetEnds, Clock, vars, memory, budgets

-----------------------------------------------------------------------------
(* Shutdown and restart *)

LEMMA StopInv == ASSUME Inv, Stop \/ Drained PROVE Inv'
<1> USE DEF Inv
<1>1. CASE Stop
  <2> USE <1>1 DEF Stop
  <2>1. Awaited'
    BY DEF Awaited, InFlight
  <2>2. TypeInv'
    BY DEF TypeInv, budgets
  <2>3. Mutex' /\ HasRun' /\ Quiet' /\ Ids' /\ AdmissionsRecorded' /\ ResultInHand'
    BY DEF Mutex, HasRun, Quiet, Ids, AdmissionsRecorded, ResultInHand, InFlight, Working,
       Serving, Running
  <2>4. Accounted'
    BY DEF Accounted, Working, Serving, Running, budgets
  <2> QED BY <2>1, <2>2, <2>3, <2>4
<1>2. CASE Drained
  <2> USE <1>2 DEF Drained, memory
  <2>1. Awaited'
    BY DEF Awaited, InFlight
  <2>2. TypeInv'
    BY DEF TypeInv, budgets
  <2>3. Mutex' /\ HasRun' /\ Quiet' /\ Ids' /\ AdmissionsRecorded' /\ ResultInHand'
    BY DEF Mutex, HasRun, Quiet, Ids, AdmissionsRecorded, ResultInHand, InFlight, Working,
       Serving, Running
  <2>4. Accounted'
    BY DEF Accounted, Working, Serving, Running, budgets
  <2> QED BY <2>1, <2>2, <2>3, <2>4
<1> QED BY <1>1, <1>2

LEMMA DownInv == ASSUME Inv, Down PROVE Inv'
<1> USE DEF Inv, Down
<1>1. fire' \in [Threads -> Activities] /\ occurrence' \in [id : Nat, result : Results \cup {"none"}]
  BY DEF Idle, Activities, Pcs, NoOccurrence
<1>2. \A t \in Threads : fire'[t].pc = "idle" /\ fire'[t].id = 0
  BY DEF Idle
<1>3. TypeInv'
  BY <1>1 DEF TypeInv
<1>4. Accounted'
  BY DEF Accounted, Serving, Running
<1> QED
  BY <1>2, <1>3, <1>4 DEF Mutex, HasRun, ResultInHand, Quiet, Awaited, Ids, AdmissionsRecorded,
     InFlight, Working, Serving, Running

(* What the steps of start() may make of the record, and where they lead.    *)
LEMMA RestartInv ==
    ASSUME Inv, ~Serving, mode' \in {"recover", "record", "advance", "sweep", "up"},
           UNCHANGED <<target, now, running, fire, draining, faults>>,
           file' \in Files, DueIffActive(file'), file'.exists = file.exists,
           DOMAIN file'.runs = DOMAIN file.runs,
           teamRuns' \subseteq DOMAIN file.runs,
           occurrence' \in [id : Nat, result : Results \cup {"none"}],
           AdmissionsRecorded', ResultInHand',
           file.exists /\ faults = 0 =>
              /\ Running(file') \subseteq Running(file)
              /\ mode' \in {"advance", "sweep", "up"} => Running(file') = {}
    PROVE  Inv'
<1> USE DEF Inv
<1>1. \A t \in Threads : fire[t].pc = "idle"
  BY DEF Quiet
<1>2. TypeInv'
  BY DEF TypeInv, DueIffActive
<1>3. Mutex' /\ HasRun' /\ Quiet' /\ Awaited' /\ Ids'
  BY <1>1 DEF Mutex, HasRun, Quiet, Awaited, Ids, InFlight, Working
<1>4. Accounted'
  <2>1. Running(file)' = Running(file')
    BY DEF Running
  <2> QED BY <2>1 DEF Accounted, Serving
<1> QED BY <1>2, <1>3, <1>4

LEMMA StartInv == ASSUME Inv, Start PROVE Inv'
<1>1. /\ ~Serving /\ file \in Files /\ DueIffActive(file) /\ teamRuns \subseteq DOMAIN file.runs
      /\ occurrence \in [id : Nat, result : Results \cup {"none"}]
  BY DEF Start, Serving, Inv, TypeInv
<1>2. AdmissionsRecorded' /\ ResultInHand'
  BY DEF Inv, AdmissionsRecorded, ResultInHand, Start, memory
<1> QED BY <1>1, <1>2, RestartInv DEF Start, memory, budgets

\* Unless a write failed, no more than one run is recorded as running.
LEMMA OneInterrupted ==
    ASSUME Inv, NEW i \in FirstRunning(file), file.exists, faults = 0
    PROVE  Running(file) \ {i} = {}
  BY DEF Inv, Accounted, FirstRunning

LEMMA RecoverInterruptedInv == ASSUME Inv, RecoverInterrupted PROVE Inv'
<1>1. /\ ~Serving /\ file \in Files /\ DueIffActive(file) /\ now \in Nat
      /\ teamRuns \subseteq DOMAIN file.runs /\ mode' = "sweep"
      /\ occurrence \in [id : Nat, result : Results \cup {"none"}]
  BY DEF RecoverInterrupted, Serving, Inv, TypeInv
<1>2. ResultInHand'
  BY DEF Inv, ResultInHand, RecoverInterrupted, memory, Quiet, Serving
<1>3. CASE ~Interrupted
  <2>1. file' \in Files /\ DueIffActive(file') /\ file'.runs = file.runs
        /\ file'.exists = file.exists
    BY <1>1, <1>3, PastDueFile DEF RecoverInterrupted
  <2>2. Running(file') = Running(file) /\ (file.exists => Running(file) = {})
    BY <1>3, <2>1 DEF Running, Interrupted
  <2>3. AdmissionsRecorded'
    BY <2>1 DEF Inv, AdmissionsRecorded, RecoverInterrupted
  <2> QED
    BY <1>1, <1>2, <2>1, <2>2, <2>3, RestartInv DEF RecoverInterrupted, memory, budgets
<1>4. CASE Interrupted
  <2>1. PICK i \in FirstRunning(file) :
          file' = PastDue([file EXCEPT !.runs[i].status = "failed"])
    BY <1>4 DEF RecoverInterrupted
  <2> DEFINE f == EndRun(file, i, "failed")
  <2>2. i \in Running(file) /\ file' = PastDue(f) /\ target = "agent"
    BY <1>4, <2>1 DEF FirstRunning, EndRun, RecoverInterrupted
  <2>3. /\ f \in Files /\ f.status = file.status /\ f.next = file.next
        /\ f.exists = file.exists /\ DOMAIN f.runs = DOMAIN file.runs
        /\ Running(f) = Running(file) \ {i}
    BY <1>1, <2>2, EndRunFile
  <2> HIDE DEF f
  <2>4. file' \in Files /\ DueIffActive(file') /\ file'.runs = f.runs
        /\ file'.exists = f.exists
    BY <1>1, <2>2, <2>3, PastDueFile DEF DueIffActive
  <2>5. Running(file') = Running(file) \ {i}
    BY <2>3, <2>4 DEF Running
  <2>6. AdmissionsRecorded'
    BY <2>2 DEF AdmissionsRecorded, RecoverInterrupted
  <2>7. faults = 0 => Running(file') = {}
    BY <1>4, <2>5, OneInterrupted DEF Interrupted
  <2> QED
    BY <1>1, <1>2, <2>3, <2>4, <2>5, <2>6, <2>7, RestartInv
       DEF RecoverInterrupted, memory, budgets
<1> QED BY <1>3, <1>4

LEMMA ReadmitInv == ASSUME Inv, Readmit PROVE Inv'
<1>1. /\ ~Serving /\ file \in Files /\ DueIffActive(file)
      /\ teamRuns \subseteq DOMAIN file.runs /\ target = "team" /\ file.exists
  BY DEF Readmit, Serving, Inv, TypeInv, Interrupted
<1>2. PICK i \in FirstRunning(file), result \in Results :
        Admit(i, result) /\ occurrence' = [id |-> i, result |-> result]
  BY DEF Readmit, Results
<1>3. i \in Running(file) /\ i \in DOMAIN file.runs /\ i \in Nat
  BY <1>1, <1>2 DEF FirstRunning, Running, Files
<1>4. /\ result = "ok" <=> i \in teamRuns'
      /\ teamRuns' \subseteq teamRuns \cup {i} /\ teamRuns \subseteq teamRuns'
  BY <1>2, AdmitFacts
<1>5. AdmissionsRecorded'
  BY <1>3, <1>4 DEF Inv, AdmissionsRecorded, Readmit, Running
<1>6. occurrence' \in [id : Nat, result : Results \cup {"none"}]
  BY <1>2, <1>3
<1>7. ResultInHand'
  <2>1. \A t \in Threads : fire'[t].pc = "idle"
    BY <1>1 DEF Inv, Quiet, Readmit, memory
  <2>2. occurrence'.id = i /\ occurrence'.result = result
    BY <1>2
  <2>3. file' = file /\ target' = target /\ Running(file)' = Running(file)
    BY DEF Readmit, Running
  <2> QED BY <1>1, <1>3, <1>4, <2>1, <2>2, <2>3 DEF ResultInHand
<1> QED
  BY <1>1, <1>3, <1>4, <1>5, <1>6, <1>7, RestartInv DEF Readmit, memory, budgets

LEMMA RecordRecoveredInv == ASSUME Inv, RecordRecovered PROVE Inv'
<1> DEFINE i == occurrence.id
           result == occurrence.result
<1>1. /\ ~Serving /\ file \in Files /\ DueIffActive(file) /\ now \in Nat
      /\ teamRuns \subseteq DOMAIN file.runs /\ mode' = "advance"
  BY DEF RecordRecovered, Serving, Inv, TypeInv
<1>2. /\ target = "team" /\ i \in Running(file) /\ result \in Results
      /\ result = "ok" <=> i \in teamRuns
  BY DEF RecordRecovered, Inv, ResultInHand
<1>3. file' = FinishRun(file, i, result)
  BY DEF RecordRecovered
<1> HIDE DEF i, result
<1>4. /\ file' \in Files /\ DueIffActive(file') /\ file'.exists = file.exists
      /\ DOMAIN file'.runs = DOMAIN file.runs
      /\ file'.runs[i].status = IF result = "ok" THEN "succeeded" ELSE "failed"
      /\ \A j \in DOMAIN file.runs : j # i => file'.runs[j] = file.runs[j]
      /\ Running(file') = Running(file) \ {i}
  BY <1>1, <1>2, <1>3, FinishRunFile
<1>5. AdmissionsRecorded'
  BY <1>2, <1>4 DEF Inv, AdmissionsRecorded, RecordRecovered
<1>6. ResultInHand'
  BY <1>1 DEF Inv, ResultInHand, RecordRecovered, memory, Quiet
<1>7. occurrence' \in [id : Nat, result : Results \cup {"none"}]
  BY DEF RecordRecovered, NoOccurrence
<1>8. faults = 0 => Running(file') = {}
  BY <1>2, <1>4 DEF Inv, Accounted, ResultInHand, RecordRecovered
<1> QED
  BY <1>1, <1>2, <1>4, <1>5, <1>6, <1>7, <1>8, RestartInv DEF RecordRecovered, memory, budgets

LEMMA AdvancePastDueInv == ASSUME Inv, AdvancePastDue PROVE Inv'
<1>1. /\ ~Serving /\ file \in Files /\ DueIffActive(file) /\ now \in Nat
      /\ teamRuns \subseteq DOMAIN file.runs /\ mode' = "sweep" /\ mode = "advance"
      /\ occurrence \in [id : Nat, result : Results \cup {"none"}]
  BY DEF AdvancePastDue, Serving, Inv, TypeInv
<1>2. file' \in Files /\ DueIffActive(file') /\ file'.runs = file.runs
      /\ file'.exists = file.exists
  BY <1>1, PastDueFile DEF AdvancePastDue
<1>3. Running(file') = Running(file) /\ DOMAIN file'.runs = DOMAIN file.runs
  BY <1>2 DEF Running
<1>4. AdmissionsRecorded' /\ ResultInHand'
  BY <1>1, <1>2 DEF Inv, AdmissionsRecorded, ResultInHand, AdvancePastDue, memory, Quiet
<1>5. file.exists /\ faults = 0 => Running(file) = {}
  BY <1>1 DEF Inv, Accounted
<1> QED
  BY <1>1, <1>2, <1>3, <1>4, <1>5, RestartInv DEF AdvancePastDue, memory, budgets

LEMMA SweepOrphanedInv == ASSUME Inv, SweepOrphaned PROVE Inv'
<1>1. /\ ~Serving /\ file \in Files /\ DueIffActive(file) /\ mode' = "up" /\ mode = "sweep"
      /\ teamRuns \subseteq DOMAIN file.runs
      /\ occurrence \in [id : Nat, result : Results \cup {"none"}]
  BY DEF SweepOrphaned, Serving, Inv, TypeInv
<1>2. file' = file \/ file' = Completed(file)
  BY DEF SweepOrphaned
<1>3. file' \in Files /\ DueIffActive(file') /\ file'.runs = file.runs
      /\ file'.exists = file.exists
  BY <1>1, <1>2, CompletedFile
<1>4. Running(file') = Running(file) /\ DOMAIN file'.runs = DOMAIN file.runs
  BY <1>3 DEF Running
<1>5. AdmissionsRecorded' /\ ResultInHand'
  BY <1>1, <1>3 DEF Inv, AdmissionsRecorded, ResultInHand, SweepOrphaned, memory, Quiet
<1>6. file.exists /\ faults = 0 => Running(file) = {}
  BY <1>1 DEF Inv, Accounted
<1> QED
  BY <1>1, <1>3, <1>4, <1>5, <1>6, RestartInv DEF SweepOrphaned, memory, budgets

-----------------------------------------------------------------------------
(* The theorems *)

LEMMA NextInv == Inv /\ [Next]_vars => Inv'
<1> SUFFICES ASSUME Inv, [Next]_vars PROVE Inv'
  OBVIOUS
<1>1. Ticks \subseteq Threads /\ Manuals \subseteq Threads
  BY DEF Threads
<1>2. ASSUME NEW t \in Ticks, Tick(t) PROVE Inv'
  BY <1>2, TickInv
<1>3. ASSUME NEW t \in Manuals, Inspect(t) PROVE Inv'
  BY <1>3, InspectInv
<1>4. ASSUME NEW t \in Threads,
             \/ Begin(t) \/ CompleteIfDue(t) \/ Execute(t)
             \/ AppendRun(t) \/ AppendFails(t) \/ Finish(t) \/ FinishFails(t)
      PROVE Inv'
  BY <1>4, BeginInv, CompleteIfDueInv, ExecuteInv, AppendRunInv, AppendFailsInv, FinishInv,
     FinishFailsInv
<1>5. CASE Edits \/ CompleteForAgent \/ TargetEnds \/ Clock \/ UNCHANGED vars
  BY <1>5, EditsInv, CompleteForAgentInv, OtherInv
<1>6. CASE Stop \/ Drained \/ Down
  BY <1>6, StopInv, DownInv
<1>7. CASE Recovery
  BY <1>7, StartInv, RecoverInterruptedInv, ReadmitInv, RecordRecoveredInv, AdvancePastDueInv,
     SweepOrphanedInv DEF Recovery
<1> QED BY <1>2, <1>3, <1>4, <1>5, <1>6, <1>7 DEF Next

(* Memory agrees with the record on disk in every state, however ticks,      *)
(* requests, edits, failed writes, crashes and restarts interleave.          *)
THEOREM ScheduleInvariant == Spec => []Inv
<1>1. Init => Inv
  BY InitInv
<1>2. Inv /\ [Next]_vars => Inv'
  BY NextInv
<1> QED BY <1>1, <1>2, PTL DEF Spec

(* The record stays well-formed: an active schedule has a next run and no    *)
(* other has, and every Team Run and execution names a recorded run.         *)
THEOREM SchedulesTypeCorrect == Spec => []TypeOK
<1>1. Inv => TypeOK
  BY DEF Inv, TypeInv, Ids, TypeOK, Files, Slots, DueIffActive
<1> QED BY <1>1, ScheduleInvariant, PTL

(* runningScheduleIds keeps ticks and requests of one schedule apart, and    *)
(* while the daemon serves a run recorded as running is the one executing.   *)
THEOREM OneExecution == Spec => []RunningIsExecuting
<1>1. Inv => RunningIsExecuting
  BY DEF Inv, Mutex, Accounted, Working, RunningIsExecuting
<1> QED BY <1>1, ScheduleInvariant, PTL

(* An occurrence is recorded as succeeded exactly if a Team Run was admitted *)
(* for it, also when a restart had to admit it again.                        *)
THEOREM AdmissionsAgree == Spec => []AdmissionsRecorded
<1>1. Inv => AdmissionsRecorded
  BY DEF Inv
<1> QED BY <1>1, ScheduleInvariant, PTL

(* When stop() has returned, no Team Run admission of a schedule is under    *)
(* way.                                                                      *)
THEOREM ShutdownDrains == Spec => []DrainedBeforeShutdown
<1>1. Inv => DrainedBeforeShutdown
  BY DEF Inv, Awaited, DrainedBeforeShutdown
<1> QED BY <1>1, ScheduleInvariant, PTL

=============================================================================
