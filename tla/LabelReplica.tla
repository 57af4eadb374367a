---------------------------- MODULE LabelReplica ----------------------------
(***************************************************************************)
(* A client's replica of a host's label catalog: the daemon numbers every  *)
(* catalog change and keeps a bounded journal of them; a client lists the  *)
(* catalog with the cursor it has reached and then follows live updates.   *)
(*                                                                         *)
(*   packages/server/src/server/workspace-labels/internal/sequence.ts      *)
(*   packages/server/src/server/session.ts     handleWorkspaceLabelList    *)
(*   packages/app/src/workspace-labels/internal/host-replica.ts            *)
(*   packages/app/src/workspace-labels/index.ts   connect, refresh         *)
(*                                                                         *)
(* One client with one session at a time.  Messages of a connection arrive *)
(* in order; a connection may drop, the session is then resumed or new     *)
(* (websocket-server.ts keeps it for a grace period), and a restarted      *)
(* daemon starts another generation.  Catalog mutations are one step here: *)
(* WorkspaceLabels models how they commit.  A name stands for its key.     *)
(***************************************************************************)
EXTENDS Integers, Sequences

CONSTANTS
    Names, Colors, NoColor,
    JournalLimit,   \* journalLimit of WorkspaceLabelSequence
    MaxChanges,     \* bound on catalog changes
    MaxRefreshes,   \* bound on lists the client repeats after a failed mutation
    MaxDrops,       \* bound on lost connections
    MaxRestarts     \* bound on daemon restarts

ASSUME ReplicaAssumption ==
    /\ JournalLimit \in Nat \ {0}
    /\ {MaxChanges, MaxRefreshes, MaxDrops, MaxRestarts} \subseteq Nat

VARIABLES
    catalog,     \* the labels of the daemon
    sequence,    \* WorkspaceLabelSequence: generation, headSeq, journal
    handlers,    \* list requests in progress in the session, oldest first
    live,        \* the session's subscription is established
    requests,    \* list requests on their way to the daemon
    out,         \* messages on their way to the client
    conn,        \* the client is connected
    epoch,       \* which of its connections this is
    listed,      \* history: a list response of this connection was applied
    replica,     \* HostWorkspaceLabelReplica.labels
    cursor,      \* its cursor
    changes, refreshes, drops, restarts

daemon == <<catalog, sequence>>
session == <<handlers, live>>
client == <<epoch, listed, replica, cursor>>
budgets == <<changes, refreshes, drops, restarts>>
vars == <<daemon, session, requests, out, conn, client, budgets>>

NoLabels == [n \in Names |-> NoColor]
NoCursor == [generation |-> 0, afterSeq |-> 0]   \* generations start at 1

Upsert(n, c, prev) == [kind |-> "upsert", name |-> n, color |-> c, previous |-> prev]
Removal(n) == [kind |-> "remove", name |-> n, color |-> NoColor, previous |-> n]

\* A change applied to a map of labels: what the daemon does to its catalog and
\* the replica to its copy.
Apply(labels, ch) ==
    IF ch.kind = "remove" THEN [labels EXCEPT ![ch.name] = NoColor]
    ELSE [labels EXCEPT ![ch.previous] = NoColor, ![ch.name] = ch.color]

-----------------------------------------------------------------------------
(* WorkspaceLabelSequence.synchronize *)

OldestSeq == IF sequence.journal = <<>> THEN sequence.head + 1 ELSE sequence.journal[1].seq

\* One entry too generous about what the journal still holds.
CanCatchUp_Slip(c) ==
    /\ c.generation = sequence.generation
    /\ c.afterSeq <= sequence.head
    /\ c.afterSeq >= OldestSeq - 2

CanCatchUp(c) ==
    /\ c.generation = sequence.generation
    /\ c.afterSeq <= sequence.head
    /\ c.afterSeq >= OldestSeq - 1

\* A name leaves the compacted changes: dropped from the upserts if it is there,
\* else recorded as removed.
Without(acc, n) ==
    IF acc.upserts[n] # NoColor THEN [acc EXCEPT !.upserts[n] = NoColor]
    ELSE [acc EXCEPT !.removals = @ \cup {n}]

Compact(acc, entry) ==
    LET ch == entry.change
        moved == IF ch.kind = "remove" \/ ch.previous # ch.name
                 THEN Without(acc, ch.previous) ELSE acc
    IN IF ch.kind = "remove" THEN moved
       ELSE [upserts |-> [moved.upserts EXCEPT ![ch.name] = ch.color],
             removals |-> moved.removals \ {ch.name}]

CatchUp(c) ==
    LET journal == sequence.journal
        compacted[i \in 0..Len(journal)] ==
            IF i = 0 THEN [upserts |-> NoLabels, removals |-> {}]
            ELSE IF journal[i].seq > c.afterSeq THEN Compact(compacted[i - 1], journal[i])
            ELSE compacted[i - 1]
    IN compacted[Len(journal)]

Synchronize(c) ==
    LET base == [generation |-> sequence.generation, head |-> sequence.head]
    IN IF CanCatchUp(c)
       THEN [mode |-> "changes", labels |-> CatchUp(c).upserts,
             removals |-> CatchUp(c).removals, at |-> base]
       ELSE [mode |-> "snapshot", labels |-> catalog, removals |-> {}, at |-> base]

NoSnapshot == [mode |-> "none", labels |-> NoLabels, removals |-> {},
               at |-> [generation |-> 0, head |-> 0]]

-----------------------------------------------------------------------------
Init ==
    /\ catalog = NoLabels
    /\ sequence = [generation |-> 1, head |-> 0, journal |-> <<>>]
    /\ handlers = <<>> /\ live = FALSE /\ requests = <<>> /\ out = <<>>
    /\ conn = FALSE /\ epoch = 0 /\ listed = FALSE
    /\ replica = NoLabels /\ cursor = NoCursor
    /\ changes = 0 /\ refreshes = 0 /\ drops = 0 /\ restarts = 0

\* The session writes to the connection it has, if any.
Emit(msgs) == out' = IF conn THEN out \o msgs ELSE out

ListMessage(h) == [kind |-> "list", epoch |-> h.epoch, payload |-> h.snapshot]
UpdateMessage(entry) == [kind |-> "update", generation |-> entry.generation,
                         seq |-> entry.seq, change |-> entry.change]

Journaled(entry) ==
    LET journal == Append(sequence.journal, entry)
    IN IF Len(journal) > JournalLimit THEN Tail(journal) ELSE journal

\* publish: number the change, journal it, notify the session's listener.  A
\* list still being answered collects it; its handler is the subscription's
\* owner exactly when no later request has arrived.
Publish(ch) ==
    LET entry == [generation |-> sequence.generation, seq |-> sequence.head + 1, change |-> ch]
        last == Len(handlers)
    IN /\ sequence' = [sequence EXCEPT !.head = @ + 1, !.journal = Journaled(entry)]
       /\ IF live THEN Emit(<<UpdateMessage(entry)>>) ELSE UNCHANGED out
       /\ handlers' = IF last > 0 /\ handlers[last].pc = "synchronized"
                      THEN [handlers EXCEPT ![last].pending = Append(@, entry)]
                      ELSE handlers

Changes ==
    {Upsert(n, c, n) : n \in Names, c \in Colors}
      \cup {Upsert(n, catalog[p], p) : n \in Names, p \in {q \in Names : catalog[q] # NoColor}}
      \cup {Removal(n) : n \in Names}

\* A create, an edit that is not refused, or a delete.
Change(ch) ==
    /\ changes < MaxChanges /\ changes' = changes + 1
    /\ ch.kind = "remove" => catalog[ch.name] # NoColor
    /\ ch.previous # ch.name => catalog[ch.name] = NoColor
    /\ Apply(catalog, ch) # catalog
    /\ catalog' = Apply(catalog, ch)
    /\ Publish(ch)
    /\ UNCHANGED <<live, requests, conn, client, refreshes, drops, restarts>>

(* handleWorkspaceLabelList *)

\* The earlier subscription is left in place when a new list arrives.
Receive_Slip ==
    /\ requests # <<>>
    /\ handlers' = Append(handlers,
           [epoch |-> Head(requests).epoch, cursor |-> Head(requests).cursor,
            pc |-> "queued", snapshot |-> NoSnapshot, pending |-> <<>>])
    /\ requests' = Tail(requests)
    /\ UNCHANGED <<daemon, live, out, conn, client, budgets>>

\* The request takes the subscription over at once and waits for its turn.
Receive ==
    /\ requests # <<>>
    /\ handlers' = Append(handlers,
           [epoch |-> Head(requests).epoch, cursor |-> Head(requests).cursor,
            pc |-> "queued", snapshot |-> NoSnapshot, pending |-> <<>>])
    /\ requests' = Tail(requests)
    /\ live' = FALSE
    /\ UNCHANGED <<daemon, out, conn, client, budgets>>

\* service.subscribe: listener and snapshot under the service's exclusive queue.
Subscribe(i) ==
    /\ handlers[i].pc = "queued"
    /\ \A j \in 1..(i - 1) : handlers[j].pc # "queued"
    /\ handlers' = [handlers EXCEPT ![i].pc = "synchronized",
                                    ![i].snapshot = Synchronize(handlers[i].cursor)]
    /\ UNCHANGED <<daemon, live, requests, out, conn, client, budgets>>

\* Changes published while the list was being answered are not sent after it.
Respond_Slip ==
    /\ handlers # <<>> /\ handlers[1].pc = "synchronized"
    /\ Emit(<<ListMessage(handlers[1])>>)
    /\ live' = (Len(handlers) = 1)
    /\ handlers' = Tail(handlers)
    /\ UNCHANGED <<daemon, requests, conn, client, budgets>>

\* The list and the changes that came after its snapshot.
Answer(h) ==
    LET answered[i \in 0..Len(h.pending)] ==
            IF i = 0 THEN <<ListMessage(h)>>
            ELSE IF h.pending[i].seq > h.snapshot.at.head
                 THEN Append(answered[i - 1], UpdateMessage(h.pending[i]))
            ELSE answered[i - 1]
    IN answered[Len(h.pending)]

\* The changes are sent only for the owner of the subscription.
Respond ==
    /\ handlers # <<>> /\ handlers[1].pc = "synchronized"
    /\ IF Len(handlers) = 1
       THEN Emit(Answer(handlers[1])) /\ live' = TRUE
       ELSE Emit(<<ListMessage(handlers[1])>>) /\ UNCHANGED live
    /\ handlers' = Tail(handlers)
    /\ UNCHANGED <<daemon, requests, conn, client, budgets>>

-----------------------------------------------------------------------------
(* The client. *)

List(e, c) == [epoch |-> e, cursor |-> c]

ApplyList(p) ==
    LET base == IF p.mode = "snapshot" THEN NoLabels ELSE replica
    IN /\ replica' = [n \in Names |->
              IF p.labels[n] # NoColor THEN p.labels[n]
              ELSE IF n \in p.removals THEN NoColor ELSE base[n]]
       /\ cursor' = [generation |-> p.at.generation, afterSeq |-> p.at.head]

Follows(m) ==
    m.generation = cursor.generation /\ m.seq = cursor.afterSeq + 1

\* A list response of this connection, an update that follows the cursor, or an
\* update that does not and makes the client list again.
Deliver ==
    /\ out # <<>>
    /\ LET m == Head(out) IN
       \/ /\ m.kind = "list" /\ m.epoch = epoch
          /\ ApplyList(m.payload) /\ listed' = TRUE /\ UNCHANGED requests
       \/ /\ m.kind = "list" /\ m.epoch # epoch
          /\ UNCHANGED <<replica, cursor, listed, requests>>
       \/ /\ m.kind = "update" /\ Follows(m)
          /\ replica' = Apply(replica, m.change)
          /\ cursor' = [cursor EXCEPT !.afterSeq = m.seq]
          /\ UNCHANGED <<requests, listed>>
       \/ /\ m.kind = "update" /\ ~Follows(m)
          /\ requests' = Append(requests, List(epoch, cursor))
          /\ UNCHANGED <<replica, cursor, listed>>
    /\ out' = Tail(out)
    /\ UNCHANGED <<daemon, session, conn, epoch, budgets>>

\* A mutation that failed makes the client list again.
Refresh ==
    /\ conn /\ refreshes < MaxRefreshes /\ refreshes' = refreshes + 1
    /\ requests' = Append(requests, List(epoch, cursor))
    /\ UNCHANGED <<daemon, session, out, conn, client, changes, drops, restarts>>

Drop ==
    /\ conn /\ drops < MaxDrops /\ drops' = drops + 1
    /\ conn' = FALSE /\ requests' = <<>> /\ out' = <<>>
    /\ UNCHANGED <<daemon, session, client, changes, refreshes, restarts>>

\* The client connects, to the session it had or to a new one, and lists from
\* where its replica is.
Connect ==
    /\ ~conn /\ conn' = TRUE
    /\ epoch' = epoch + 1 /\ listed' = FALSE
    /\ requests' = <<List(epoch + 1, cursor)>>
    /\ \/ UNCHANGED session
       \/ handlers' = <<>> /\ live' = FALSE
    /\ UNCHANGED <<daemon, out, replica, cursor, budgets>>

\* The daemon restarts: another generation, an empty journal, no sessions.
Restart ==
    /\ restarts < MaxRestarts /\ restarts' = restarts + 1
    /\ sequence' = [generation |-> sequence.generation + 1, head |-> 0, journal |-> <<>>]
    /\ handlers' = <<>> /\ live' = FALSE
    /\ conn' = FALSE /\ requests' = <<>> /\ out' = <<>>
    /\ UNCHANGED <<catalog, client, changes, refreshes, drops>>

SessionStep == Receive \/ (\E i \in DOMAIN handlers : Subscribe(i)) \/ Respond

Next ==
    \/ \E ch \in Changes : Change(ch)
    \/ SessionStep
    \/ Deliver \/ Refresh \/ Drop \/ Connect \/ Restart

Spec == Init /\ [][Next]_vars

\* Handlers run, messages of a standing connection arrive, the client reconnects.
Fairness == WF_vars(SessionStep) /\ WF_vars(Deliver) /\ WF_vars(Connect)

FairSpec == Spec /\ Fairness

-----------------------------------------------------------------------------
(* Properties. *)

\* The cursor the replica claims to have reached is the head of the sequence.
CaughtUp == cursor = [generation |-> sequence.generation, afterSeq |-> sequence.head]

\* A replica that has caught up has every label of the catalog, in its color,
\* however it got there: snapshots, compacted changes, live updates, across
\* reconnections, overlapping lists and restarts.  (It may have a label more:
\* Without loses the removal of a label both edited and deleted meanwhile.)
NothingMissing ==
    CaughtUp => \A n \in Names : catalog[n] # NoColor => replica[n] = catalog[n]

\* Once a list of this connection is applied, live updates neither skip nor
\* repeat a change, even when lists overlap.
StreamUnbroken ==
    listed /\ out # <<>> /\ Head(out).kind = "update" => Follows(Head(out))

\* When changes and disconnections stop, the replica catches up for good.
EventuallyCaughtUp == <>[]CaughtUp
=============================================================================
