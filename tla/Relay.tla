-------------------------------- MODULE Relay --------------------------------
(***************************************************************************)
(* A client reaches the daemon through the relay, inside an encrypted      *)
(* channel.  The relay joins the client's socket to a data socket the      *)
(* daemon opens for it when the control socket announces the client; what  *)
(* the client sends before that is buffered.                               *)
(*                                                                         *)
(*   packages/relay/src/cloudflare-adapter.ts     RelayDurableObject       *)
(*   packages/relay/src/encrypted-channel.ts      both ends of the channel *)
(*   packages/server/src/server/relay-transport.ts   the daemon's sockets  *)
(*                                                                         *)
(* The relay is the one in this repository; the hosted service is a        *)
(* separate program with the same protocol.                                *)
(*                                                                         *)
(* A link is two FIFO queues.  A close travels in band behind what was     *)
(* sent before; a lost link loses what is in it and shows each end a close *)
(* in its own time.  A client never chooses its connection id, so each     *)
(* client socket has its own and one key: a second key is not modelled,    *)
(* nor are the older protocol (v1), the daemon's own messages to the       *)
(* client, and a relay that loses its memory while sockets stay open.      *)
(***************************************************************************)
EXTENDS Integers, Sequences, SequencesExt, FiniteSets, FiniteSetsExt

CONSTANTS
    Conns,        \* client sockets, each with the connection id the relay gave it
    BufferLimit,  \* frames bufferFrame keeps (200)
    MaxData,      \* bound on the data sockets the daemon opens for one client
    MaxSends,     \* bound on the messages of one client
    MaxRetries,   \* bound on the hellos it repeats
    MaxFailures   \* bound on lost links and refused connections

ASSUME RelayAssumption ==
    /\ BufferLimit \in Nat \ {0}
    /\ {MaxData, MaxSends, MaxRetries, MaxFailures} \subseteq Nat

VARIABLES
    client,       \* EncryptedChannel.state of the client
    sent,         \* how many messages it has sent
    retries,      \* how many hellos it has repeated
    up, down,     \* its link to the relay and back
    atRelay,      \* the relay's end of that link
    pending,      \* pendingFrames
    timer,        \* the stage of nudgeOrResetControlForConnection
    data,         \* the data sockets opened for each client, by age
    held,         \* dataSockets: the one the daemon has for it, 0 if none
    control,      \* the control socket: up, reset by the relay, or down
    notices,      \* what the relay has sent on it
    unannounced,  \* history: clients whose disconnected notice was lost
    stopped,      \* stop() was called on the daemon's transport
    failures

clientVars == <<client, sent, retries>>
daemonVars == <<held, stopped>>
controlVars == <<control, notices, unannounced>>
vars == <<clientVars, up, down, atRelay, pending, timer, data, daemonVars, controlVars, failures>>

Gens == 1..MaxData

Hello == [kind |-> "hello", n |-> 0]
Ready == [kind |-> "ready", n |-> 0]
Close == [kind |-> "close", n |-> 0]
Cipher(n) == [kind |-> "cipher", n |-> n]
Frames == {Hello, Ready, Close} \cup {Cipher(n) : n \in 1..MaxSends}

NoData == [far |-> "none", near |-> "none", in |-> <<>>, out |-> <<>>, early |-> <<>>, got |-> <<>>]
FarStates == {"none", "connecting", "await", "ready", "open", "closing", "closed"}
NearStates == {"none", "open", "closing", "gone"}

TypeOK ==
    /\ client \in [Conns -> {"new", "handshaking", "open", "closed"}]
    /\ sent \in [Conns -> 0..MaxSends]
    /\ retries \in [Conns -> 0..MaxRetries]
    /\ {up, down, pending} \subseteq [Conns -> Seq(Frames)]
    /\ atRelay \in [Conns -> NearStates]
    /\ timer \in [Conns -> {"off", "first", "second"}]
    /\ data \in [Conns -> [Gens -> [far : FarStates, near : NearStates, in : Seq(Frames),
                                    out : Seq(Frames), early : Seq(Frames), got : Seq(1..MaxSends)]]]
    /\ held \in [Conns -> 0..MaxData]
    /\ control \in {"up", "reset", "down"}
    /\ notices \in Seq([kind : {"attach", "disconnected", "reset"}, ids : SUBSET Conns])
    /\ unannounced \subseteq Conns
    /\ stopped \in BOOLEAN
    /\ failures \in 0..MaxFailures

Init ==
    /\ client = [c \in Conns |-> "new"]
    /\ sent = [c \in Conns |-> 0]
    /\ retries = [c \in Conns |-> 0]
    /\ up = [c \in Conns |-> <<>>]
    /\ down = [c \in Conns |-> <<>>]
    /\ atRelay = [c \in Conns |-> "none"]
    /\ pending = [c \in Conns |-> <<>>]
    /\ timer = [c \in Conns |-> "off"]
    /\ data = [c \in Conns |-> [g \in Gens |-> NoData]]
    /\ held = [c \in Conns |-> 0]
    /\ control = "up"
    /\ notices = <<>>
    /\ unannounced = {}
    /\ stopped = FALSE
    /\ failures = 0

-----------------------------------------------------------------------------
(* Links. *)

\* An end answers a close with a close, once.
Answered(q) == IF q # <<>> /\ Last(q) = Close THEN q ELSE Append(q, Close)

\* close() by the relay and by the daemon.
CloseNear(d) ==
    IF d.near = "open" THEN [d EXCEPT !.near = "closing", !.in = Append(@, Close)] ELSE d
CloseFar(d) ==
    CASE d.far = "connecting" -> [d EXCEPT !.far = "closed"]
      [] d.far \in {"await", "ready", "open"} -> [d EXCEPT !.far = "closing", !.out = Append(@, Close)]
      [] OTHER -> d

Listed(c) == atRelay[c] \in {"open", "closing"}
Servers(c) == {g \in Gens : data[c][g].near \in {"open", "closing"}}

\* Closing the client's sockets as the relay's part of a daemon that went away.
CloseClient(c) ==
    IF atRelay[c] = "open"
    THEN /\ atRelay' = [atRelay EXCEPT ![c] = "closing"]
         /\ down' = [down EXCEPT ![c] = Append(@, Close)]
    ELSE UNCHANGED <<atRelay, down>>

Notify(kind, ids) ==
    /\ notices' = IF control = "up" THEN Append(notices, [kind |-> kind, ids |-> ids]) ELSE notices
    /\ unannounced' = unannounced \cup (IF kind = "disconnected" /\ control # "up" THEN ids ELSE {})
    /\ UNCHANGED control

-----------------------------------------------------------------------------
(* The client's end of the channel. *)

Connect(c) ==
    /\ client[c] = "new"
    /\ client' = [client EXCEPT ![c] = "handshaking"]
    /\ up' = [up EXCEPT ![c] = <<Hello>>]
    /\ atRelay' = [atRelay EXCEPT ![c] = "open"]
    /\ Notify("attach", {c})
    /\ timer' = [timer EXCEPT ![c] = "first"]
    /\ UNCHANGED <<sent, retries, down, pending, data, daemonVars, failures>>

RetryWhile_Slip(c) == client[c] \in {"handshaking", "open"}
RetryWhile(c) == client[c] = "handshaking"

HelloRetry(c) ==
    /\ RetryWhile(c)
    /\ retries[c] < MaxRetries
    /\ retries' = [retries EXCEPT ![c] = @ + 1]
    /\ up' = [up EXCEPT ![c] = Append(@, Hello)]
    /\ UNCHANGED <<client, sent, down, atRelay, pending, timer, data, daemonVars, controlVars, failures>>

ClientSend(c) ==
    /\ client[c] = "open"
    /\ sent[c] < MaxSends
    /\ sent' = [sent EXCEPT ![c] = @ + 1]
    /\ up' = [up EXCEPT ![c] = Append(@, Cipher(sent[c] + 1))]
    /\ UNCHANGED <<client, retries, down, atRelay, pending, timer, data, daemonVars, controlVars, failures>>

ClientClose(c) ==
    /\ client[c] \in {"handshaking", "open"}
    /\ client' = [client EXCEPT ![c] = "closed"]
    /\ up' = [up EXCEPT ![c] = Answered(@)]
    /\ UNCHANGED <<sent, retries, down, atRelay, pending, timer, data, daemonVars, controlVars, failures>>

ClientReceive(c) ==
    /\ down[c] # <<>>
    /\ down' = [down EXCEPT ![c] = Tail(@)]
    /\ \/ /\ Head(down[c]) = Ready
          /\ client' = [client EXCEPT ![c] = IF @ = "handshaking" THEN "open" ELSE @]
          /\ UNCHANGED up
       \/ /\ Head(down[c]) = Close
          /\ client' = [client EXCEPT ![c] = "closed"]
          /\ up' = [up EXCEPT ![c] = IF client[c] = "closed" THEN @ ELSE Answered(@)]
    /\ UNCHANGED <<sent, retries, atRelay, pending, timer, data, daemonVars, controlVars, failures>>

-----------------------------------------------------------------------------
(* The relay. *)

\* bufferFrame, dropping the oldest beyond the limit
BufferFrame(q, f) ==
    LET all == Append(q, f)
        excess == Len(all) - BufferLimit
    IN  IF excess > 0 THEN SubSeq(all, excess + 1, Len(all)) ELSE all

\* webSocketMessage of a client: to every data socket that still takes frames,
\* or kept for the next one.
Feed(d, f) == IF d.near = "open" THEN [d EXCEPT !.in = Append(@, f)] ELSE d

RelayFromClient(c) ==
    /\ up[c] # <<>> /\ Head(up[c]) # Close
    /\ up' = [up EXCEPT ![c] = Tail(@)]
    /\ IF ~Listed(c) THEN UNCHANGED <<pending, data>>
       ELSE IF Servers(c) = {}
       THEN /\ pending' = [pending EXCEPT ![c] = BufferFrame(@, Head(up[c]))]
            /\ UNCHANGED data
       ELSE /\ data' = [data EXCEPT ![c] = [g \in Gens |-> Feed(@[g], Head(up[c]))]]
            /\ UNCHANGED pending
    /\ UNCHANGED <<clientVars, down, atRelay, timer, daemonVars, controlVars, failures>>

\* webSocketClose of a client
RelayClientClosed(c) ==
    /\ up[c] # <<>> /\ Head(up[c]) = Close
    /\ up' = [up EXCEPT ![c] = Tail(@)]
    /\ IF ~Listed(c) THEN UNCHANGED <<down, atRelay, pending, data, controlVars>>
       ELSE /\ atRelay' = [atRelay EXCEPT ![c] = "gone"]
            /\ down' = [down EXCEPT ![c] = Answered(@)]
            /\ pending' = [pending EXCEPT ![c] = <<>>]
            /\ data' = [data EXCEPT ![c] = [g \in Gens |-> CloseNear(@[g])]]
            /\ Notify("disconnected", {c})
    /\ UNCHANGED <<clientVars, timer, daemonVars, failures>>

\* webSocketMessage of a data socket
RelayFromData(c, g) ==
    /\ data[c][g].out # <<>> /\ Head(data[c][g].out) # Close
    /\ data' = [data EXCEPT ![c][g].out = Tail(@)]
    /\ down' = IF data[c][g].near \in {"open", "closing"} /\ atRelay[c] = "open"
               THEN [down EXCEPT ![c] = Append(@, Head(data[c][g].out))] ELSE down
    /\ UNCHANGED <<clientVars, up, atRelay, pending, timer, daemonVars, controlVars, failures>>

\* webSocketClose of a data socket, also of one the relay has closed itself
DaemonWentAway_Slip(c) == UNCHANGED <<atRelay, down>>
DaemonWentAway(c) == CloseClient(c)

RelayDataClosed(c, g) ==
    LET d == data[c][g]
    IN  /\ d.out # <<>> /\ Head(d.out) = Close
        /\ data' = [data EXCEPT ![c][g] = [d EXCEPT !.out = Tail(@), !.near = "gone",
                        !.in = IF d.near = "open" /\ d.far # "closed" THEN Answered(@) ELSE @]]
        /\ IF d.near \in {"open", "closing"} THEN DaemonWentAway(c) ELSE UNCHANGED <<atRelay, down>>
        /\ UNCHANGED <<clientVars, up, pending, timer, daemonVars, controlVars, failures>>

\* fetchV2 of a data socket: closeExistingServerSockets, then flushFrames.  The
\* daemon's open event is taken in the same step.
RelayAccept(c, g) ==
    /\ data[c][g].far = "connecting"
    /\ data' = [data EXCEPT ![c] = [h \in Gens |->
           IF h = g THEN [@[h] EXCEPT !.far = "await", !.near = "open", !.in = pending[c]]
           ELSE CloseNear(@[h])]]
    /\ pending' = [pending EXCEPT ![c] = <<>>]
    /\ UNCHANGED <<clientVars, up, down, atRelay, timer, daemonVars, controlVars, failures>>

\* nudgeOrResetControlForConnection
Unserved(c) == Listed(c) /\ Servers(c) = {}

Nudge(c) ==
    /\ timer[c] = "first"
    /\ timer' = [timer EXCEPT ![c] = IF Unserved(c) THEN "second" ELSE "off"]
    /\ IF Unserved(c) THEN Notify("attach", {x \in Conns : Listed(x)}) ELSE UNCHANGED controlVars
    /\ UNCHANGED <<clientVars, up, down, atRelay, pending, data, daemonVars, failures>>

Reset(c) ==
    /\ timer[c] = "second"
    /\ timer' = [timer EXCEPT ![c] = "off"]
    /\ IF Unserved(c) /\ control = "up"
       THEN /\ notices' = Append(notices, [kind |-> "reset", ids |-> {}])
            /\ control' = "reset"
            /\ UNCHANGED unannounced
       ELSE UNCHANGED controlVars
    /\ UNCHANGED <<clientVars, up, down, atRelay, pending, data, daemonVars, failures>>

-----------------------------------------------------------------------------
(* The daemon. *)

Fresh(c) == {g \in Gens : data[c][g].far = "none"}

\* ensureClientDataSocket for each of ids
EnsureDataSockets(ids) ==
    LET new == {c \in ids : held[c] = 0}
    IN  /\ \A c \in new : Fresh(c) # {}
        /\ held' = [c \in Conns |-> IF c \in new THEN Min(Fresh(c)) ELSE held[c]]
        /\ data' = [c \in Conns |-> [g \in Gens |->
               IF c \in new /\ g = Min(Fresh(c)) THEN [NoData EXCEPT !.far = "connecting"]
               ELSE data[c][g]]]

\* Closing the data sockets it holds for ids.
CloseHeld(ids) ==
    /\ held' = [c \in Conns |-> IF c \in ids THEN 0 ELSE held[c]]
    /\ data' = [c \in Conns |-> [g \in Gens |->
           IF c \in ids /\ g = held[c] THEN CloseFar(data[c][g]) ELSE data[c][g]]]

OnDisconnected_Slip(ids) == UNCHANGED <<held, data>>
OnDisconnected(ids) == CloseHeld(ids)

ControlReceive ==
    /\ notices # <<>>
    /\ LET m == Head(notices)
       IN  \/ /\ m.kind = "attach"
              /\ EnsureDataSockets(m.ids)
              /\ UNCHANGED control
           \/ /\ m.kind = "disconnected"
              /\ OnDisconnected(m.ids)
              /\ UNCHANGED control
           \/ /\ m.kind = "reset"
              /\ control' = "down"
              /\ UNCHANGED <<held, data>>
    /\ notices' = Tail(notices)
    /\ UNCHANGED <<clientVars, up, down, atRelay, pending, timer, stopped, unannounced, failures>>

\* connectControl, and the list the relay answers with
ControlReconnect ==
    /\ control = "down" /\ ~stopped
    /\ control' = "up"
    /\ notices' = <<[kind |-> "attach", ids |-> {c \in Conns : Listed(c)}]>>
    /\ UNCHANGED <<clientVars, up, down, atRelay, pending, timer, data, daemonVars, unannounced, failures>>

\* A frame of a data socket: the hello it waits for, frames kept while the answer
\* is sent (but for the hellos, which are skipped when the others are taken), then
\* messages and repeated hellos of the open channel.
Early_Slip(q, f) == q
Early(q, f) == IF f = Hello THEN q ELSE Append(q, f)

DataReceive(c, g) ==
    LET d == data[c][g]
        f == Head(d.in)
        rest == [d EXCEPT !.in = Tail(@)]
    IN  /\ d.in # <<>> /\ f # Close
        /\ data' = [data EXCEPT ![c][g] =
               CASE d.far = "await" /\ f = Hello ->
                        [rest EXCEPT !.far = "ready", !.out = Append(@, Ready)]
                 [] d.far = "await" /\ f # Hello -> CloseFar(rest)
                 [] d.far = "ready" -> [rest EXCEPT !.early = Early(@, f)]
                 [] d.far = "open" /\ f = Hello -> [rest EXCEPT !.out = Append(@, Ready)]
                 [] d.far = "open" /\ f # Hello -> [rest EXCEPT !.got = Append(@, f.n)]
                 [] OTHER -> rest]
        /\ UNCHANGED <<clientVars, up, down, atRelay, pending, timer, daemonVars, controlVars, failures>>

\* createDaemonChannel goes on once its answer is sent: the channel is open and
\* takes the frames kept.
DataReady(c, g) ==
    LET d == data[c][g]
    IN  /\ d.far = "ready"
        /\ data' = [data EXCEPT ![c][g] = [d EXCEPT !.far = "open", !.early = <<>>,
                        !.got = [i \in 1..Len(d.early) |-> d.early[i].n]]]
        /\ UNCHANGED <<clientVars, up, down, atRelay, pending, timer, daemonVars, controlVars, failures>>

DataClosed(c, g) ==
    LET d == data[c][g]
    IN  /\ d.in # <<>> /\ Head(d.in) = Close
        /\ data' = [data EXCEPT ![c][g] = [d EXCEPT !.in = Tail(@), !.far = "closed", !.early = <<>>,
                        !.out = IF d.far = "closed" THEN @ ELSE Answered(@)]]
        /\ held' = [held EXCEPT ![c] = IF @ = g THEN 0 ELSE @]
        /\ UNCHANGED <<clientVars, up, down, atRelay, pending, timer, stopped, controlVars, failures>>

\* The server refuses or ends the session (attachSocket, EncryptedChannel.close).
SessionClosed(c, g) ==
    /\ data[c][g].far \in {"ready", "open"}
    /\ failures < MaxFailures
    /\ failures' = failures + 1
    /\ data' = [data EXCEPT ![c][g] = CloseFar(@)]
    /\ UNCHANGED <<clientVars, up, down, atRelay, pending, timer, daemonVars, controlVars>>

Stop ==
    /\ ~stopped
    /\ stopped' = TRUE
    /\ control' = "down"
    /\ notices' = <<>>
    /\ CloseHeld(Conns)
    /\ UNCHANGED <<clientVars, up, down, atRelay, pending, timer, unannounced, failures>>
-----------------------------------------------------------------------------
(* Lost links. *)

Fails == failures < MaxFailures /\ failures' = failures + 1

ClientLinkLost(c) ==
    /\ Fails
    /\ client[c] \in {"handshaking", "open"} /\ atRelay[c] = "open"
    /\ up' = [up EXCEPT ![c] = <<Close>>]
    /\ down' = [down EXCEPT ![c] = <<Close>>]
    /\ UNCHANGED <<clientVars, atRelay, pending, timer, data, daemonVars, controlVars>>

DataLinkLost(c, g) ==
    /\ Fails
    /\ data[c][g].far \in {"await", "ready", "open"} /\ data[c][g].near = "open"
    /\ data' = [data EXCEPT ![c][g] = [@ EXCEPT !.in = <<Close>>, !.out = <<Close>>]]
    /\ UNCHANGED <<clientVars, up, down, atRelay, pending, timer, daemonVars, controlVars>>

\* The data socket does not open, or not in time.
DataRefused(c, g) ==
    /\ Fails
    /\ data[c][g].far = "connecting"
    /\ data' = [data EXCEPT ![c][g].far = "closed"]
    /\ held' = [held EXCEPT ![c] = IF @ = g THEN 0 ELSE @]
    /\ UNCHANGED <<clientVars, up, down, atRelay, pending, timer, stopped, controlVars>>

ControlLost ==
    /\ Fails
    /\ control # "down"
    /\ control' = "down"
    /\ notices' = <<>>
    /\ unannounced' = unannounced \cup
           UNION {m.ids : m \in {x \in ToSet(notices) : x.kind = "disconnected"}}
    /\ UNCHANGED <<clientVars, up, down, atRelay, pending, timer, data, daemonVars>>

-----------------------------------------------------------------------------
\* What sockets and timers do by themselves; the rest is up to clients, the
\* server's sessions and the network.
SystemStep ==
    \/ ControlReceive \/ ControlReconnect
    \/ \E c \in Conns :
           \/ ClientReceive(c) \/ RelayFromClient(c) \/ RelayClientClosed(c)
           \/ Nudge(c) \/ Reset(c)
           \/ \E g \in Gens :
                  \/ RelayAccept(c, g) \/ RelayFromData(c, g) \/ RelayDataClosed(c, g)
                  \/ DataReceive(c, g) \/ DataReady(c, g) \/ DataClosed(c, g)

Next ==
    \/ SystemStep
    \/ Stop \/ ControlLost
    \/ \E c \in Conns :
           \/ Connect(c) \/ HelloRetry(c) \/ ClientSend(c) \/ ClientClose(c) \/ ClientLinkLost(c)
           \/ \E g \in Gens : SessionClosed(c, g) \/ DataLinkLost(c, g) \/ DataRefused(c, g)

Spec == Init /\ [][Next]_vars
FairSpec == Spec /\ WF_vars(SystemStep)

-----------------------------------------------------------------------------
(* Properties. *)

\* The server's session of any data socket receives what the client sent from its
\* first message on, in order and without a gap, whichever frames were buffered by
\* the relay or kept during the handshake, and whichever data socket took over: a
\* channel is never opened in the middle of a conversation.
SessionReceivesPrefix ==
    \A c \in Conns, g \in Gens :
        LET got == data[c][g].got
        IN  /\ Len(got) <= sent[c]
            /\ \A i \in 1..Len(got) : got[i] = i

\* A client to which the relay has once attached a data socket is not left hanging
\* between the two: it comes to be served by an open session, or is closed so that
\* it connects anew; a session lost later is no exception.
Served(c) ==
    /\ client[c] = "open"
    /\ \E g \in Gens : data[c][g].far = "open" /\ data[c][g].near = "open"
AttachedClientIsServed ==
    \A c \in Conns :
        (/\ client[c] \in {"handshaking", "open"}
         /\ \E g \in Gens : data[c][g].near # "none")
        ~> (client[c] = "closed" \/ Served(c))

\* The daemon keeps no data socket of a client that is gone, unless the relay had
\* no control socket to tell it on.
DataSocketsEnd ==
    \A c \in Conns, g \in Gens :
        (client[c] = "closed" /\ data[c][g].far # "none")
        ~> (data[c][g].far = "closed" \/ c \in unannounced)
=============================================================================
