------------------------------ MODULE Presence ------------------------------
(***************************************************************************)
(* PresenceManager's table of sockets: who is connected, the bounded queue *)
(* and writer task of every socket, the broadcasts that tell an account's  *)
(* sockets which devices are online, and the logouts that take sockets     *)
(* away.  One account is modelled; nothing but the process-wide limit on   *)
(* sockets is shared between accounts.                                     *)
(*                                                                         *)
(* Everything runs on one event loop.  The manager's lock is never held    *)
(* across an await, so a step is the code between two awaits: a database   *)
(* call, a writer task being waited for, a socket being closed.            *)
(***************************************************************************)
EXTENDS Integers, FiniteSets, Sequences, Functions

CONSTANTS
    Devices,           \* the account's devices
    Conns,             \* sockets the clients may open, one identifier each
    Logouts,           \* logout requests that may be in flight at once
    Notifiers,         \* handlers that send a transfer's messages to a device
    MaxConnections,    \* MAX_CONNECTIONS_PER_ACCOUNT
    MaxQueueMessages,  \* MAX_WEBSOCKET_QUEUE_MESSAGES
    MaxQueueBytes,     \* MAX_WEBSOCKET_QUEUE_BYTES
    NoticeBytes,       \* the size of a transfer message, presence being 1
    HeartbeatTimeout,  \* PRESENCE_HEARTBEAT_TIMEOUT, in clock units
    DbFails,           \* whether queries may time out in this run
    MaxTime,           \* bound: the clock stops here
    None               \* no socket, no device

ASSUME PresenceAssumption ==
    /\ MaxConnections \in Nat \ {0}
    /\ MaxQueueMessages \in Nat \ {0}
    /\ MaxQueueBytes \in Nat
    /\ NoticeBytes \in Nat
    /\ HeartbeatTimeout \in Nat \ {0}
    /\ MaxTime \in Nat
    /\ DbFails \in BOOLEAN
    /\ None \notin Devices \cup Conns
    /\ IsFiniteSet(Devices)
    /\ Conns \cap Logouts = {} /\ Conns \cap Notifiers = {} /\ Logouts \cap Notifiers = {}

VARIABLES
    now,      \* the clock
    active,   \* devices whose row is 'active'
    revoked,  \* sockets whose session a logout has revoked
    current,  \* PresenceManager._connections of the account
    hb,       \* ActiveConnection.last_heartbeat_at
    out,      \* PresenceManager._outbound and the writer tasks
    task,     \* the coroutines: one per socket, logout and notifier
    open,     \* the sockets themselves
    greeted   \* sockets that were sent a list with their own device in it

pvars == <<now, active, revoked, current, hb, out, task, open, greeted>>

-----------------------------------------------------------------------------
(* Queues *)

\* A payload is a transfer message or the devices of a presence event.
Notice == [kind |-> "transfer", devices |-> {}]
PresenceEvent(ds) == [kind |-> "presence", devices |-> ds]
Size(p) == IF p = Notice THEN NoticeBytes ELSE 1

\* The sum of the sizes: there are two of them.
Bytes(q) == LET notices == {i \in DOMAIN q : q[i] = Notice} IN
            NoticeBytes * Cardinality(notices) + Cardinality(DOMAIN q \ notices)

NoQueue == [tabled |-> FALSE, q |-> <<>>, bytes |-> 0, failed |-> FALSE,
            writer |-> "none", held |-> Notice, cancel |-> FALSE]

NewQueue == [NoQueue EXCEPT !.tabled = TRUE, !.writer = "get"]

\* _stop_outbound() of a queue that was taken out of the table.
StopOutbound(o) == [o EXCEPT !.tabled = FALSE, !.failed = TRUE, !.bytes = 0,
                             !.q = <<>>, !.cancel = TRUE]

\* Mutant: the size of the new payload is not counted.
OverflowsLate(c, p) ==
    \/ Len(out[c].q) >= MaxQueueMessages
    \/ out[c].bytes > MaxQueueBytes

Overflows(c, p) ==
    \/ Len(out[c].q) >= MaxQueueMessages
    \/ out[c].bytes + Size(p) > MaxQueueBytes

Queued(o, p) == [o EXCEPT !.q = Append(@, p), !.bytes = @ + Size(p)]

-----------------------------------------------------------------------------
(* Sockets and coroutines *)

Tasks == Conns \cup Logouts \cup Notifiers

\* doomed: sockets this coroutine took out of the table and has yet to stop
\* and close; todo, seen: the locals of broadcast_presence(); first: whether
\* the broadcast is the one that follows the registration.
NoTask == [pc |-> "free", dev |-> None, doomed |-> <<>>, todo |-> {}, seen |-> {},
           first |-> TRUE]

Goto(k, pc) == task' = [task EXCEPT ![k].pc = pc]

Running(k, pc) == task[k].pc = pc /\ task[k].doomed = <<>>

OnlineConns == {current[d] : d \in Devices} \ {None}

Registered(c) == c \in OnlineConns

\* prune_expired(): sockets whose heartbeat is too old.
Expired == {c \in OnlineConns : hb[c] + HeartbeatTimeout <= now}

\* The orders in which a set of sockets may be gone through.
Orders(cs) == Bijection(1..Cardinality(cs), cs)

Without(cs) == [d \in Devices |-> IF current[d] \in cs THEN None ELSE current[d]]

\* Take the sockets of a sequence out of the table and stop the first queue.
\* The coroutine then waits for its writer, closes the socket, and goes on
\* with the next one.
Doom(k, s, pc) ==
    /\ current' = Without(Range(s))
    /\ out' = [out EXCEPT ![Head(s)] = StopOutbound(@)]
    /\ task' = [task EXCEPT ![k].doomed = s, ![k].pc = pc]

\* Mutant: the socket is left to its client.
ReapUnclosed(k) ==
    LET rest == Tail(task[k].doomed) IN
    /\ task[k].doomed # <<>>
    /\ out[Head(task[k].doomed)].writer = "ended"
    /\ task' = [task EXCEPT ![k].doomed = rest]
    /\ out' = IF rest = <<>> THEN out ELSE [out EXCEPT ![Head(rest)] = StopOutbound(@)]
    /\ UNCHANGED <<now, active, revoked, current, hb, open, greeted>>

Reap(k) ==
    LET c == Head(task[k].doomed)
        rest == Tail(task[k].doomed)
    IN /\ task[k].doomed # <<>>
       /\ out[c].writer = "ended"
       /\ open' = [open EXCEPT ![c] = "closed"]
       /\ task' = [task EXCEPT ![k].doomed = rest]
       /\ out' = IF rest = <<>> THEN out
                 ELSE [out EXCEPT ![Head(rest)] = StopOutbound(@)]
       /\ UNCHANGED <<now, active, revoked, current, hb, greeted>>

-----------------------------------------------------------------------------
(* websocket_presence(): admission *)

\* consume_for_socket(): the ticket's session is current.
Connect(c) ==
    /\ task[c].pc = "free"
    /\ \E d \in active : task' = [task EXCEPT ![c].pc = "lookup", ![c].dev = d]
    /\ UNCHANGED <<now, active, revoked, current, hb, out, open, greeted>>

\* find_current_by_id(), then accept() is awaited.
Lookup(c) ==
    /\ task[c].pc = "lookup"
    /\ Goto(c, IF c \notin revoked THEN "accept" ELSE "ended")
    /\ UNCHANGED <<now, active, revoked, current, hb, out, open, greeted>>

HasCapacity == Cardinality(OnlineConns) < MaxConnections

Replaced(prev) == IF prev = None THEN <<>> ELSE <<prev>>

\* register(): the new socket's queue and writer; the replaced one's stopped.
RegisteredQueues(c, prev) ==
    [x \in Conns |-> CASE x = c -> NewQueue
                       [] x = prev -> StopOutbound(out[x])
                       [] OTHER -> out[x]]

Register(c) ==
    LET d == task[c].dev
        prev == current[d]
    IN /\ task[c].pc = "accept"
       /\ IF prev = None /\ ~HasCapacity
          THEN /\ Goto(c, "ended")
               /\ open' = [open EXCEPT ![c] = "closed"]
               /\ UNCHANGED <<current, hb, out>>
          ELSE /\ current' = [current EXCEPT ![d] = c]
               /\ hb' = [hb EXCEPT ![c] = now]
               /\ out' = RegisteredQueues(c, prev)
               /\ open' = [open EXCEPT ![c] = "open"]
               /\ task' = [task EXCEPT ![c].pc = "snapshot", ![c].first = TRUE,
                             ![c].doomed = Replaced(prev)]
       /\ UNCHANGED <<now, active, revoked, greeted>>

-----------------------------------------------------------------------------
(* broadcast_presence() *)

\* Where a coroutine goes after its broadcast.
AfterBroadcast(k) == IF k \in Conns /\ task[k].first THEN "serve" ELSE "ended"

List(k) ==
    /\ task' = [task EXCEPT ![k].todo = OnlineConns, ![k].seen = {},
                            ![k].pc = IF OnlineConns = {} THEN AfterBroadcast(k) ELSE "read"]
    /\ UNCHANGED <<current, out>>

\* online_devices(): prune, then list the sockets.
Snapshot(k) ==
    /\ \/ /\ Running(k, "snapshot")
          /\ IF Expired = {} THEN List(k)
             ELSE \E s \in Orders(Expired) : Doom(k, s, "listed")
       \/ Running(k, "listed") /\ List(k)
    /\ UNCHANGED <<now, active, revoked, hb, open, greeted>>

\* ... and one query per socket's device.
ReadDevice(k) ==
    /\ Running(k, "read")
    /\ \E c \in task[k].todo :
         task' = [task EXCEPT ![k].todo = @ \ {c},
                              ![k].seen = @ \cup ({task[c].dev} \cap active),
                              ![k].pc = IF task[k].todo = {c} THEN "publish" ELSE "read"]
    /\ UNCHANGED <<now, active, revoked, current, hb, out, open, greeted>>

Accepting(c) == Registered(c) /\ out[c].tabled /\ ~out[c].failed

\* _enqueue_outbound() on socket after socket: no await comes between them
\* until a full queue makes _drop() remove and close its socket.
EnqueueAll(k, cs) ==
    LET p == PresenceEvent(task[k].seen)
        Filled(some) == [c \in Conns |-> IF c \in some /\ Accepting(c)
                                         THEN Queued(out[c], p) ELSE out[c]]
        full == {c \in cs : Accepting(c) /\ Overflows(c, p)}
    IN \/ /\ full = {}
          /\ out' = Filled(cs)
          /\ task' = [task EXCEPT ![k].pc = AfterBroadcast(k), ![k].todo = {}, ![k].seen = {}]
          /\ UNCHANGED current
       \/ \E c \in full, before \in SUBSET (cs \ full) :
            /\ out' = [Filled(before) EXCEPT ![c] = StopOutbound(@)]
            /\ current' = Without({c})
            /\ task' = [task EXCEPT ![k].pc = "enqueue", ![k].doomed = <<c>>,
                                    ![k].todo = cs \ (before \cup {c})]

\* Mutant: the coroutine's own socket is left out.
AudienceOthers(k) == OnlineConns \ {k}

\* online_connections(), after the list has been made.
Audience(k) == OnlineConns

Publish(k) ==
    /\ \/ /\ Running(k, "publish")
          /\ IF Expired = {} THEN EnqueueAll(k, Audience(k))
             ELSE \E s \in Orders(Expired) : Doom(k, s, "gather")
       \/ Running(k, "gather") /\ EnqueueAll(k, Audience(k))
       \/ Running(k, "enqueue") /\ EnqueueAll(k, task[k].todo)
    /\ UNCHANGED <<now, active, revoked, hb, open, greeted>>

\* A query times out.  websocket_presence() makes its first broadcast outside
\* the try block whose finally clause removes the socket.
BroadcastFails(k) ==
    /\ DbFails
    /\ Running(k, "read")
    /\ task' = [task EXCEPT ![k].pc = "ended", ![k].todo = {}, ![k].seen = {}]
    /\ open' = IF k \in Conns THEN [open EXCEPT ![k] = "closed"] ELSE open
    /\ UNCHANGED <<now, active, revoked, current, hb, out, greeted>>

-----------------------------------------------------------------------------
(* _serve_connection() *)

\* A heartbeat arrives: heartbeat() asks whether the session is current.
Heartbeat(c) ==
    /\ Running(c, "serve")
    /\ open[c] = "open"
    /\ Goto(c, IF c \notin revoked THEN "beat" ELSE "gone")
    /\ UNCHANGED <<now, active, revoked, current, hb, out, open, greeted>>

Beat(c) ==
    /\ task[c].pc = "beat"
    /\ IF Registered(c)
       THEN hb' = [hb EXCEPT ![c] = now] /\ Goto(c, "serve") /\ UNCHANGED open
       ELSE open' = [open EXCEPT ![c] = "closed"] /\ Goto(c, "remove") /\ UNCHANGED hb
    /\ UNCHANGED <<now, active, revoked, current, out, greeted>>

\* Mutant: the answer of the query is ignored.
SessionGoneIgnored(c) ==
    /\ task[c].pc = "gone"
    /\ hb' = [hb EXCEPT ![c] = now]
    /\ Goto(c, "serve")
    /\ UNCHANGED <<now, active, revoked, current, out, open, greeted>>

SessionGone(c) ==
    /\ Running(c, "gone")
    /\ IF Registered(c)
       THEN Doom(c, <<c>>, "remove") /\ UNCHANGED open
       ELSE /\ open' = [open EXCEPT ![c] = "closed"]
            /\ Goto(c, "remove")
            /\ UNCHANGED <<current, out>>
    /\ UNCHANGED <<now, active, revoked, hb, greeted>>

\* receive_text() raises: the socket is closed, was silent for the timeout,
\* sent something malformed or used up its budget of messages; or the query of
\* a heartbeat timed out.
ServeEnds(c) ==
    /\ Running(c, "serve")
    /\ open' = [open EXCEPT ![c] = "closed"]
    /\ Goto(c, "remove")
    /\ UNCHANGED <<now, active, revoked, current, hb, out, greeted>>

\* The finally clause: remove(), and a broadcast when the socket was current.
RemoveSocket(c) ==
    /\ Running(c, "remove")
    /\ IF Registered(c)
       THEN /\ current' = Without({c})
            /\ out' = [out EXCEPT ![c] = StopOutbound(@)]
            /\ task' = [task EXCEPT ![c].pc = "snapshot", ![c].first = FALSE,
                                    ![c].doomed = <<c>>]
       ELSE Goto(c, "ended") /\ UNCHANGED <<current, out>>
    /\ UNCHANGED <<now, active, revoked, hb, open, greeted>>

ClientLeaves(c) ==
    /\ open[c] = "open"
    /\ open' = [open EXCEPT ![c] = "closed"]
    /\ UNCHANGED <<now, active, revoked, current, hb, out, task, greeted>>

-----------------------------------------------------------------------------
(* _drain_outbound(): the writer task of a socket *)

Take(c) ==
    /\ out[c].writer = "get" /\ ~out[c].cancel
    /\ out[c].q # <<>>
    /\ out' = [out EXCEPT ![c].writer = "send", ![c].held = Head(out[c].q),
                          ![c].q = Tail(@),
                          ![c].bytes = LET left == @ - Size(Head(out[c].q))
                                       IN IF left > 0 THEN left ELSE 0]
    /\ UNCHANGED <<now, active, revoked, current, hb, task, open, greeted>>

\* What the client sees of the payload being written.
Seen(c) == IF task[c].dev \in out[c].held.devices
           THEN greeted \cup {c} ELSE greeted

Sent(c) ==
    /\ out[c].writer = "send" /\ ~out[c].cancel
    /\ open[c] = "open"
    /\ out' = [out EXCEPT ![c].writer = "get", ![c].held = Notice]
    /\ greeted' = Seen(c)
    /\ UNCHANGED <<now, active, revoked, current, hb, task, open>>

\* Mutant: the failed writer ends without dropping its socket.
SendFailsQuietly(c) ==
    /\ out[c].writer = "send" /\ ~out[c].cancel
    /\ out' = [out EXCEPT ![c].failed = TRUE, ![c].writer = "ended", ![c].held = Notice]
    /\ UNCHANGED <<now, active, revoked, current, hb, task, open, greeted>>

\* send_json() raised or ran into its timeout: _fail_outbound(), _drop().
SendFails(c) ==
    /\ out[c].writer = "send" /\ ~out[c].cancel
    /\ out' = [out EXCEPT ![c] =
                 IF Registered(c)
                 THEN [StopOutbound(@) EXCEPT !.cancel = FALSE, !.writer = "closing",
                                              !.held = Notice]
                 ELSE [@ EXCEPT !.failed = TRUE, !.writer = "closing", !.held = Notice]]
    /\ current' = Without({c})
    /\ UNCHANGED <<now, active, revoked, hb, task, open, greeted>>

WriterCloses(c) ==
    /\ out[c].writer = "closing"
    /\ open' = [open EXCEPT ![c] = "closed"]
    /\ out' = [out EXCEPT ![c].writer = "ended"]
    /\ UNCHANGED <<now, active, revoked, current, hb, task, greeted>>

\* The task is cancelled; the payload it was writing may have gone out.
WriterCancelled(c) ==
    /\ out[c].cancel
    /\ out[c].writer \in {"get", "send", "closing"}
    /\ out' = [out EXCEPT ![c].writer = "ended", ![c].held = Notice, ![c].failed = TRUE]
    /\ \/ UNCHANGED greeted
       \/ out[c].writer = "send" /\ open[c] = "open" /\ greeted' = Seen(c)
    /\ UNCHANGED <<now, active, revoked, current, hb, task, open>>

-----------------------------------------------------------------------------
(* The handlers that use the manager *)

\* logout_device(): logout_with_sessions() commits, then disconnect_device().
Logout(k) ==
    /\ task[k].pc = "free"
    /\ \E d \in active :
         /\ active' = active \ {d}
         /\ revoked' = revoked \cup {c \in Conns : task[c].dev = d}
         /\ task' = [task EXCEPT ![k].pc = "disconnect", ![k].dev = d]
    /\ UNCHANGED <<now, current, hb, out, open, greeted>>

DisconnectDevice(k) ==
    /\ task[k].pc = "disconnect"
    /\ LET c == current[task[k].dev] IN
       IF c = None THEN Goto(k, "ended") /\ UNCHANGED <<current, out>>
       ELSE Doom(k, <<c>>, "snapshot")
    /\ UNCHANGED <<now, active, revoked, hb, open, greeted>>

\* The device is linked or signs in again.
Login(d) ==
    /\ d \notin active
    /\ active' = active \cup {d}
    /\ UNCHANGED <<now, revoked, current, hb, out, task, open, greeted>>

\* send_to_device() after connection_for() has pruned.
SendTo(k, d) ==
    LET c == current[d] IN
    IF c = None \/ ~Accepting(c)
    THEN Goto(k, "free") /\ UNCHANGED <<current, out>>
    ELSE IF Overflows(c, Notice)
    THEN Doom(k, <<c>>, "free")
    ELSE /\ out' = [out EXCEPT ![c] = Queued(@, Notice)]
         /\ Goto(k, "free")
         /\ UNCHANGED current

SendToDevice(k) ==
    /\ \/ /\ Running(k, "free")
          /\ \E d \in Devices :
               IF Expired = {} THEN current[d] # None /\ SendTo(k, d)
               ELSE \E s \in Orders(Expired) :
                      /\ current' = Without(Range(s))
                      /\ out' = [out EXCEPT ![Head(s)] = StopOutbound(@)]
                      /\ task' = [task EXCEPT ![k] = [NoTask EXCEPT !.pc = "send",
                                                        !.dev = d, !.doomed = s]]
       \/ Running(k, "send") /\ SendTo(k, task[k].dev)
    /\ UNCHANGED <<now, active, revoked, hb, open, greeted>>

Tick ==
    /\ now < MaxTime
    /\ now' = now + 1
    /\ UNCHANGED <<active, revoked, current, hb, out, task, open, greeted>>

-----------------------------------------------------------------------------

PInit ==
    /\ now = 0
    /\ active = Devices
    /\ revoked = {}
    /\ current = [d \in Devices |-> None]
    /\ hb = [c \in Conns |-> 0]
    /\ out = [c \in Conns |-> NoQueue]
    /\ task = [k \in Tasks |-> NoTask]
    /\ open = [c \in Conns |-> "no"]
    /\ greeted = {}

\* A step of a coroutine that is running.
Broadcast(k) == Reap(k) \/ Snapshot(k) \/ ReadDevice(k) \/ Publish(k)

Handle(c) ==
    \/ Lookup(c) \/ Register(c) \/ Heartbeat(c) \/ Beat(c) \/ SessionGone(c)
    \/ ServeEnds(c) \/ RemoveSocket(c)

Writer(c) == Take(c) \/ Sent(c) \/ SendFails(c) \/ WriterCloses(c) \/ WriterCancelled(c)

PNext ==
    \/ \E c \in Conns : Connect(c) \/ Handle(c) \/ Writer(c) \/ ClientLeaves(c)
    \/ \E k \in Tasks : Broadcast(k) \/ BroadcastFails(k)
    \/ \E k \in Logouts : Logout(k) \/ DisconnectDevice(k)
    \/ \E k \in Notifiers : SendToDevice(k)
    \/ \E d \in Devices : Login(d)
    \/ Tick

PSpec == PInit /\ [][PNext]_pvars

\* The event loop runs every ready coroutine; a write ends within its timeout;
\* a client that is not silent sends heartbeats, a silent one times out.
PFairness ==
    /\ \A c \in Conns : WF_pvars(Handle(c) \/ Broadcast(c)) /\ WF_pvars(Writer(c))
    /\ \A k \in Logouts : WF_pvars(DisconnectDevice(k) \/ Broadcast(k))
    /\ \A k \in Notifiers : WF_pvars(Reap(k) \/ (Running(k, "send") /\ SendToDevice(k)))

PFairSpec == PSpec /\ PFairness

-----------------------------------------------------------------------------
(* Properties *)

\* Coroutines about to stop a socket's queue.
Dooming(c) == {k \in Tasks : c \in Range(task[k].doomed)}

\* register, remove, _drop, prune_expired and disconnect_device take a socket
\* out of one table and its queue out of another, with awaits in between, while
\* the writer may be doing the same.  Every registered socket has a queue whose
\* writer runs; every queue left in the table belongs to a registered socket or
\* to one that exactly one coroutine is about to stop.
QueuesMatchSockets ==
    \A c \in Conns :
        /\ Registered(c) => /\ out[c].tabled /\ ~out[c].failed
                            /\ out[c].writer \in {"get", "send"}
        /\ out[c].tabled /\ ~Registered(c) => Cardinality(Dooming(c)) = 1

\* queued_bytes is what the queue holds, and both limits are kept, through
\* writes, overflows and stops.
QueueExact ==
    \A c \in Conns :
        /\ out[c].bytes = Bytes(out[c].q)
        /\ out[c].bytes <= MaxQueueBytes
        /\ Len(out[c].q) <= MaxQueueMessages

\* A socket that is replaced, dropped, pruned or logged out is closed by the
\* coroutine that took it out of the table.  No open socket is forgotten: each
\* is in the table, or a coroutine or its own writer is about to close it.
OpenIsOwned ==
    \A c \in Conns :
        open[c] = "open" /\ ~Registered(c) => Dooming(c) # {} \/ out[c].writer = "closing"

\* The handler of a socket died in its first broadcast: the socket stays in
\* the table until a prune, a message to it, a logout or a new socket.
Orphaned(c) == Registered(c) /\ task[c].pc = "ended"

\* A logout can commit after the handshake has looked the session up and before
\* the socket is registered, so disconnect_device() finds nothing to close.
\* The check made with every heartbeat ends such a socket.
LoggedOutGoes ==
    \A c \in Conns :
        (Registered(c) /\ c \in revoked) ~> (~Registered(c) \/ Orphaned(c))

\* Every socket is told about its own device: its first broadcast is made after
\* it is registered, and whatever broadcasts, overflows and prunes run at the
\* same time, the list is written to it unless it is closed or logged out.
Greeted ==
    \A c \in Conns :
        (Registered(c) /\ task[c].pc = "snapshot") ~>
            (c \in greeted \/ ~Registered(c) \/ task[c].dev \notin active \/ Orphaned(c))

=============================================================================
