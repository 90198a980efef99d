-------------------------- MODULE TransferControl --------------------------
(***************************************************************************)
(* The control plane of one account's transfers: the rows of               *)
(* private.transfer_requests, and the HTTP handlers of TransferService     *)
(* that read and change them.  A handler is a coroutine: it gives up the   *)
(* event loop at every await, so each database statement and each          *)
(* notification is a step of its own and handlers interleave between them. *)
(*                                                                         *)
(* One account is modelled: every query and every counter is keyed by the  *)
(* account, and only the capacity lock, which serializes more than it      *)
(* needs to, is shared between accounts.                                   *)
(***************************************************************************)
EXTENDS Integers, FiniteSets, Sequences

CONSTANTS
    Devices,             \* the account's registered devices
    Transfers,           \* transfer identifiers the run may hand out
    Requests,            \* handlers that may be in flight at once
    Operations,          \* the operations clients ask for in this run
    Listeners,           \* devices that may have a socket to be notified on
    Leavers,             \* devices that may log out in this run
    DbFails,             \* whether queries may time out in this run
    MaxActivePerAccount, \* MAX_ACTIVE_TRANSFERS_PER_ACCOUNT
    MaxActivePerDevice,  \* MAX_ACTIVE_TRANSFERS_PER_DEVICE
    Lifetime,            \* TRANSFER_REQUEST_LIFETIME, in clock units
    DbLead,              \* how far the database clock is ahead of the server's
    MaxTime,             \* bound: the server clock stops here
    None                 \* no device, no transfer, no lock holder

Ops == {"create", "accept", "reject", "cancel", "expire", "get", "list"}

ASSUME LimitsAssumption ==
    /\ MaxActivePerAccount \in Nat \ {0}
    /\ MaxActivePerDevice \in Nat \ {0}

ASSUME ClockAssumption ==
    /\ Lifetime \in Nat \ {0}
    /\ DbLead \in Int
    /\ MaxTime \in Nat

ASSUME ScenarioAssumption ==
    /\ Operations \subseteq Ops
    /\ Listeners \subseteq Devices
    /\ Leavers \subseteq Devices
    /\ DbFails \in BOOLEAN

ASSUME FiniteAssumption == IsFiniteSet(Transfers)

ASSUME NoneAssumption ==
    /\ None \notin Devices
    /\ None \notin Transfers
    /\ None \notin Requests

VARIABLES
    now,       \* the server's clock
    active,    \* devices whose row is 'active' and of the account's epoch
    transfer,  \* the rows of private.transfer_requests
    req,       \* the handlers in flight
    lock,      \* the holder of TransferService._capacity_lock
    sent       \* per transfer, the statuses told to each device's socket, in order

vars == <<now, active, transfer, req, lock, sent>>

-----------------------------------------------------------------------------
(* Rows *)

ActiveStatuses ==
    {"offered", "accepted", "negotiating", "connected", "transferring"}

TerminalStatuses == {"completed", "rejected", "expired", "cancelled", "failed"}

\* "none" stands for a row that has not been inserted.
Statuses == ActiveStatuses \cup TerminalStatuses \cup {"none"}

Rows == [status: Statuses,
         sender: Devices \cup {None},
         recipient: Devices \cup {None},
         expires_at: Nat,
         accepted_at: BOOLEAN]

NoRow == [status |-> "none", sender |-> None, recipient |-> None,
          expires_at |-> 0, accepted_at |-> FALSE]

DbNow == now + DbLead

Participants(t) == {transfer[t].sender, transfer[t].recipient}

\* The rows that count against the limits when the clock reads `at`.
LiveAt(at) ==
    {t \in Transfers : /\ transfer[t].status \in ActiveStatuses
                       /\ transfer[t].expires_at > at}

LiveOf(d, at) == {t \in LiveAt(at) : d \in Participants(t)}

-----------------------------------------------------------------------------
(* Handlers *)

PCs == {"idle", "validate", "capacity", "insert", "read", "reread", "write",
        "expire", "release", "tell sender", "tell recipient", "list", "each"}

Handlers == [pc: PCs,
             op: Ops,
             t: Transfers \cup {None},
             dev: Devices \cup {None},
             peer: Devices \cup {None},
             at: Nat,
             todo: SUBSET Transfers,
             wrote: Statuses]

NoHandler == [pc |-> "idle", op |-> "get", t |-> None, dev |-> None,
              peer |-> None, at |-> 0, todo |-> {}, wrote |-> "none"]

Start(r, pc, op, t, dev, peer) ==
    req' = [req EXCEPT ![r] = [pc |-> pc, op |-> op, t |-> t, dev |-> dev,
                               peer |-> peer, at |-> 0, todo |-> {}, wrote |-> "none"]]

Goto(r, pc) == req' = [req EXCEPT ![r].pc = pc]

\* The statement took: the handler goes on to announce what it wrote.
Announce(r, pc, status) == req' = [req EXCEPT ![r].pc = pc, ![r].wrote = status]

Return(r) == req' = [req EXCEPT ![r] = NoHandler]

TakeUp(r, t, pc) ==
    req' = [req EXCEPT ![r].todo = req[r].todo \ {t}, ![r].t = t, ![r].pc = pc]

\* Where a handler goes after its notifications: list() takes up the next
\* record, every other handler returns (after an expiry on the way, with the
\* "unavailable" error or the expired record).
Resume(r) == IF req[r].op = "list" THEN Goto(r, "each") ELSE Return(r)

-----------------------------------------------------------------------------
(* Statements: what each repository call does to the rows *)

\* The INSERT ... SELECT of create(): both devices active, and the row's
\* check constraint expires_at > created_at.
InsertTakes(r) ==
    /\ {req[r].dev, req[r].peer} \subseteq active
    /\ req[r].at + Lifetime > DbNow

Inserted(r) ==
    [transfer EXCEPT ![req[r].t] =
        [status |-> "offered",
         sender |-> req[r].dev,
         recipient |-> req[r].peer,
         expires_at |-> req[r].at + Lifetime,
         accepted_at |-> FALSE]]

\* Mutant: the operation's name is written for the status.
TargetOfVerb(op) == op

\* The status an operation writes and the statuses it may write it over.
TargetOf(op) == CASE op = "accept" -> "accepted"
                  [] op = "reject" -> "rejected"
                  [] op = "cancel" -> "cancelled"
                  [] OTHER -> "expired"

SourcesOf(op) == IF op \in {"accept", "reject"} THEN {"offered"} ELSE ActiveStatuses

ActorMay(op, d, t) ==
    /\ d \in active
    /\ d \in (IF op = "cancel" THEN Participants(t) ELSE {transfer[t].recipient})

\* Mutant: the UPDATE does not compare the status it read.
UpdateTakesAny(r) ==
    /\ transfer[req[r].t].expires_at > DbNow
    /\ ActorMay(req[r].op, req[r].dev, req[r].t)

\* The UPDATE of _transition() for a participant's operation.
UpdateTakes(r) ==
    /\ transfer[req[r].t].status \in SourcesOf(req[r].op)
    /\ transfer[req[r].t].expires_at > DbNow
    /\ ActorMay(req[r].op, req[r].dev, req[r].t)

\* Mutant: an outcome can be overwritten by the expiry.
ExpireTakesAgain(t) ==
    /\ transfer[t].status # "none"
    /\ transfer[t].expires_at <= DbNow

\* The UPDATE of expire(): no actor, and only a row past its deadline.
ExpireTakes(t) ==
    /\ transfer[t].status \in ActiveStatuses
    /\ transfer[t].expires_at <= DbNow

\* Mutant: cancelling leaves accepted_at as it was.
UpdatedAcceptOnly(t, status) ==
    [transfer EXCEPT ![t].status = status,
                     ![t].accepted_at = @ \/ status = "accepted"]

\* Both UPDATEs set the status; accepting and cancelling also fill accepted_at.
Updated(t, status) ==
    [transfer EXCEPT ![t].status = status,
                     ![t].accepted_at = @ \/ status \in {"accepted", "cancelled"}]

-----------------------------------------------------------------------------
(* Steps of the handlers *)

\* A request of a logged-in device arrives.  The identifier of a new offer is
\* a fresh random one; every other operation may name any transfer.
ArriveCreate(r) ==
    /\ req[r].pc = "idle"
    /\ "create" \in Operations
    /\ \E d \in active, e \in Devices, t \in Transfers :
            /\ d # e
            /\ transfer[t].status = "none"
            /\ \A q \in Requests : req[q].op = "create" => req[q].t # t
            /\ Start(r, "validate", "create", t, d, e)
    /\ UNCHANGED <<now, active, transfer, lock, sent>>

ArriveUpdate(r) ==
    /\ req[r].pc = "idle"
    /\ \E op \in Operations \cap {"accept", "reject", "cancel"} :
         \E d \in active, t \in Transfers : Start(r, "read", op, t, d, None)
    /\ UNCHANGED <<now, active, transfer, lock, sent>>

\* These do not look at which of the account's devices asks.
ArriveLook(r) ==
    /\ req[r].pc = "idle"
    /\ active # {}
    /\ \E op \in Operations \cap {"expire", "get"}, t \in Transfers :
         Start(r, IF op = "expire" THEN "expire" ELSE "read", op, t, None, None)
    /\ UNCHANGED <<now, active, transfer, lock, sent>>

ArriveList(r) ==
    /\ req[r].pc = "idle"
    /\ active # {}
    /\ "list" \in Operations
    /\ Start(r, "list", "list", None, None, None)
    /\ UNCHANGED <<now, active, transfer, lock, sent>>

Arrive(r) == ArriveCreate(r) \/ ArriveUpdate(r) \/ ArriveLook(r) \/ ArriveList(r)

\* create_offer: _validate_devices(), then the clock is read, before the lock.
\* The two device lookups are one step: they only refuse early what the insert
\* checks again.
Validate(r) ==
    /\ req[r].pc = "validate"
    /\ IF {req[r].dev, req[r].peer} \subseteq active
       THEN req' = [req EXCEPT ![r].pc = "capacity", ![r].at = now]
       ELSE Return(r)
    /\ UNCHANGED <<now, active, transfer, lock, sent>>

Full(r) ==
    \/ Cardinality(LiveAt(req[r].at)) >= MaxActivePerAccount
    \/ \E d \in {req[r].dev, req[r].peer} :
          Cardinality(LiveOf(d, req[r].at)) >= MaxActivePerDevice

\* Mutant: the check is made without taking the lock.
EnsureCapacityUnlocked(r) ==
    /\ req[r].pc = "capacity"
    /\ IF Full(r) THEN Return(r) ELSE Goto(r, "insert")
    /\ UNCHANGED <<now, active, transfer, lock, sent>>

\* Acquire the lock and run _ensure_capacity(); a refusal releases it.
EnsureCapacity(r) ==
    /\ req[r].pc = "capacity"
    /\ lock = None
    /\ IF Full(r)
       THEN Return(r) /\ UNCHANGED lock
       ELSE Goto(r, "insert") /\ lock' = r
    /\ UNCHANGED <<now, active, transfer, sent>>

\* Mutant: a refused insert leaves without releasing the lock.
InsertKeepsLock(r) ==
    /\ req[r].pc = "insert"
    /\ IF InsertTakes(r)
       THEN /\ transfer' = Inserted(r)
            /\ Announce(r, "tell recipient", "offered")
            /\ lock' = None
       ELSE Return(r) /\ UNCHANGED <<transfer, lock>>
    /\ UNCHANGED <<now, active, sent>>

Insert(r) ==
    /\ req[r].pc = "insert"
    /\ IF InsertTakes(r)
       THEN /\ transfer' = Inserted(r)
            /\ Announce(r, "tell recipient", "offered")
       ELSE Return(r) /\ UNCHANGED transfer
    /\ lock' = None
    /\ UNCHANGED <<now, active, sent>>

\* What a handler does with the record it was given.
UseRecord(r) ==
    LET h == req[r] IN
    IF h.op # "get" /\ transfer[h.t].status \in SourcesOf(h.op)
    THEN Goto(r, "write")
    ELSE Return(r)

\* _current_or_expire(): a record found past its deadline is expired first.
Read(r) ==
    /\ req[r].pc = "read"
    /\ LET row == transfer[req[r].t] IN
       IF row.status \in ActiveStatuses /\ row.expires_at <= now
       THEN Goto(r, "expire")
       ELSE UseRecord(r)
    /\ UNCHANGED <<now, active, transfer, lock, sent>>

\* ... and read again when expire() raised because another handler or the
\* database clock got in the way.
Reread(r) ==
    /\ req[r].pc = "reread"
    /\ UseRecord(r)
    /\ UNCHANGED <<now, active, transfer, lock, sent>>

Expire(r) ==
    /\ req[r].pc = "expire"
    /\ LET t == req[r].t IN
       IF ExpireTakes(t)
       THEN /\ transfer' = Updated(t, "expired")
            /\ Announce(r, "release", "expired")
       ELSE /\ CASE req[r].op = "list" -> Goto(r, "each")
                 [] req[r].op = "expire" -> Return(r)
                 [] OTHER -> Goto(r, "reread")
            /\ UNCHANGED transfer
    /\ UNCHANGED <<now, active, lock, sent>>

\* repository.accept / reject / cancel.  An acceptance keeps its signaling
\* budget; the other two outcomes are terminal and release it.
Write(r) ==
    /\ req[r].pc = "write"
    /\ LET status == TargetOf(req[r].op) IN
       IF UpdateTakes(r)
       THEN /\ transfer' = Updated(req[r].t, status)
            /\ Announce(r, IF status = "accepted" THEN "tell sender" ELSE "release", status)
       ELSE Return(r) /\ UNCHANGED transfer
    /\ UNCHANGED <<now, active, lock, sent>>

\* _release(): the budgets themselves are the Signaling module's.
Release(r) ==
    /\ req[r].pc = "release"
    /\ Goto(r, "tell sender")
    /\ UNCHANGED <<now, active, transfer, lock, sent>>

\* send_to_device(): the message is queued on the device's socket, or dropped
\* when the device is offline or its queue is full.
Notify(r, d) ==
    \/ /\ d \in Listeners
       /\ sent' = [sent EXCEPT ![req[r].t][d] = Append(@, req[r].wrote)]
    \/ UNCHANGED sent

TellSender(r) ==
    /\ req[r].pc = "tell sender"
    /\ Notify(r, transfer[req[r].t].sender)
    /\ IF req[r].wrote \in {"cancelled", "expired"}
       THEN Goto(r, "tell recipient")
       ELSE Resume(r)
    /\ UNCHANGED <<now, active, transfer, lock>>

TellRecipient(r) ==
    /\ req[r].pc = "tell recipient"
    /\ Notify(r, transfer[req[r].t].recipient)
    /\ Resume(r)
    /\ UNCHANGED <<now, active, transfer, lock>>

\* list(): one query, then every record that was active in its result.
ListAll(r) ==
    /\ req[r].pc = "list"
    /\ req' = [req EXCEPT ![r].pc = "each",
                          ![r].todo = {t \in Transfers :
                                          transfer[t].status \in ActiveStatuses}]
    /\ UNCHANGED <<now, active, transfer, lock, sent>>

ListEach(r) ==
    /\ req[r].pc = "each"
    /\ \/ req[r].todo = {} /\ Return(r)
       \/ \E t \in req[r].todo :
             TakeUp(r, t, IF transfer[t].expires_at <= now THEN "expire" ELSE "each")
    /\ UNCHANGED <<now, active, transfer, lock, sent>>

\* A query runs into DATABASE_OPERATION_TIMEOUT_SECONDS: the handler raises
\* BackendUnavailableError.  The server may have committed the statement.
DbTimeout(r) ==
    /\ DbFails
    /\ req[r].pc \in {"validate", "capacity", "insert", "read", "reread", "write",
                      "expire", "list"}
    /\ req[r].pc = "capacity" => lock = None
    /\ \/ UNCHANGED transfer
       \/ req[r].pc = "insert" /\ InsertTakes(r) /\ transfer' = Inserted(r)
       \/ req[r].pc = "write" /\ UpdateTakes(r)
             /\ transfer' = Updated(req[r].t, TargetOf(req[r].op))
       \/ req[r].pc = "expire" /\ ExpireTakes(req[r].t)
             /\ transfer' = Updated(req[r].t, "expired")
    /\ Return(r)
    /\ lock' = IF lock = r THEN None ELSE lock
    /\ UNCHANGED <<now, active, sent>>

-----------------------------------------------------------------------------
(* The rest of the server *)

\* repository.mark_negotiating(), called when the sender's offer is forwarded.
MarkNegotiating(t) ==
    /\ transfer[t].status = "accepted"
    /\ transfer[t].expires_at > DbNow
    /\ transfer' = Updated(t, "negotiating")
    /\ UNCHANGED <<now, active, req, lock, sent>>

\* logout_with_sessions() makes a device inactive, register_for_email() and
\* consume_and_register() make it active again.
Deactivate(d) ==
    /\ d \in active \cap Leavers
    /\ active' = active \ {d}
    /\ UNCHANGED <<now, transfer, req, lock, sent>>

Activate(d) ==
    /\ d \notin active
    /\ active' = active \cup {d}
    /\ UNCHANGED <<now, transfer, req, lock, sent>>

\* The only server process stops and starts again: its coroutines are gone.
Restart ==
    /\ req' = [r \in Requests |-> NoHandler]
    /\ lock' = None
    /\ UNCHANGED <<now, active, transfer, sent>>

Tick ==
    /\ now < MaxTime
    /\ now' = now + 1
    /\ UNCHANGED <<active, transfer, req, lock, sent>>

-----------------------------------------------------------------------------

Init ==
    /\ now = 0
    /\ active = Devices
    /\ transfer = [t \in Transfers |-> NoRow]
    /\ req = [r \in Requests |-> NoHandler]
    /\ lock = None
    /\ sent = [t \in Transfers |-> [d \in Devices |-> <<>>]]

\* A step of a handler that is already running.
Step(r) ==
    \/ Validate(r) \/ EnsureCapacity(r) \/ Insert(r)
    \/ Read(r) \/ Reread(r) \/ Expire(r) \/ Write(r) \/ Release(r)
    \/ TellSender(r) \/ TellRecipient(r)
    \/ ListAll(r) \/ ListEach(r)

Next ==
    \/ \E r \in Requests : Arrive(r) \/ Step(r) \/ DbTimeout(r)
    \/ \E t \in Transfers : MarkNegotiating(t)
    \/ \E d \in Devices : Deactivate(d) \/ Activate(d)
    \/ Restart
    \/ Tick

Spec == Init /\ [][Next]_vars

\* The event loop runs every ready coroutine, and asyncio.Lock wakes its
\* waiters in the order they came.
Fairness ==
    \A r \in Requests : WF_vars(Step(r)) /\ SF_vars(EnsureCapacity(r))

FairSpec == Spec /\ Fairness

-----------------------------------------------------------------------------
(* Properties *)

\* The rows, the handlers and the notices keep the shape the schema and the
\* handlers' locals give them.
TypeOK ==
    /\ now \in Nat
    /\ active \subseteq Devices
    /\ transfer \in [Transfers -> Rows]
    /\ req \in [Requests -> Handlers]
    /\ lock \in Requests \cup {None}
    /\ sent \in [Transfers -> [Devices -> Seq(Statuses)]]

\* _ensure_capacity: whatever offers, acceptances, expiries and timeouts
\* interleave, and although a handler decides on a clock reading it took
\* before it waited for the lock, the account never has more live transfers
\* than MAX_ACTIVE_TRANSFERS_PER_ACCOUNT and no device takes part in more than
\* MAX_ACTIVE_TRANSFERS_PER_DEVICE.
CapacityBound ==
    /\ Cardinality(LiveAt(now)) <= MaxActivePerAccount
    /\ \A d \in Devices : Cardinality(LiveOf(d, now)) <= MaxActivePerDevice

\* The handlers that race to end a transfer (reject, cancel, and every reader
\* that finds it past its deadline) tell a device of at most one outcome, the
\* one the row records, and tell it of no status twice.
NoticeOnce ==
    \A t \in Transfers, d \in Devices :
      LET told == sent[t][d] IN
        /\ \A i, j \in DOMAIN told : i # j => told[i] # told[j]
        /\ \A i \in DOMAIN told :
             told[i] \in TerminalStatuses => told[i] = transfer[t].status

Lifecycle ==
    INSTANCE TransferLifecycle
        WITH status <- [t \in Transfers |-> transfer[t].status], told <- sent

\* The handlers, their timeouts and the restarts together implement the
\* lifecycle: no interleaving of a check made on one read with an update made
\* later moves a status outside _VALID_TRANSITIONS, or reopens an outcome.
LifecycleSpec == Lifecycle!Spec

\* The row constraint transfer_requests_acceptance_status_check: every update
\* the repository sends leaves accepted_at set where the schema demands it, so
\* no cancellation or acceptance is refused by the database.
AcceptanceRecorded ==
    \A t \in Transfers :
        transfer[t].status \in {"none", "offered", "rejected", "expired"}
            \/ transfer[t].accepted_at

\* Every handler returns: none waits for ever on the capacity lock, whoever
\* was refused, timed out or restarted while holding it.
HandlersReturn ==
    \A r \in Requests : req[r].pc # "idle" ~> req[r].pc = "idle"

=============================================================================
