# SelfRelay verification project

SelfRelay sends files between a person's own devices. A FastAPI server keeps
accounts, devices, sessions and transfer rows in PostgreSQL and forwards
signaling messages between WebSockets. The browsers shake hands through it, open
a WebRTC data channel and exchange encrypted frames. This directory models the
parts of the system whose correctness depends on the order in which things
happen: coroutines that interleave at every `await`, statements that race at
READ COMMITTED, answers that are lost, restarts, and two browsers that each see
only half of a transfer.

Paths below are relative to `src/`. `PROJECT.json` maps every definition to its
source lines and lists the components, runs, hazards and theorems.

## The system and its modules

```
 browser page (sender)                                  browser page (recipient)
  TransferPage ------------ signaling ------------------- TransferPage
  FileTransfer ============ data channel ================ FileTransfer
       |                                                      |
       |  HTTP, WebSocket                                     |
       v                                                      v
  +------------------------------ FastAPI --------------------------------+
  | SignIn -> Access -> Sessions     (who may ask)                        |
  | Presence                         (who is connected)                   |
  | TransferControl <- Signaling     (what is offered; what is forwarded) |
  | TurnCredentials                  (the relay)                          |
  | RateLimits                       (charged by SignIn, TurnCredentials) |
  +-----------------------------------------------------------------------+
```

| Module | Code | State |
| --- | --- | --- |
| `TransferControl` | `transfers.py`, `repositories/transfers.py` | rows of `transfer_requests`, the handlers in flight and their locals, the capacity lock, notices sent, active devices, the clock |
| `TransferLifecycle` | the promise of the above: `_VALID_TRANSITIONS` and one notice per status | status and notices of each transfer |
| `Signaling` (extends `TransferControl`) | `PresenceManager.forward_signaling` and its budgets in `presence.py` | charged budgets per transfer and account, the coroutine of each socket, what was forwarded |
| `Presence` | `PresenceManager`'s tables, queues and broadcasts, the socket route | `_connections`, `_outbound`, heartbeats, writer tasks, open sockets, tasks of logouts and notifiers |
| `Access` | `device_auth.py`, repositories of devices, challenges, linking codes and sessions | those tables with the row locks that matter, the two in-memory stores, requests |
| `Sessions` | `sessions.py`, `session_api.py`, the session, ticket and clean-up repositories | one device, `app_sessions`, `websocket_tickets`, requests, and what was handed out |
| `SignIn` | `auth.py`, `repositories/accounts.py`, the Supabase gateway of `adapters.py` | `app_users`, requests, what the limiter admitted and what the provider was asked; the provider's directory and codes are external |
| `TurnCredentials` | `turn.py`, the Cloudflare provider of `adapters.py` | one transfer, enrolled devices, requests, the clock |
| `RateLimits` | `rate_limits.py`, `repositories/rate_limits.py` | committed rows, row locks, the transaction of each request |
| `FileTransfer` | `frontend/src/fileTransfer.ts` | two engines, their five coroutines, the ordered channel and the bytes in its buffers |
| `TransferPage` | `TransferConsole.tsx`, `webrtcTestSession.ts` | page, session and pending awaits of each side, messages on the way |

**Steps.** On the server and in the browser a coroutine runs without interruption
from one `await` to the next, so that piece of code is one action; it includes
every assignment, callback and early return on the way. `PresenceManager`'s own
lock is never held across an `await` and needs no variable; the capacity lock of
`TransferService` is, and has one. A SQL statement is one step. A transaction is
one step per statement where another transaction can get in between
(`RateLimits`, `Access`, rotation and clean-up in `Sessions`), with the row
locks PostgreSQL would take, and one step otherwise.

**Faults.** With `DbFails` a statement may time out, and it may or may not have
taken effect (`database.py:94` cannot tell). A restart drops handlers, locks,
budgets and in-memory stores and keeps the rows (`TransferControl`, `Signaling`,
`Access`). Clients leave, connections drop, frames fail to authenticate, reading
the file fails, pages are reloaded or left and come back, another transfer has the
device's one inbound slot. Deadlines pass between any two steps.

**How the parts meet.** `Signaling` and `TransferControl` share variables and are
composed in one specification; `ControlSpec` says that sockets and handlers
together take no step that the control plane alone could not take. The others
meet at an interface that one of them leaves open: `Access` and `Sessions` let
any authenticated request come in at any time; `Presence` lets any socket come
and go; `TransferPage` lets the server forward what `Signaling` allows (single
use, in order per sender); `FileTransfer` starts where `TransferPage` ends, with
an engine created synchronously as its channel opens.

### Choices made in each module

* `TransferControl`: one account. Every query and counter is keyed by the
  account; the lock serializes more than one account needs. The database clock
  may differ from the server's by `DbLead`, and a handler's clock reading may be
  old by the time it gets the lock.
* `Signaling`: the only relation between constants it relies on is
  `Retention > Lifetime`, as the code's constants have it. The sums in
  `BudgetExact` are cardinalities (one element per message charged): the prover
  has theorems about those and none about folds.
* `Presence`: the first broadcast of the route is outside the `try/finally` that
  removes the socket, so a timeout there leaves a registered socket without a
  handler; the model has it. Removal by a failed write, by pruning or by a missed
  heartbeat causes no broadcast, as in the code. Message sizes are 1 for presence
  and `NoticeBytes` for the rest; the size of a queue is counted the same way as
  the budgets, by cardinalities.
* `RateLimits`: `FOR UPDATE` neither locks nor sees a row that does not exist;
  such rows are created in a second pass. The clean-up deletes one expired row at
  a time; its batch limit only says when it pauses.
* `TurnCredentials`: one transfer. The verdict of the four buckets is open: any
  request that reaches the limiter may be admitted or refused. Lifetimes of issued
  credentials are not modelled.
* `SignIn`: a code is "an unused code for this address". A correct code may be
  brought by any request. The limiter's verdict on the two buckets (address and
  network) is open, and `admitted` counts what it let through per address key;
  `MaxGrants` bounds the search.
* `Access`: one account. Its epoch never changes in the code and the status
  `revoked` is set by no route, so both are left out, and so is the
  `attempt_count` of a login, which nothing compares. Wherever a deadline is
  tested, it may have passed. An `INSERT ... SELECT` judges the rows it selects
  when it starts, which is how a session can be inserted for a device that is
  being logged out; the field `raced` marks those. A third browser lets two of
  them redeem the code of the first.
* `Sessions`: one device, logged out by itself or by another one and enrolled
  again. A statement that makes a session, a CSRF secret or a ticket is two steps:
  it reads device and session in its snapshot, without locking them, and writes
  later. A row keeps only what is read again. `rotate()` is modelled although no
  route calls it. `cleanup_expired()` is called by nothing in the application; it
  may run at any time.
* `FileTransfer`: chunks are numbers, a digest or signature matches exactly when
  what it covers is the same. The buffer counts bytes: a full chunk has `MaxFrame`
  of them, any other frame `Control`. A frame leaves the buffer when it is
  delivered; what the network holds in between is not a state of its own. A frame
  on the network is then still counted, so that the watermarks bind earlier than in
  the browser; the theorems are for every pair of watermarks.
* `TransferPage`: the three look-ups before a session is created are one await;
  nothing happens between them that the check afterwards would not see. A page can
  be reloaded, and it can be unmounted and mounted again: a creation that was
  awaiting its look-ups then goes on without a page (`ghosts`) and leaves a peer
  connection nobody holds. `strays` records, of each open connection the page let
  go, the state its session was in. The inbound slot can be taken by the engine of
  another transfer (`SlotTaken`); the constructor then throws `inbound_busy`.
  `addIceCandidate` may reject: of a single candidate, or in the middle of a flush,
  which loses the rest of it (`lost`).

## Runs

Each `MC*.tla` gives the constants of one specification; the bounds are the
`Max*` constants and the sizes of the sets. Run one with
`tlc -config MCX.cfg MCX`.

| Run | Properties | Instance |
| --- | --- | --- |
| `races` | `TypeOK`, `NoticeOnce`, `AcceptanceRecorded`, `LifecycleSpec` | 2 devices, 1 transfer, 2 handlers, all seven operations, logouts, timeouts, restarts, database clock one unit behind, lifetime 1, time 0..2 |
| `capacity` | `CapacityBound`, `HandlersReturn` | 3 devices, 3 transfers, 2 handlers, offers only, limits 2 and 2, expiry, timeouts |
| `single_use` | `SingleUseWhileLive`, `ControlSpec` | 1 transfer, 1 handler, 2 sockets, offers, lifetime 2, retention 3, time 0..3, timeouts, logouts |
| `budgets` | `BudgetExact` | 2 transfers, 1 handler, 1 socket, candidates, limits 2, 2 and 3, 1 restart |
| `engine_safe` | `NonceOnce`, `ReceiptMeansDelivered`, `Backpressure` | 2 chunks of 2 bytes and other frames of 1, watermarks 3 and 0, every fault |
| `engine_live` | `Delivers`, `SendFileSettles` | the same sizes; either side cancels, the recipient leaves, the connection drops |
| `presence_safe` | `QueuesMatchSockets`, `QueueExact`, `OpenIsOwned` | 2 devices, 2 sockets, 1 notifier, queue of 2 messages and 3 bytes, one heartbeat timeout |
| `presence_live` | `LoggedOutGoes`, `Greeted` | 1 device, 2 sockets, 1 logout, timeouts |
| `rate_limits` | `GrantsBounded`, `AllOrNothing`, `RequestsFinish`; `IssuedToEntitled`, `ParserIsExact`; `GuessesPerMailbox`, `CollisionIsTwin` | limiter: 3 requests, 2 e-mail buckets and a shared network bucket; TURN: 3 devices, 2 requests, every answer of up to 2 servers; sign-in: 2 addresses in 4 spellings, 2 users, 2 requests, 2 admissions per key and kind, 1 change of the directory |
| `access` | `CodeLinksOnce`, `ProofUsedOnce`, `LogoutEndsSessions` | 3 browsers, 2 requests, 3 sessions, 1 login challenge, 2 registration challenges, 1 e-mail proof, 1 code with 2 attempts, timeouts, restarts |
| `page` | `OneSession`, `GoneAfterCleanup`, `CandidatesKept`, `EngineListens`, `BothConnect` | 2 and 1 candidates, queues of 1, one fault, reload, unmounting, taken slot, expiry or change of mind anywhere |
| `sessions` | `TicketOnce`, `RotationLine`, `NothingAfterLogout`, `OverStaysOver`, `CleanupSpares` | 2 session rows, 1 ticket, 2 requests, idle 2, absolute 3, time 0..3, batch of 1, 1 CSRF secret, logouts and enrolments at any time |

`rate_limits` holds three specifications that share no variable. Interleaving
them would multiply states and add no behaviour, so a behaviour exercises one of
them and leaves the others in their initial states.

### What they show

* **Transfers.** However accept, reject, cancel, expiry and logouts race between
  reading and writing a row, the row moves only along `_VALID_TRANSITIONS`; no
  device hears a status twice or an outcome other than the recorded one; the
  acceptance constraint of the schema holds. Concurrent offers never exceed the
  limits, although the count uses a clock reading taken before the lock, and no
  refused or timed-out handler keeps the lock.
* **Signaling.** While a transfer is live, one message of each single-use kind is
  forwarded per device, around cancels, expiry and pruning; the total of the
  account is the sum of what its transfers hold.
* **Presence.** Tables of sockets and queues agree, byte and message counts are
  exact, and an open socket is always owned by the table or by a task that will
  close it. A socket that slips past a logout ends at its next heartbeat or
  earlier, and a socket that stays is sent a list with its own device; both except
  for the socket without a handler described above.
* **Limits.** A window admits at most its limit, and once more the limit for every
  request that raced another to create the row and set the count back (`restarts`
  counts those); without such a race the limit is exact. A
  refused request charges nothing. Locks are taken in two passes and can
  deadlock; PostgreSQL's detector ends one side and every request is answered.
  The provider is asked about a mailbox no more often than the limiter admitted a
  request against the bucket of that mailbox, however it is spelled; how many that
  are is the limiter's bound above. TURN credentials go to requests that were entitled when they came in
  and the answer's parser accepts exactly the well-formed ones. If an account
  INSERT fails on a unique key while the directory stands still, the account it
  wanted exists.
* **Access and sessions.** A linking code enrols at most one device, and is
  consumed exactly when it has; a challenge makes at most one session and an e-mail
  proof at most one challenge. After a logout an unrevoked session of the device can
  only be one whose insertion was under way during the logout. While the device is
  logged out it is of no use: no request passes its last check any more, and a
  session, CSRF secret, ticket or socket is obtained only by a request that had
  passed it before the logout, one thing each. If the device is enrolled again, such
  a session works again. A ticket opens one socket, even if the answer was lost.
  Rotation makes a line, never a tree, under one absolute deadline. A session that
  was revoked or ran out stays over, also across a new enrolment, and the clean-up
  takes only what is finished.
* **Engines.** No counter, hence no nonce, is used twice by one engine although
  five coroutines draw them and wait in between. A receipt means that the
  recipient was shown the whole file and holds it until its own page disposes of
  the engine: a recipient who cancels while the receipt is being encrypted sends the
  receipt and then loses the file. The buffer stays less than one frame over its
  high watermark (as long as the watermarks are more than a frame apart: a
  cancellation may be woken together with one other sender; in the code they are
  768 KiB apart and a frame carries at most 64 KiB). Unless a page gives up or
  the channel goes, an accepted file is delivered; otherwise `sendFile()` settles,
  with the one exception named below.
* **Pages.** A page never replaces a session it holds. It loses sight of an open
  peer connection in two ways only: the other end closed the channel first, so that
  `close()` takes the session for closed and leaves the `RTCPeerConnection` alone,
  or the connection was made after the page went away. Nothing is left after a
  clean-up that overtook an await. Every candidate a session took waits, is being
  flushed by a handler that is still running, or is added; only a flush that broke
  off loses any, and then something had gone wrong. On a page that was not reloaded
  the engine listens as soon as the channel is open, or the slot was taken and the
  page shows the failure. If nothing goes wrong both ends connect.

### Why the bounds are enough

The races in this code are between two actors over one row, so every instance has
at least two of each that can race, and three where the third matters: a third
transfer for a limit of two, a third request for two that create a row and one
that finds it. Limits are 1 or 2, so they are reached and passed. Clocks run long
enough for each deadline to pass before, between and after the other steps.
Queues of one or two fill up and drain. A counter that only bounds the search
(`MaxTime`, `MaxRestarts`, `MaxEvents`, `MaxTroubles`, `MaxSecrets`, `MaxAsks`,
`MaxClock`, `MaxGrants`) is tested only in guards. `single_use` has no restart because a
restart forgets what was forwarded; `budgets` has one. Symmetry is used for
interchangeable devices, transfers, handlers, sockets and rows, in runs that
check invariants, action properties and refinements, never with a liveness
property.

`CHECK_DEADLOCK` is off where a behaviour may end: all requests answered, all
identifiers used, the clock at its bound. `sessions` has it on.

### Fairness

* `TransferControl`: weak fairness of every handler's steps (the event loop runs a
  ready coroutine), strong fairness of taking the capacity lock: `asyncio.Lock`
  serves waiters in order, so a waiter is not passed over for ever.
* `FileTransfer`: weak fairness of every step of a coroutine, of delivery on an
  open channel, and of one end closing once the other is not open. The buffer
  drains because frames are delivered.
* `Presence`: weak fairness of handlers, writers, logouts and notifiers. A
  handler's steps include the next message of its browser, which
  `presenceClient.ts` sends on a timer; a silent one runs into the timeout of the
  receive loop, which ends the handler too.
* `RateLimits`: weak fairness of each request's statements and of the deadlock
  detector, which PostgreSQL runs for every waiting transaction.
* `TransferPage`: weak fairness of the handshake's steps and of each page's
  reactions; delivery by the server is among them.

Users, faults and restarts get no fairness. Nor does the clock: no liveness
property depends on a deadline that passes.

## Proofs

`tlapm M.tla` checks a module. The theorems hold for every value of the constants
that satisfies the named assumptions of the component's module: non-zero limits,
finite `Transfers`, `Attempts` and `Devices`, `None` outside the sets, disjoint
kinds of challenges and of coroutines, requests with at least one bucket,
`Retention > Lifetime`, `Low < High`, frames of at least one byte, answers of the TURN provider that are
sequences. These say no more than the code's constants
and column types do. `BackpressureTheorem` has one hypothesis of its own,
`Low + MaxFrame < High`. Every safety property that a run checks is proved.

| Module | Proves about |
| --- | --- |
| `TransferControlProofs` | `TransferControl`: types and handler locals, limits, notices, refinement of `TransferLifecycle` |
| `SignalingProofs` (extends `TransferControlProofs`) | `Signaling`, and that the composition implements `TransferControl` |
| `AccessProofs` | `Access` |
| `SessionsProofs` | `Sessions` and `SignIn`, one after the other; they share no variable |
| `ServicesProofs` | `RateLimits` and `TurnCredentials`, likewise |
| `FileTransferProofs`, `PresenceProofs`, `TransferPageProofs` | `FileTransfer`, `Presence`, `TransferPage` |

A leaf names a prover (`Zenon`, `ZenonT(60)`, `SMTT(20)`) where the default sequence of provers
would spend its time on one that does not find the proof.

| Theorem | States | Along which argument |
| --- | --- | --- |
| `TransferControlProofs!TypeCorrect` | `TypeOK` | `Base`: types, what a handler's locals mean at each await (`HandlerOK`), no two creators share an identifier (`Distinct`), shape of the rows (`RowOK`) |
| `TransferControlProofs!CapacityTheorem` | `CapacityBound` | Every handler step is quiet, a release, an insert, an update or a notice. `CapInv` adds: a handler at its INSERT holds the lock and there is room. Room can only grow meanwhile, because only the holder inserts and only expiry or an ending changes the count |
| `TransferControlProofs!NoticeTheorem` | `NoticeOnce` | `NoticeInv`: whoever has an announcement to make made the update, no two handlers have the same one, and devices have heard only what may precede the row's status |
| `TransferControlProofs!LifecycleTheorem` | `LifecycleSpec` | From `NoticeInv`: initial states map to initial states and each step to a step of `TransferLifecycle` or a stutter |
| `TransferControlProofs!AcceptanceTheorem` | `AcceptanceRecorded` | The same case split on updates |
| `AccessProofs!CodeTheorem` | `CodeLinksOnce` | `LockInv`: a request about to insert the device holds the code's row and the code is still good, so the count of devices follows the row (`CodeInv`) |
| `AccessProofs!ProofTheorem` | `ProofUsedOnce` | `UseInv`, `MailInv`: a request that has used a challenge and has not opened its session is the only one, and no session is there yet |
| `AccessProofs!LogoutTheorem` | `LogoutEndsSessions` | `OpenInv`: one opener per session, an opener that is late is marked, and a logout finds at its commit every session that was live |
| `SessionsProofs!TicketTheorem` | `TicketOnce` | `Spent`: a ticket has let in a socket only if it is consumed or deleted, and the requests past its consumption are accounted for |
| `SessionsProofs!LineTheorem` | `RotationLine` | `Line`: a session with an heir is revoked, and deadlines go back to the same login |
| `SessionsProofs!OverTheorem`, `LogoutTheorem`, `CleanupTheorem` | `OverStaysOver`, `NothingAfterLogout`, `CleanupSpares` | Action properties, from `SInv` and the guard of each statement. For the logout: a step that puts a request past its last check reads an active device, and a step that obtains something ends its request |
| `SessionsProofs!GuessesTheorem` | `GuessesPerMailbox` | `ChargedOnce`: what was admitted against the normalised address is exactly the calls made and the requests that have theirs ahead of them, counted by cardinality |
| `SessionsProofs!TwinTheorem` | `CollisionIsTwin` | `Settled`: while the directory stands still, an account's address is its user's address, so a second row with either key is the same account |
| `ServicesProofs!EntitledTheorem` | `IssuedToEntitled` | `Stopped`: a request that was not entitled as a whole when it came in still has an obstacle ahead of it, at whichever of the three reads it is |
| `ServicesProofs!ParserTheorem`, `ExactTheorem` | `ParserIsExact` | The loop of the parser is a recursive function over the answer's servers. `RunExists`: the function exists for every length. `RoundsKnow`: after k servers the loop has raised nothing exactly if those k are sound together, and knows their login and whether one is a relay (`Knows`). Both are inductions written as arguments from the least counterexample (`Least`, from the well-foundedness of the natural numbers). `Given`, the set of logins, is finite and has one element exactly if the loop ends with that login |
| `ServicesProofs!GrantsTheorem` | `GrantsBounded` | `RInv`: what a request has read is locked and unchanged and had room (`Held`), so at its commit a row is what it read; a row set back by a racing creation accounts for one more limit (`RowBound`) |
| `ServicesProofs!AllOrNothingTheorem` | `AllOrNothing` | Action property: the step that refuses comes before the first write (`Phase`) |
| `SignalingProofs!ControlTheorem` | `ControlSpec` | A step of a socket leaves the rows alone or is a `mark_negotiating` update the control plane allows; every other step is one of `TransferControl` |
| `SignalingProofs!BudgetTheorem` | `BudgetExact` | `BudgetInv`: a charge adds one element to the messages of one device and kind, a release takes away those of whole transfers; finiteness makes cardinalities add up |
| `SignalingProofs!SingleUseTheorem` | `SingleUseWhileLive` | `OnceInv`: while a row can still be live, what was forwarded is what its entry counts, including sockets that have charged and not yet forwarded. `EntryOK` and `LifeOK`: an entry old enough to be pruned belongs to a row that has run out, because `Retention > Lifetime` |
| `FileTransferProofs!NonceTheorem` | `NonceOnce` | `CallsOK`: each coroutine has at most one frame under way, of its own kind. `NoncesOK`: a counter is in at most one place (a coroutine, the channel, the peer's inbox) and below the next one |
| `FileTransferProofs!ReceiptTheorem` | `ReceiptMeansDelivered` | `DeliveredOK`: a receipt anywhere past its coroutine means the file was handed over, and is still there unless the engine was disposed of; what the recipient is verifying is the file its manifest names |
| `FileTransferProofs!BackpressureTheorem` | `Backpressure` | `PressInv`: at most one coroutine beside the cancellation has a frame under way (`OneWorker`), which needs that content follows the acceptance (`AcceptedOK`) and that nothing precedes the confirmation (`StartOK`); a cancellation woken behind another sender is the last frame (`WokenOK`) |
| `PresenceProofs!QueuesTheorem`, `QueueTheorem`, `OwnedTheorem` | `QueuesMatchSockets`, `QueueExact`, `OpenIsOwned` | `SInv`: a registered socket has a live queue and nobody stopping it; a queue in the table is a registered socket's or is about to be stopped; an open socket is one of these or its writer is closing it uncancelled (`SocketOK`). One socket per device, one coroutine per stopped queue, and the queue a coroutine is waiting for is out of the table (`TablesOK`) |
| `TransferPageProofs!OneSessionTheorem`, `GoneTheorem` | `OneSession`, `GoneAfterCleanup` | `PageInv` speaks of one side at a time (`SideOK`). `PageOK`: one creation at a time and none while a session is held; a cancelled page that is not cleaning up holds none. `Tied`: a session the page does not hold can no longer open its channel, and before the first creation there is neither session nor await. `Accounted`: a session is let go only when it is closed, or after the page went |
| `TransferPageProofs!CandidatesTheorem` | `CandidatesKept` | `SessionOK`: what waits, is flushed, was added or was lost is what was received; `Tied`: while something is being flushed the handler is under way. `LostInv`, an invariant of its own: what is lost was lost in a trouble. It survives `setRemoteDescription` only if no second one resolves during a flush. Hence `Described`: the description is in one place (on its way, with a creation, among the signals to be handled, being applied) and nowhere once it is set, because the server forwards it once |
| `TransferPageProofs!EngineTheorem` | `EngineListens` | `CreateFileEngine` makes the engine only if the key material is there when the channel opens. `SenderKeyOK`: the sender creates its channel after it has checked the one answer, and keeps the material. `RecipientKeyOK`: a recipient that has answered has its material, unless it was reloaded since. `EngineOK`: an engine that was refused found the slot taken, and the run shows it |

None of these properties is inductive alone: each speaks of rows, and what keeps
it true is what a request or coroutine between two steps may still do. The
strengthening is in each case a statement about those in flight. The inductive
invariants of `Signaling`, `FileTransfer`, `Presence` and `TransferPage` were
checked with TLC on instances of the size of the runs before they were proved.

### Only model-checked

Liveness: `HandlersReturn`, `Delivers`, `SendFileSettles`, `LoggedOutGoes`,
`Greeted`, `RequestsFinish`, `BothConnect`. Fairness and `ENABLED` are outside the
prover's reach.

## Where the code and its documents differ

Met while modelling. The models follow the code.

* **A failing engine does not tell its peer.** `fail()` sets the state to
  `failed` before it calls `sendTerminalFrame()`, which returns at once in a
  terminal state (`fileTransfer.ts:1395`). `docs/transfer-protocol.md:239`: such a
  failure "terminates the transfer". The peer learns of it when the channel
  closes.
* **A `sendFile()` whose engine fails before its own confirmation is out** waits
  until the engine is disposed of; `SendFileSettles` is about a page that gave up
  or a channel that is gone.
* **A file chosen when the engine is ready is not sent.** The file input is
  enabled only then (`TransferConsole.tsx:1285-1294`), but the file is picked up
  only where the engine is created (`:497`), and `startSenderSession` finds a
  session that has been started. `docs/user-flow.md:17`: "After the sender selects
  one file, the recipient sees its name, size, and type".
* **A logged-out browser cannot link again.** Its row is still there, so the
  INSERT of a linking meets the primary key
  (`repositories/device_linking_otps.py:171`).
  `docs/authentication-and-devices.md:97`: "until the user links or signs in to it
  again". Signing in by e-mail does re-activate the row.
* **A logout does not cancel pending offers**, as the same line says it does; the
  offers expire.
* **The look-up of a linking code is ambiguous SQL.** `get_active_by_hash`
  (`repositories/device_linking_otps.py:99-111`) joins two tables that both have
  `id` and `created_at` and selects the names unqualified; PostgreSQL refuses such a
  statement. The tests use an in-memory repository. `ReadCode` has both outcomes:
  the request fails, or the statement does what it is meant to do.
* **Budgets outlive a cancel** when `forward_signaling` charges after the handler
  has released; the entry stays until it is pruned by age. `presence.py:180`:
  "held only while a transfer stays live".
* **The inbound slot** of the recipient is released by cancellation, failure or
  disposal, not by completion.
* **Sessions are not rotated by any route.**
  `docs/authentication-and-devices.md:75`: "FastAPI rotates the session after email
  verification, device enrollment, and email fallback".
* **TURN credentials** are also issued for a transfer that is still `offered`; the
  route's docstring says "accepted transfer participant".
* **The second of two concurrent verifications** of a new user fails as a server
  error after its code is used up.

## Not modelled

* Cryptography: key agreement, signatures, transcript binding, AES-GCM. Neither
  tool can judge it; the models use "authenticates" and "matches".
* Of `presence.py`: `close_all`, `disconnect_account` and `flush_outbound`
  (shutdown), `record_connection_mode` (a metric).
* Of the page: the initial load, the list of devices, relay statistics and
  downloads. Of the handshake: all but the order of its messages.
* The presence client's reconnects and heartbeats: `Presence` and `Sessions` let
  any socket come and go at any time, which includes what it does.
* The availability gateway, client and probe: one actor each and no shared state.
* The account page, HTTP clients and small views: view states driven by one user;
  the requests they make are arbitrary in the server's models.
* Clean-up of challenges, linking codes, transfers and security events: no handler
  reads rows of the age it deletes. `mark_email_fallback` and audit events are
  written and never read.
* Logging, metrics, configuration, security headers, grants and row-level
  security: declarations or write-only records.
