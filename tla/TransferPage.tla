---------------------------- MODULE TransferPage ----------------------------
(***************************************************************************)
(* The two browser pages of one transfer, from "Transfer to this device"   *)
(* to an open data channel with a file engine on each end:                 *)
(* TransferConsole.tsx (creation of the session, queued signals, engine,   *)
(* cancel, reject, clean-up) and webrtcTestSession.ts (handshake, offer    *)
(* and answer, candidates, negotiation timer).                             *)
(*                                                                         *)
(* JavaScript runs a piece of code between two awaits without              *)
(* interruption, so an action is such a piece: the event that resumes it,  *)
(* every assignment and callback up to the next await.  The server, the    *)
(* two RTCPeerConnections and the users are the environment.               *)
(***************************************************************************)
EXTENDS Naturals, Sequences, FiniteSets

CONSTANTS
    MaxCandidates,  \* how many candidates the browser of each side gathers
    MaxQueued,      \* MAX_QUEUED_SIGNALS_PER_TRANSFER
    MaxPending,     \* MAX_PENDING_ICE_CANDIDATES
    MaxTroubles     \* failures, reloads, time-outs and give-ups in a behaviour

ASSUME PageBounds ==
    /\ MaxCandidates \in [{"sender", "recipient"} -> Nat]
    /\ {MaxQueued, MaxPending, MaxTroubles} \subseteq Nat

VARIABLES
    page,       \* what TransferConsole holds about the transfer, per side
    session,    \* the WebRtcTestSession of each side
    tasks,      \* the awaits each session is suspended at
    wire,       \* messages the server has forwarded to each page, in order
    row,        \* the transfer request, as the server has it
    forwarded,  \* single-use message types the server has forwarded
    troubles    \* how often something went wrong, or someone gave up

vars == <<page, session, tasks, wire, row, forwarded, troubles>>

Sides == {"sender", "recipient"}
Other(i) == IF i = "sender" THEN "recipient" ELSE "sender"

SingleUse == {"handshake_offer", "handshake_answer", "sdp_offer", "sdp_answer"}
Signal(type) == [type |-> type, n |-> 0]
Candidate(n) == [type |-> "ice_candidate", n |-> n]
(***************************************************************************)
(* A session is idle, has no channel and no key material when made.        *)
(* `connection' is the RTCPeerConnection ("none": there is no session),    *)
(* `offer' the handshake offer it keeps, `local' and `remote' whether the  *)
(* descriptions are set, `received' the candidates it took, `lost' those of *)
(* a flush that broke off, `gathered' how many the browser has found.      *)
(***************************************************************************)
NewSession ==
    [state |-> "idle", started |-> FALSE, timer |-> FALSE, offer |-> FALSE,
     material |-> FALSE, local |-> FALSE, remote |-> FALSE, channel |-> "none",
     connection |-> "new", pending |-> {}, flush |-> {}, added |-> {},
     lost |-> {}, received |-> {}, gathered |-> 0]

NoSession == [NewSession EXCEPT !.connection = "none"]

IsOpen(s) == s.connection \in {"new", "connected", "failed"}

(***************************************************************************)
(* A page: the row it lists, the call its buttons wait for (busy), the     *)
(* creations of a session under way (each with the callers and the signals *)
(* that wait for it), signals kept for later, signals being handled one    *)
(* after the other, whether it has the session and its context, the        *)
(* engine, the run shown ("active" stands for every state of a run that    *)
(* has not ended).  `taken': the device's one inbound slot belongs to the  *)
(* engine of another transfer.  `ghosts' are creations that outlive the    *)
(* page they were begun on; `strays' says of every peer connection that    *)
(* was let go while open in what state its session was.  A page that       *)
(* accepts is left out: a file has to be offered first.                    *)
(***************************************************************************)
NewPage ==
    [listed |-> "none", busy |-> "no", cancelled |-> FALSE, cleaning |-> FALSE,
     loads |-> << >>, queued |-> << >>, todo |-> << >>, held |-> FALSE,
     engine |-> "none", run |-> "none", ready |-> FALSE, selected |-> FALSE,
     sent |-> FALSE, taken |-> FALSE, reloaded |-> FALSE, mounted |-> TRUE,
     ghosts |-> 0, strays |-> {}]

Init ==
    /\ page = [i \in Sides |-> NewPage]
    /\ session = [i \in Sides |-> NoSession]
    /\ tasks = [i \in Sides |-> {}]
    /\ wire = [i \in Sides |-> << >>]
    /\ row = "none"
    /\ forwarded = {}
    /\ troubles = 0

(***************************************************************************)
(* The session's own helpers.                                              *)
(***************************************************************************)
\* setState: a state that ends or settles the negotiation stops its timer.
SetState(s, state) ==
    IF state = s.state
    THEN s
    ELSE [s EXCEPT !.state = state,
                   !.timer = @ /\ state \notin {"connected", "failed", "closed"}]

\* armNegotiationTimeout
Arm(s) == [s EXCEPT !.timer = TRUE]

Negotiate(s) == Arm(SetState([s EXCEPT !.started = TRUE], "negotiating"))

MayStart(s) == ~s.started /\ s.state # "closed"

\* close(): nothing is done for a session that is already "closed".
Close(s) ==
    IF s.state = "closed"
    THEN s
    ELSE [SetState(s, "closed") EXCEPT
             !.channel = IF @ = "none" THEN @ ELSE "closed",
             !.connection = "closed"]

\* handleIceCandidate, when it does not throw.
TakeCandidate(s, c) ==
    IF s.remote
    THEN [s EXCEPT !.added = @ \cup {c}, !.received = @ \cup {c}]
    ELSE [s EXCEPT !.pending = @ \cup {c}, !.received = @ \cup {c}]

CandidateThrows(s) ==
    IF s.remote
    THEN ~IsOpen(s)
    ELSE Cardinality(s.pending) >= MaxPending

RemoteSetOnly(s) == [s EXCEPT !.remote = TRUE]

\* setRemoteDescription has resolved: flushCandidates takes what is waiting.
RemoteSet(s) ==
    [s EXCEPT !.remote = TRUE, !.flush = s.pending, !.pending = {}]

(***************************************************************************)
(* The page's helpers.                                                     *)
(***************************************************************************)
\* markSessionFailed
Failed(p) == [p EXCEPT !.run = "failed"]

\* There is none, or its constructor threw.
NoEngine(p) == p.engine \in {"none", "refused"}

\* onStateChange of the session: a failure is shown unless there is an engine.
Shown(p, s, t) ==
    IF t.state = "failed" /\ s.state # "failed" /\ NoEngine(p) THEN Failed(p) ELSE p

\* createFileEngine: one engine, once there is a channel and key material.  A
\* file that was chosen before is sent at once.  The constructor throws
\* inbound_busy when the slot is taken.
CreateFileEngine(p, s) ==
    IF p.held /\ NoEngine(p) /\ s.channel = "open" /\ s.material
    THEN IF p.taken
         THEN [Failed(p) EXCEPT !.engine = "refused"]
         ELSE [p EXCEPT !.engine = "live", !.ready = TRUE, !.sent = @ \/ p.selected,
                        !.run = "active"]
    ELSE p

\* The page lets go of session s, which it has turned into t.
LetGo(p, s, t) == IF IsOpen(t) THEN [p EXCEPT !.strays = @ \cup {s.state}] ELSE p

\* What waits for a creation: callers that start the session, in no particular
\* order, and signals, in the order they came.
Starters == {"transfer_offer", "create", "select"}

Await(load, waiter) ==
    IF waiter.type \in Starters
    THEN [load EXCEPT !.starters = @ \cup {waiter.type}]
    ELSE [load EXCEPT !.signals = Append(@, waiter)]

FirstAwait(waiter) == Await([starters |-> {}, signals |-> << >>], waiter)

JoinedNever(p, waiter) ==
    IF p.cancelled THEN p ELSE [p EXCEPT !.loads = Append(@, FirstAwait(waiter))]

\* createTestSession, when the session is not there yet: join the creation under
\* way or begin one; a cancelled transfer gets none.
Joined(p, waiter) ==
    IF p.loads # << >>
    THEN [p EXCEPT !.loads[Len(p.loads)] = Await(@, waiter)]
    ELSE IF p.cancelled THEN p ELSE [p EXCEPT !.loads = <<FirstAwait(waiter)>>]

(***************************************************************************)
(* socket.send and the server's relay: a signal of a live transfer is      *)
(* forwarded, each type but candidates once.                               *)
(***************************************************************************)
Live == row = "offered"

Emit(i, m) ==
    IF Live /\ m.type \notin forwarded
    THEN /\ wire' = [wire EXCEPT ![Other(i)] = Append(@, m)]
         /\ forwarded' = forwarded \cup ({m.type} \cap SingleUse)
    ELSE UNCHANGED <<wire, forwarded>>

\* Something outside the program goes wrong, or a user gives up; and what an
\* exception inside it counts for.
Trouble == troubles < MaxTroubles /\ troubles' = troubles + 1
Unwell == troubles' = IF troubles = 0 THEN 1 ELSE troubles

\* The presence socket is offline: emitSignal throws.
Offline ==
    /\ Trouble
    /\ UNCHANGED <<wire, forwarded>>

Sent(i, m) == Emit(i, m) /\ UNCHANGED troubles

(***************************************************************************)
(* The driver of handleSignalingMessage: signals handled one after the     *)
(* other.  When one is done the next is begun, when one throws the rest    *)
(* are dropped.                                                            *)
(***************************************************************************)
Done(p, type) ==
    IF p.todo # << >> /\ Head(p.todo).type = type THEN [p EXCEPT !.todo = Tail(@)] ELSE p

Threw(p, type) ==
    Failed(IF p.todo # << >> /\ Head(p.todo).type = type THEN [p EXCEPT !.todo = << >>] ELSE p)

(***************************************************************************)
(* handleSignal up to its first await.  The page becomes p when the call   *)
(* is suspended, `handled' when it returns at once, `threw' when it throws. *)
(* addIceCandidate may reject a candidate.                                 *)
(***************************************************************************)
HandleSignal(i, m, p, handled, threw) ==
    LET s == session[i] IN
    \/ /\ s.state = "closed"
       /\ page' = [page EXCEPT ![i] = handled]
       /\ UNCHANGED <<session, tasks, troubles>>
    \/ /\ s.state # "closed" /\ m.type = "ice_candidate" /\ ~CandidateThrows(s)
       /\ session' = [session EXCEPT ![i] = TakeCandidate(s, m.n)]
       /\ page' = [page EXCEPT ![i] = handled]
       /\ UNCHANGED <<tasks, troubles>>
    \/ /\ s.state # "closed" /\ m.type = "ice_candidate" /\ CandidateThrows(s)
       /\ page' = [page EXCEPT ![i] = threw]
       /\ Unwell
       /\ UNCHANGED <<session, tasks>>
    \/ /\ s.state # "closed" /\ m.type = "ice_candidate" /\ s.remote /\ IsOpen(s)
       /\ page' = [page EXCEPT ![i] = threw]
       /\ Trouble
       /\ UNCHANGED <<session, tasks>>
    \/ /\ s.state # "closed" /\ m.type \in {"handshake_offer", "handshake_answer"}
       /\ IF i = "recipient" \/ s.offer
          THEN /\ tasks' = [tasks EXCEPT ![i] = @ \cup {"checking"}]
               /\ page' = [page EXCEPT ![i] = p]
          ELSE /\ page' = [page EXCEPT ![i] = handled]
               /\ UNCHANGED tasks
       /\ UNCHANGED <<session, troubles>>
    \/ /\ s.state # "closed" /\ m.type \in {"sdp_offer", "sdp_answer"}
       /\ session' = [session EXCEPT ![i] = Negotiate(s)]
       /\ tasks' = [tasks EXCEPT ![i] = @ \cup {"applying"}]
       /\ page' = [page EXCEPT ![i] = p]
       /\ UNCHANGED troubles

(***************************************************************************)
(* The sender presses "Transfer to this device"; the server inserts the    *)
(* row and tells the recipient.  The answer reaches the page later, or not. *)
(***************************************************************************)
CreateOffer ==
    /\ row = "none"
    /\ row' = "offered"
    /\ wire' = [wire EXCEPT !["recipient"] = Append(@, Signal("transfer_offer"))]
    /\ page' = [page EXCEPT !["sender"].busy = "create"]
    /\ UNCHANGED <<session, tasks, forwarded, troubles>>

OfferCreated ==
    LET p == [page["sender"] EXCEPT !.busy = "no"] IN
    /\ page["sender"].busy = "create"
    /\ \/ /\ page' = [page EXCEPT !["sender"] =
                            Joined([p EXCEPT !.listed = "offered"], Signal("create"))]
          /\ UNCHANGED troubles
       \/ /\ Trouble
          /\ page' = [page EXCEPT !["sender"] = p]
    /\ UNCHANGED <<session, tasks, wire, row, forwarded>>

(***************************************************************************)
(* socketMessageRef: a message of the presence socket.                     *)
(***************************************************************************)
CreatesSession(i, m) == i = "recipient" /\ m.type \in {"handshake_offer", "sdp_offer"}

DeliverNotice(i, m) ==
    LET p == page[i] IN
    /\ \/ /\ m.type = "transfer_offer"
          /\ page' = [page EXCEPT ![i] =
                 IF p.held THEN [p EXCEPT !.listed = "offered"]
                 ELSE Joined([p EXCEPT !.listed = "offered"], m)]
          /\ session' = [session EXCEPT ![i] =
                 IF p.held /\ MayStart(@) THEN Negotiate(@) ELSE @]
       \/ /\ m.type = "transfer_ended"
          /\ page' = [page EXCEPT ![i] = [@ EXCEPT !.listed = "ended", !.queued = << >>]]
          /\ UNCHANGED session
    /\ UNCHANGED <<tasks, troubles>>

\* pruneQueuedSignals: all signals of a transfer expire with it, by this
\* browser's clock.
Pruned(p) == {p} \cup (IF row = "expired" THEN {[p EXCEPT !.queued = << >>]} ELSE {})

DeliverEarlySignal(i, m, p) ==
    /\ \/ /\ CreatesSession(i, m)
          /\ page' = [page EXCEPT ![i] =
                 Joined([p EXCEPT !.listed = IF @ = "none" THEN "offered" ELSE @], m)]
          /\ UNCHANGED troubles
       \/ /\ ~CreatesSession(i, m) /\ Len(p.queued) < MaxQueued
          /\ page' = [page EXCEPT ![i] = [p EXCEPT !.queued = Append(@, m)]]
          /\ UNCHANGED troubles
       \/ /\ ~CreatesSession(i, m) /\ Len(p.queued) >= MaxQueued
          /\ page' = [page EXCEPT ![i] = Failed(p)]
          /\ Unwell
    /\ UNCHANGED <<session, tasks>>

Deliver(i) ==
    /\ page[i].mounted /\ wire[i] # << >>
    /\ wire' = [wire EXCEPT ![i] = Tail(@)]
    /\ LET m == Head(wire[i]) IN
       \/ m.type \in {"transfer_offer", "transfer_ended"} /\ DeliverNotice(i, m)
       \/ /\ m.type \notin {"transfer_offer", "transfer_ended"}
          /\ \E p \in Pruned(page[i]) :
                IF p.held THEN HandleSignal(i, m, p, p, Failed(p)) ELSE DeliverEarlySignal(i, m, p)
    /\ UNCHANGED <<row, forwarded>>

(***************************************************************************)
(* createTestSession after its look-ups (identity, peer key, TURN          *)
(* credentials): the transfer may have been cancelled meanwhile.  Whoever  *)
(* waited goes on: an offer starts the session, a signal is handled,       *)
(* together with those that were kept.                                     *)
(***************************************************************************)
BacklogDropped(p, signals) == p

Backlog(p, signals) ==
    IF signals = << >>
    THEN p
    ELSE [p EXCEPT !.queued = << >>,
                   !.todo = (IF Head(signals).type = "handshake_offer"
                             THEN <<Head(signals)>> \o p.queued
                             ELSE p.queued \o <<Head(signals)>>) \o Tail(signals)]

GivesNullNever(p) == FALSE

GivesNull(p) == p.cancelled

SessionCreated(i, k) ==
    LET p == page[i]
        load == p.loads[k]
        rest == SubSeq(p.loads, 1, k - 1) \o SubSeq(p.loads, k + 1, Len(p.loads))
        q == [p EXCEPT !.loads = rest]
        kept == IF p.held THEN LetGo(q, session[i], session[i]) ELSE q
        starts == load.starters # {}
    IN
    IF GivesNull(p)
    THEN /\ page' = [page EXCEPT ![i] = IF "select" \in load.starters THEN Failed(q) ELSE q]
         /\ UNCHANGED <<session, tasks>>
    ELSE /\ page' = [page EXCEPT ![i] =
                Backlog([kept EXCEPT !.held = TRUE, !.engine = "none"], load.signals)]
         /\ session' = [session EXCEPT ![i] = IF starts THEN Negotiate(NewSession) ELSE NewSession]
         /\ tasks' = [tasks EXCEPT ![i] = IF starts /\ i = "sender" THEN {"offering"} ELSE {}]

CreationDone(i) ==
    /\ \E k \in DOMAIN page[i].loads : SessionCreated(i, k)
    /\ UNCHANGED <<wire, row, forwarded, troubles>>

CreationFails(i) ==
    /\ page[i].loads # << >>
    /\ LET p == page[i]
           q == [p EXCEPT !.loads = Tail(@)]
       IN page' = [page EXCEPT ![i] =
              IF Head(p.loads) = FirstAwait(Signal("create")) THEN q ELSE Failed(q)]
    /\ Trouble
    /\ UNCHANGED <<session, tasks, wire, row, forwarded>>

Under(task) ==
    CASE task = "handshake_offer" -> {"checking"}
      [] task = "sdp_offer" -> {"applying", "flushing", "answering"}
      [] OTHER -> {}

\* The next of the kept signals, once the one before is done.
Drive(i) ==
    LET p == page[i]
        m == Head(p.todo)
    IN
    /\ p.todo # << >>
    /\ Under(m.type) \cap tasks[i] = {}
    /\ HandleSignal(i, m, p, [p EXCEPT !.todo = Tail(@)], Failed([p EXCEPT !.todo = << >>]))
    /\ UNCHANGED <<wire, row, forwarded>>

(***************************************************************************)
(* What a session does after each await.                                   *)
(***************************************************************************)
\* The exception of a signal handler ends in markSessionFailed.
Throws(i, type) ==
    /\ page' = [page EXCEPT ![i] = Threw(page[i], type)]
    /\ Unwell

Moves(i, from, to) ==
    /\ from \in tasks[i]
    /\ tasks' = [tasks EXCEPT ![i] = (@ \ {from}) \cup to]
    /\ UNCHANGED row

\* start(): the signed handshake offer has been made.
OfferMade ==
    LET s == [session["sender"] EXCEPT !.offer = TRUE]
        f == SetState(s, "failed")
    IN
    /\ Moves("sender", "offering", {})
    /\ \/ /\ Sent("sender", Signal("handshake_offer"))
          /\ session' = [session EXCEPT !["sender"] = s]
          /\ UNCHANGED page
       \/ /\ Offline
          /\ session' = [session EXCEPT !["sender"] = f]
          /\ page' = [page EXCEPT !["sender"] = Shown(@, s, f)]

AnswersOnly ==
    /\ Moves("recipient", "checking", {})
    /\ Sent("recipient", Signal("handshake_answer"))
    /\ page' = [page EXCEPT !["recipient"] = Done(@, "handshake_offer")]
    /\ UNCHANGED session

\* The recipient has checked the offer and derived the keys: it answers.
Answers ==
    LET s == [session["recipient"] EXCEPT !.material = TRUE]
        p == CreateFileEngine(page["recipient"], s)
    IN
    /\ Moves("recipient", "checking", {})
    /\ session' = [session EXCEPT !["recipient"] = s]
    /\ \/ /\ Sent("recipient", Signal("handshake_answer"))
          /\ page' = [page EXCEPT !["recipient"] = Done(p, "handshake_offer")]
       \/ /\ Offline
          /\ page' = [page EXCEPT !["recipient"] = Threw(p, "handshake_offer")]

\* The sender has checked the answer: it opens the channel and describes it.
StartsNegotiation ==
    LET s == [session["sender"] EXCEPT !.material = TRUE]
        p == CreateFileEngine(page["sender"], s)
    IN
    /\ IF IsOpen(s)
       THEN /\ Moves("sender", "checking", {"describing"})
            /\ session' = [session EXCEPT !["sender"] = [s EXCEPT !.channel = "made"]]
            /\ page' = [page EXCEPT !["sender"] = p]
            /\ UNCHANGED troubles
       ELSE /\ Moves("sender", "checking", {})
            /\ session' = [session EXCEPT !["sender"] = s]
            /\ page' = [page EXCEPT !["sender"] = Failed(p)]
            /\ Unwell
    /\ UNCHANGED <<wire, forwarded>>

\* The handshake message does not verify, or has expired.
CheckFails(i) ==
    /\ Moves(i, "checking", {})
    /\ page' = [page EXCEPT ![i] = Threw(page[i], "handshake_offer")]
    /\ Trouble
    /\ UNCHANGED <<session, wire, forwarded>>

\* createOffer or createAnswer, and setLocalDescription: the description goes out.
Describes(i, task, type, answered) ==
    /\ Moves(i, task, {})
    /\ \/ /\ IsOpen(session[i])
          /\ session' = [session EXCEPT ![i].local = TRUE]
          /\ \/ /\ Sent(i, Signal(type))
                /\ page' = [page EXCEPT ![i] = Done(@, answered)]
             \/ /\ Offline
                /\ page' = [page EXCEPT ![i] = Threw(@, answered)]
       \/ /\ ~IsOpen(session[i])
          /\ Throws(i, answered)
          /\ UNCHANGED <<session, wire, forwarded>>

SendsOffer == Describes("sender", "describing", "sdp_offer", "handshake_answer")
SendsAnswer == Describes("recipient", "answering", "sdp_answer", "sdp_offer")

\* setRemoteDescription has resolved, or the connection was closed under it.
Applied(i) ==
    /\ IF IsOpen(session[i])
       THEN /\ Moves(i, "applying", {"flushing"})
            /\ session' = [session EXCEPT ![i] = RemoteSet(@)]
            /\ UNCHANGED <<page, troubles>>
       ELSE /\ Moves(i, "applying", {})
            /\ Throws(i, "sdp_offer")
            /\ UNCHANGED session
    /\ UNCHANGED <<wire, forwarded>>

\* flushCandidates: one addIceCandidate after the other.  One that rejects, or the
\* end of the connection, loses the rest.
Flushed(s, c) == [s EXCEPT !.flush = @ \ {c}, !.added = @ \cup {c}]
BreaksOff(s) == [s EXCEPT !.flush = {}, !.lost = @ \cup s.flush]

Flushes(i) ==
    LET s == session[i] IN
    /\ \/ \E c \in s.flush :
             /\ IsOpen(s)
             /\ Moves(i, "flushing", {"flushing"})
             /\ session' = [session EXCEPT ![i] = Flushed(@, c)]
             /\ UNCHANGED <<page, troubles>>
       \/ /\ s.flush # {}
          /\ Moves(i, "flushing", {})
          /\ session' = [session EXCEPT ![i] = BreaksOff(@)]
          /\ page' = [page EXCEPT ![i] = Threw(@, "sdp_offer")]
          /\ IF IsOpen(s) THEN Trouble ELSE Unwell
       \/ /\ s.flush = {}
          /\ Moves(i, "flushing", IF i = "recipient" THEN {"answering"} ELSE {})
          /\ UNCHANGED <<page, session, troubles>>
    /\ UNCHANGED <<wire, forwarded>>

(***************************************************************************)
(* Events of the browser's RTCPeerConnection and of the timer.             *)
(***************************************************************************)
\* The session changes state; the page hears of it.
Becomes(i, s) ==
    /\ session' = [session EXCEPT ![i] = s]
    /\ page' = [page EXCEPT ![i] = Shown(@, session[i], s)]

\* onicecandidate
Gathers(i) ==
    LET s == [session[i] EXCEPT !.gathered = @ + 1] IN
    /\ s.local /\ IsOpen(s) /\ s.gathered <= MaxCandidates[i]
    /\ \/ Sent(i, Candidate(s.gathered)) /\ Becomes(i, s)
       \/ Offline /\ Becomes(i, SetState(s, "failed"))
    /\ UNCHANGED <<tasks, row>>

\* Each browser has both descriptions and one knows a candidate of the other.
Reachable ==
    /\ \A i \in Sides :
        session[i].connection \in {"new", "connected"} /\ session[i].local /\ session[i].remote
    /\ \E i \in Sides : session[i].added # {}

\* onopen of the data channel, which ondatachannel has handed to the recipient.
Opened(s) == [s EXCEPT !.channel = "open", !.timer = FALSE]

ChannelOpens(i) ==
    LET s == Opened(session[i]) IN
    /\ Reachable
    /\ session["sender"].channel \in {"made", "open"}
    /\ session[i].channel = IF i = "sender" THEN "made" ELSE "none"
    /\ page' = [page EXCEPT ![i] = CreateFileEngine(@, s)]
    /\ session' = [session EXCEPT ![i] = SetState(s, "connected")]
    /\ UNCHANGED <<tasks, wire, row, forwarded, troubles>>

\* onconnectionstatechange
Connects(i) ==
    /\ Reachable
    /\ session[i].connection = "new"
    /\ Becomes(i, SetState([session[i] EXCEPT !.connection = "connected"], "connected"))
    /\ UNCHANGED <<tasks, wire, row, forwarded, troubles>>

ConnectionFails(i) ==
    /\ session[i].connection \in {"new", "connected"} /\ session[i].remote
    /\ Becomes(i, SetState([session[i] EXCEPT !.connection = "failed"], "failed"))
    /\ Trouble
    /\ UNCHANGED <<tasks, wire, row, forwarded>>

\* The engine's run ends; a page that is cleaning up does not show it.
EngineOver(p, run) ==
    [p EXCEPT !.engine = "over", !.run = IF p.cleaning THEN @ ELSE run]

\* onclose, after the other end closed the channel or went away; the engine fails.
ChannelCloses(i) ==
    LET j == Other(i) IN
    /\ session[i].channel = "open"
    /\ session[j].channel = "closed" \/ ~IsOpen(session[j])
    /\ session' = [session EXCEPT ![i] = SetState([@ EXCEPT !.channel = "closed"], "closed")]
    /\ page' = [page EXCEPT ![i] = IF @.engine = "live" THEN EngineOver(@, "failed") ELSE @]
    /\ UNCHANGED <<tasks, wire, row, forwarded, troubles>>

\* The engine hears that its peer's page has given up, before the channel closes.
HearsCancel(i) ==
    LET j == Other(i) IN
    /\ page[i].engine = "live" /\ session[i].channel = "open"
    /\ page[j].cancelled /\ ~NoEngine(page[j])
    /\ page' = [page EXCEPT ![i] = EngineOver(@, "failed")]
    /\ UNCHANGED <<session, tasks, wire, row, forwarded, troubles>>

NegotiationTimeout(i) ==
    LET s == [session[i] EXCEPT !.timer = FALSE] IN
    /\ session[i].timer
    /\ Becomes(i, IF s.state = "negotiating" THEN SetState(s, "failed") ELSE s)
    /\ Trouble
    /\ UNCHANGED <<tasks, wire, row, forwarded>>

(***************************************************************************)
(* The users: choosing a file, declining, cancelling, leaving the page.    *)
(***************************************************************************)
RunHasEnded(p) == p.run = "cancelled"
CanChooseFile(p) ==
    p.listed = "offered" /\ p.ready /\ p.busy = "no" /\ ~RunHasEnded(p) /\ ~p.sent

\* handleFileSelected and startSenderSession
SelectFile ==
    LET p == [page["sender"] EXCEPT !.selected = TRUE, !.run = "active"] IN
    /\ CanChooseFile(page["sender"])
    /\ IF p.held
       THEN /\ page' = [page EXCEPT !["sender"] = p]
            /\ IF MayStart(session["sender"])
               THEN /\ session' = [session EXCEPT !["sender"] = Negotiate(@)]
                    /\ tasks' = [tasks EXCEPT !["sender"] = @ \cup {"offering"}]
               ELSE UNCHANGED <<session, tasks>>
       ELSE /\ page' = [page EXCEPT !["sender"] =
                   IF p.cancelled THEN Failed(p) ELSE Joined(p, Signal("select"))]
            /\ UNCHANGED <<session, tasks>>
    /\ UNCHANGED <<wire, row, forwarded, troubles>>

SelectTooLarge ==
    /\ CanChooseFile(page["sender"])
    /\ page' = [page EXCEPT !["sender"] = [Failed(@) EXCEPT !.selected = FALSE]]
    /\ UNCHANGED <<session, tasks, wire, row, forwarded, troubles>>

\* The server's side of cancel and reject: the row ends and the other page is
\* told, or the request fails; the page may not learn that it succeeded.
EndsRow(i, ok, error) ==
    /\ Trouble
    /\ \/ /\ Live
          /\ row' = "ended"
          /\ wire' = [wire EXCEPT ![Other(i)] = Append(@, Signal("transfer_ended"))]
          /\ \E answer \in {ok, error} : page' = [page EXCEPT ![i].busy = answer]
       \/ /\ page' = [page EXCEPT ![i].busy = error]
          /\ UNCHANGED <<row, wire>>
    /\ UNCHANGED <<session, tasks, forwarded>>

Cancel(i) ==
    /\ page[i].listed = "offered" /\ page[i].busy = "no" /\ ~RunHasEnded(page[i])
    /\ EndsRow(i, "cancel", "cancel_error")

Reject ==
    /\ page["recipient"].listed = "offered" /\ page["recipient"].busy = "no"
    /\ EndsRow("recipient", "reject", "reject_error")

\* The end of cleanupTransferRuntime: everything about the transfer is let go.
CleanedUp(i, p) ==
    LET kept == IF p.held THEN LetGo(p, session[i], Close(session[i])) ELSE p IN
    /\ page' = [page EXCEPT ![i] =
           [kept EXCEPT
                     !.cleaning = FALSE, !.busy = "no", !.held = FALSE, !.queued = << >>,
                     !.engine = IF NoEngine(p) THEN @ ELSE "over",
                     !.selected = FALSE, !.sent = FALSE, !.run = "cancelled"]]
    /\ session' = [session EXCEPT ![i] = IF p.held THEN Close(@) ELSE @]

\* The answer to cancel or reject.  A live engine first tells its peer.
Answered(i) ==
    LET p == page[i]
        q == [p EXCEPT !.cancelled = TRUE, !.cleaning = TRUE,
                       !.listed = IF p.busy = "cancel_error" THEN @ ELSE "ended"]
    IN
    /\ ~p.cleaning
    /\ \/ /\ p.busy = "reject_error"
          /\ page' = [page EXCEPT ![i].busy = "no"]
          /\ UNCHANGED session
       \/ /\ p.busy \in {"cancel", "cancel_error", "reject"}
          /\ IF p.engine = "live"
             THEN page' = [page EXCEPT ![i] = q] /\ UNCHANGED session
             ELSE CleanedUp(i, q)
    /\ UNCHANGED <<tasks, wire, row, forwarded, troubles>>

EngineRejected(i) ==
    /\ page[i].cleaning
    /\ CleanedUp(i, page[i])
    /\ UNCHANGED <<tasks, wire, row, forwarded, troubles>>

\* The engine of another transfer reserves the recipient's slot.
SlotTaken ==
    /\ page["recipient"].engine # "live"
    /\ page' = [page EXCEPT !["recipient"].taken = TRUE]
    /\ Trouble
    /\ UNCHANGED <<session, tasks, wire, row, forwarded>>

\* refresh: a new page knows only what the server lists.
Listed == IF Live THEN "offered" ELSE "ended"

\* The browser loads the page again: nothing of the old one is left.
Reload(i) ==
    /\ row # "none"
    /\ page' = [page EXCEPT ![i] = [NewPage EXCEPT !.reloaded = TRUE, !.listed = Listed]]
    /\ session' = [session EXCEPT ![i] = NoSession]
    /\ tasks' = [tasks EXCEPT ![i] = {}]
    /\ wire' = [wire EXCEPT ![i] = << >>]
    /\ Trouble
    /\ UNCHANGED <<row, forwarded>>

\* The clean-up of the effect, when the account view goes away: the socket is
\* stopped, engines are disposed of and sessions closed, and the list of cancelled
\* transfers is emptied.  Creations that wait for their look-ups go on.
Unmount(i) ==
    LET p == page[i]
        kept == IF p.held THEN LetGo(p, session[i], Close(session[i])) ELSE p
    IN
    /\ row # "none" /\ p.mounted
    /\ page' = [page EXCEPT ![i] =
           [NewPage EXCEPT !.reloaded = TRUE, !.mounted = FALSE,
                           !.ghosts = p.ghosts + Len(p.loads), !.strays = kept.strays]]
    /\ session' = [session EXCEPT ![i] = NoSession]
    /\ tasks' = [tasks EXCEPT ![i] = {}]
    /\ Trouble
    /\ UNCHANGED <<wire, row, forwarded>>

\* Such a creation makes a session that no page holds and whose socket is stopped,
\* or it fails.
GhostCreated(i) ==
    LET p == page[i] IN
    /\ p.ghosts > 0
    /\ \E strays \in {p.strays, p.strays \cup {"unmounted"}} :
          page' = [page EXCEPT ![i] = [p EXCEPT !.ghosts = p.ghosts - 1, !.strays = strays]]
    /\ UNCHANGED <<session, tasks, wire, row, forwarded, troubles>>

\* The view comes back with a new page; what was sent meanwhile is gone.
Mount(i) ==
    /\ ~page[i].mounted
    /\ page' = [page EXCEPT ![i] = [@ EXCEPT !.mounted = TRUE, !.listed = Listed]]
    /\ wire' = [wire EXCEPT ![i] = << >>]
    /\ UNCHANGED <<session, tasks, row, forwarded, troubles>>

\* The presence socket is lost and comes back: what was under way is gone.
SocketDrops(i) ==
    /\ wire[i] # << >>
    /\ wire' = [wire EXCEPT ![i] = << >>]
    /\ Trouble
    /\ UNCHANGED <<page, session, tasks, row, forwarded>>

\* The server finds the offer expired and tells both.
Expire ==
    /\ Live
    /\ row' = "expired"
    /\ wire' = [i \in Sides |-> Append(wire[i], Signal("transfer_ended"))]
    /\ Trouble
    /\ UNCHANGED <<page, session, tasks, forwarded>>

(***************************************************************************)
(* The specification.  Code that was resumed runs, requests are answered,  *)
(* messages arrive and a connection that can be made is made: those steps  *)
(* are fair.  Users, faults, reloads and timers are not.                   *)
(***************************************************************************)
PageStep(i) ==
    \/ Deliver(i) \/ CreationDone(i) \/ Drive(i)
    \/ Applied(i) \/ Flushes(i) \/ Gathers(i) \/ ChannelOpens(i) \/ ChannelCloses(i)
    \/ Answered(i) \/ EngineRejected(i)

Handshake == OfferCreated \/ OfferMade \/ Answers \/ StartsNegotiation \/ SendsOffer \/ SendsAnswer

Next ==
    \/ CreateOffer \/ Handshake \/ SelectFile \/ SelectTooLarge \/ Reject \/ Expire \/ SlotTaken
    \/ \E i \in Sides :
        \/ PageStep(i) \/ Connects(i) \/ CreationFails(i) \/ CheckFails(i) \/ ConnectionFails(i)
        \/ HearsCancel(i) \/ NegotiationTimeout(i) \/ Cancel(i) \/ Reload(i) \/ SocketDrops(i)
        \/ Unmount(i) \/ GhostCreated(i) \/ Mount(i)

Spec == Init /\ [][Next]_vars

FairSpec ==
    /\ Spec
    /\ WF_vars(Handshake)
    /\ \A i \in Sides : WF_vars(PageStep(i))

(***************************************************************************)
(* Properties.                                                             *)
(***************************************************************************)
\* A page loses sight of an open peer connection in two cases only: the other end
\* has closed the channel, so that close() takes the session for closed and returns,
\* or the connection was made after the page went away.  In particular the offer
\* notice and the first signal, which both ask for a session while the look-ups are
\* under way, get the same one from createTestSession().
OneSession == \A i \in Sides : page[i].strays \subseteq {"closed", "unmounted"}

\* Once cleanupTransferRuntime() is through, the page has no session, no live
\* engine and no open channel for the transfer, and none appears later, whatever
\* look-up, key derivation or signal was under way when the user gave up.
GoneAfterCleanup ==
    \A i \in Sides :
        page[i].cancelled /\ ~page[i].cleaning =>
            /\ ~page[i].held
            /\ page[i].engine # "live"
            /\ session[i].channel # "open"

\* No candidate is forgotten between the queue and the connection: what a session
\* took is waiting, being flushed or added, and none waits once the remote
\* description is set.  Only a flush that broke off, which takes a candidate that
\* addIceCandidate() rejects or a closed connection, loses any.
CandidatesKept ==
    \A i \in Sides :
        LET s == session[i] IN
        /\ s.received = s.pending \cup s.flush \cup s.added \cup s.lost
        /\ s.remote => s.pending = {}
        /\ s.flush # {} => "flushing" \in tasks[i]
        /\ s.lost # {} => troubles > 0

\* A page that was there from the start has its engine listening as soon as the
\* channel is open, so that frames the peer sends at once are not lost; or the
\* constructor has refused because the slot is taken, and the page says so.
EngineListens ==
    \A i \in Sides :
        LET p == page[i] IN
        session[i].channel = "open" /\ ~p.reloaded =>
            \/ p.engine \in {"live", "over"}
            \/ p.engine = "refused" /\ p.taken /\ p.run \in {"failed", "cancelled"}

\* Unless something fails or someone gives up, both pages of an offer come to have
\* an engine on an open channel, in whatever order notices, signals, candidates
\* and look-ups arrive.
BothConnect ==
    (row = "offered") ~> (troubles > 0 \/ \A i \in Sides : page[i].engine = "live")

=============================================================================
