------------------------------ MODULE Signaling ------------------------------
(***************************************************************************)
(* The WebSocket side of a transfer: PresenceManager.forward_signaling and *)
(* the budgets it charges, composed with the HTTP handlers of              *)
(* TransferControl that release them.  A socket's coroutine handles its    *)
(* messages one at a time, but several sockets (two devices, or a device   *)
(* that reconnected) interleave, with each other and with the handlers, at *)
(* the two database calls and at the delivery.                             *)
(*                                                                         *)
(* The manager's own lock is never held across an await, so the code       *)
(* between two awaits is one step.                                         *)
(***************************************************************************)
EXTENDS TransferControl

CONSTANTS
    Sockets,          \* sockets that may be open at once
    Kinds,            \* the kinds of message the sockets of this run send
    MaxCandidates,    \* MAX_SIGNALING_ICE_CANDIDATES
    MaxPerTransfer,   \* MAX_SIGNALING_MESSAGES
    MaxPerAccount,    \* MAX_SIGNALING_MESSAGES_PER_ACCOUNT
    Retention,        \* SIGNALING_STATE_RETENTION, in clock units
    MaxRestarts       \* bound: restarts of the server in this run

OfferKinds == {"sdp_offer", "handshake_offer"}
AnswerKinds == {"sdp_answer", "handshake_answer"}
SingleUseKinds == OfferKinds \cup AnswerKinds
SignalKinds == SingleUseKinds \cup {"ice_candidate"}

ASSUME KindsAssumption == Kinds \subseteq SignalKinds

ASSUME BudgetAssumption ==
    /\ MaxCandidates \in Nat
    /\ MaxPerTransfer \in Nat
    /\ MaxPerAccount \in Nat

\* SIGNALING_STATE_RETENTION is chosen longer than TRANSFER_REQUEST_LIFETIME.
ASSUME RetentionAssumption == Retention \in Nat /\ Retention > Lifetime

ASSUME RestartsAssumption == MaxRestarts \in Nat

VARIABLES
    usage,      \* PresenceManager._signaling
    acct,       \* PresenceManager._signaling_account_totals of the account
    sock,       \* the coroutines serving sockets
    forwarded,  \* single-use messages handed to the peer, per transfer and device
    restarts    \* restarts so far

sigVars == <<usage, acct, sock, forwarded, restarts>>
allVars == <<vars, sigVars>>

-----------------------------------------------------------------------------
(* Budgets *)

ZeroCounts == [d \in Devices |-> [k \in SignalKinds |-> 0]]

NoUsage == [held |-> FALSE, updated_at |-> 0, total |-> 0, counts |-> ZeroCounts]

\* The messages charged to a set of transfers, and those of one transfer by
\* device and kind, one element for each: counting them adds the totals up.
ChargedTo(ts) == UNION {{t} \X (1..usage[t].total) : t \in ts}

SentFor(t) == UNION {{<<d, k>>} \X (1..usage[t].counts[d][k]) : d \in Devices, k \in SignalKinds}

\* Mutant: the account's total is left as it was.
ReleaseUsageOnly(ts) ==
    /\ usage' = [t \in Transfers |-> IF t \in ts THEN NoUsage ELSE usage[t]]
    /\ UNCHANGED acct

\* _release_signaling() for each transfer of a set.
ReleaseUsage(ts) ==
    LET freed == Cardinality(ChargedTo(ts)) IN
    /\ usage' = [t \in Transfers |-> IF t \in ts THEN NoUsage ELSE usage[t]]
    /\ acct' = IF acct > freed THEN acct - freed ELSE 0

\* Mutant: the retention time is forgotten.
StaleAtOnce == {t \in Transfers : usage[t].held /\ usage[t].updated_at < now}

\* _prune_signaling_state(): entries not charged for the retention time.
Stale == {t \in Transfers : usage[t].held /\ usage[t].updated_at + Retention <= now}

Prune == ReleaseUsage(Stale)

Maximum(k) == IF k \in SingleUseKinds THEN 1 ELSE MaxCandidates

\* The entry _record_signaling_use() works on: a missing one is created first,
\* and stays even when the charge is then refused.
Entry(t) == IF usage[t].held THEN usage[t]
            ELSE [NoUsage EXCEPT !.held = TRUE, !.updated_at = now]

Affordable(t, d, k) ==
    /\ Entry(t).counts[d][k] < Maximum(k)
    /\ Entry(t).total < MaxPerTransfer
    /\ acct < MaxPerAccount

ChargedEntry(t, d, k) ==
    [Entry(t) EXCEPT !.counts[d][k] = @ + 1, !.total = @ + 1, !.updated_at = now]

-----------------------------------------------------------------------------
(* Sockets *)

ClosedSocket == [pc |-> "closed", dev |-> None, t |-> None, kind |-> None,
                 seen |-> "none"]

SocketGoto(s, pc) == sock' = [sock EXCEPT ![s].pc = pc]

\* forward_signaling() returned True: the socket waits for its next message.
NextMessage(s) ==
    sock' = [sock EXCEPT ![s] = [ClosedSocket EXCEPT !.pc = "open", !.dev = sock[s].dev]]

\* It returned False, or raised: _serve_connection() ends and the socket closes.
CloseSocket(s) == sock' = [sock EXCEPT ![s] = ClosedSocket]

Open(s) ==
    /\ sock[s].pc = "closed"
    /\ \E d \in active :
         sock' = [sock EXCEPT ![s] = [ClosedSocket EXCEPT !.pc = "open", !.dev = d]]
    /\ UNCHANGED <<vars, usage, acct, forwarded, restarts>>

\* The peer hangs up, is replaced, times out or sends something malformed.
Hangup(s) ==
    /\ sock[s].pc = "open"
    /\ CloseSocket(s)
    /\ UNCHANGED <<vars, usage, acct, forwarded, restarts>>

Receive(s) ==
    /\ sock[s].pc = "open"
    /\ \E t \in Transfers, k \in Kinds :
         sock' = [sock EXCEPT ![s].pc = "read", ![s].t = t, ![s].kind = k]
    /\ Prune
    /\ UNCHANGED <<vars, forwarded, restarts>>

\* repository.get_by_id(): the row as the database sees it at this moment.
ReadTransfer(s) ==
    /\ sock[s].pc = "read"
    /\ sock' = [sock EXCEPT ![s].pc = "resume", ![s].seen = transfer[sock[s].t].status]
    /\ UNCHANGED <<vars, usage, acct, forwarded, restarts>>

\* The sender offers, the recipient answers, both send candidates.
RoleAllows(d, t, k) ==
    CASE k \in OfferKinds -> d = transfer[t].sender
      [] k \in AnswerKinds -> d = transfer[t].recipient
      [] OTHER -> d \in Participants(t)

Charge(s) ==
    LET t == sock[s].t
        d == sock[s].dev
        k == sock[s].kind
    IN IF Affordable(t, d, k)
       THEN /\ usage' = [usage EXCEPT ![t] = ChargedEntry(t, d, k)]
            /\ acct' = acct + 1
            /\ SocketGoto(s, "send")
       ELSE /\ usage' = [usage EXCEPT ![t] = Entry(t)]
            /\ UNCHANGED acct
            /\ CloseSocket(s)

\* The coroutine goes on with the row it was given: it drops the budget of a
\* transfer that is over, refuses a message whose version, devices or expiry
\* do not fit the row, the wrong role or status, asks for mark_negotiating() on
\* the first offer after the acceptance, or charges.
ResumeWith(s) ==
    LET t == sock[s].t
        seen == sock[s].seen
    IN /\ sock[s].pc = "resume"
       /\ CASE seen = "none" ->
                 CloseSocket(s) /\ UNCHANGED <<usage, acct>>
            [] seen # "none" /\ (seen \notin ActiveStatuses \/ transfer[t].expires_at <= now) ->
                 CloseSocket(s) /\ ReleaseUsage({t})
            [] seen \in ActiveStatuses /\ transfer[t].expires_at > now ->
                 \E fits \in BOOLEAN :
                 IF \/ ~fits
                    \/ seen \notin {"offered", "accepted", "negotiating"}
                    \/ ~RoleAllows(sock[s].dev, t, sock[s].kind)
                 THEN CloseSocket(s) /\ UNCHANGED <<usage, acct>>
                 ELSE IF seen = "accepted" /\ sock[s].kind \in OfferKinds
                 THEN SocketGoto(s, "negotiate") /\ UNCHANGED <<usage, acct>>
                 ELSE Charge(s)
       /\ UNCHANGED <<vars, forwarded, restarts>>

\* The UPDATE of mark_negotiating(); no row back means refusal.
NegotiateTakes(t) == transfer[t].status = "accepted" /\ transfer[t].expires_at > DbNow

\* Mutant: the status is written whatever it has become.
NegotiateBlind(s) ==
    /\ sock[s].pc = "negotiate"
    /\ transfer' = Updated(sock[s].t, "negotiating")
    /\ SocketGoto(s, "charge")
    /\ UNCHANGED <<now, active, req, lock, sent, usage, acct, forwarded, restarts>>

Negotiate(s) ==
    /\ sock[s].pc = "negotiate"
    /\ \/ MarkNegotiating(sock[s].t) /\ SocketGoto(s, "charge")
       \/ ~NegotiateTakes(sock[s].t) /\ CloseSocket(s) /\ UNCHANGED vars
    /\ UNCHANGED <<usage, acct, forwarded, restarts>>

ChargeAfter(s) ==
    /\ sock[s].pc = "charge"
    /\ Charge(s)
    /\ UNCHANGED <<vars, forwarded, restarts>>

\* send_to_device() to the other participant; it prunes on the way, and fails
\* when the peer has no socket or its queue is full.
Forward(s) ==
    /\ sock[s].pc = "send"
    /\ Prune
    /\ \/ /\ forwarded' = [forwarded EXCEPT ![sock[s].t][sock[s].dev][sock[s].kind] =
                             IF sock[s].kind \in SingleUseKinds /\ @ < 2 THEN @ + 1 ELSE @]
          /\ NextMessage(s)
       \/ CloseSocket(s) /\ UNCHANGED forwarded
    /\ UNCHANGED <<vars, restarts>>

SocketDbTimeout(s) ==
    /\ DbFails
    /\ sock[s].pc \in {"read", "negotiate"}
    /\ \/ UNCHANGED vars
       \/ sock[s].pc = "negotiate" /\ MarkNegotiating(sock[s].t)
    /\ CloseSocket(s)
    /\ UNCHANGED <<usage, acct, forwarded, restarts>>

-----------------------------------------------------------------------------
(* The handlers of TransferControl, with what they do to the budgets *)

\* TransferService._release(): release_transfer() of the manager.
ReleaseBudget(r) ==
    /\ Release(r)
    /\ ReleaseUsage({req[r].t})
    /\ UNCHANGED <<sock, forwarded, restarts>>

\* send_to_device() prunes before it looks the socket up.
Tell(r) ==
    /\ TellSender(r) \/ TellRecipient(r)
    /\ Prune
    /\ UNCHANGED <<sock, forwarded, restarts>>

Handler(r) ==
    /\ \/ Arrive(r) \/ DbTimeout(r)
       \/ Validate(r) \/ EnsureCapacity(r) \/ Insert(r)
       \/ Read(r) \/ Reread(r) \/ Expire(r) \/ Write(r)
       \/ ListAll(r) \/ ListEach(r)
    /\ UNCHANGED sigVars

\* The process stops: sockets, budgets and handlers are gone, the rows stay.
RestartAll ==
    /\ restarts < MaxRestarts
    /\ restarts' = restarts + 1
    /\ Restart
    /\ usage' = [t \in Transfers |-> NoUsage]
    /\ acct' = 0
    /\ sock' = [s \in Sockets |-> ClosedSocket]
    /\ UNCHANGED forwarded

-----------------------------------------------------------------------------

SigInit ==
    /\ Init
    /\ usage = [t \in Transfers |-> NoUsage]
    /\ acct = 0
    /\ sock = [s \in Sockets |-> ClosedSocket]
    /\ forwarded = [t \in Transfers |-> ZeroCounts]
    /\ restarts = 0

SigNext ==
    \/ \E r \in Requests : Handler(r) \/ ReleaseBudget(r) \/ Tell(r)
    \/ \E s \in Sockets :
         \/ Open(s) \/ Hangup(s) \/ Receive(s) \/ ReadTransfer(s) \/ ResumeWith(s)
         \/ Negotiate(s) \/ ChargeAfter(s) \/ Forward(s) \/ SocketDbTimeout(s)
    \/ \E d \in Devices : (Deactivate(d) \/ Activate(d)) /\ UNCHANGED sigVars
    \/ Tick /\ UNCHANGED sigVars
    \/ RestartAll

SigSpec == SigInit /\ [][SigNext]_allVars

-----------------------------------------------------------------------------
(* Properties *)

\* The account's total is exactly what its transfers hold and each transfer's
\* total what its devices sent, through every charge, release, prune and
\* restart, and neither passes its limit: a drift would refuse an account's
\* signaling for good, or stop bounding it.
BudgetExact ==
    /\ acct = Cardinality(ChargedTo(Transfers))
    /\ acct <= MaxPerAccount
    /\ \A t \in Transfers :
         /\ usage[t].total <= MaxPerTransfer
         /\ usage[t].total = Cardinality(SentFor(t))

\* SIGNALING_SINGLE_USE_MESSAGE_TYPES: within one life of the server, at most
\* one offer, answer, handshake offer and handshake answer of a device is
\* forwarded for a transfer while it is live.  Nothing in the code ties the
\* budgets' release to the transfer's life: this rests on the retention time
\* being longer than the lifetime, and on an ended transfer staying ended.
SingleUseWhileLive ==
    restarts = 0 =>
      \A t \in LiveAt(now), d \in Devices, k \in SingleUseKinds :
          forwarded[t][d][k] <= 1

\* The handlers keep what TransferControl shows of them: every step of the
\* composition is a step of TransferControl or leaves its state alone.
ControlSpec == Spec

=============================================================================
