------------------------------ MODULE Sessions ------------------------------
(***************************************************************************)
(* The life of the sessions of one device: repositories/sessions.py,       *)
(* sessions.py and session_api.py (creation, authentication with its       *)
(* touch, CSRF secrets, rotation, logout), the WebSocket tickets bought    *)
(* with a session (repositories/websocket_tickets.py and the route and     *)
(* socket of presence.py), the deletion of old rows                        *)
(* (repositories/cleanup.py), and the device that is logged out, by itself *)
(* or by another one, and enrolled again.                                  *)
(*                                                                         *)
(* A request advances by one SQL statement at a time; what Python does     *)
(* between two awaits belongs to the statement before it, what it does     *)
(* before the first statement to that statement.  A statement that makes a *)
(* session, a ticket or a CSRF secret is two steps: it reads the device    *)
(* and the session in its snapshot, without locking what it only reads,    *)
(* and writes later.  Any request may be given up before its next step,    *)
(* also because the answer to the last one was lost (a timeout).  The      *)
(* snapshot and the reading of the clock are one moment, but the clock     *)
(* moves between statements and during the transaction of a clean-up,      *)
(* whose CURRENT_TIMESTAMP is that of its start.                           *)
(***************************************************************************)
EXTENDS Naturals, FiniteSets

CONSTANTS
    Ids,            \* identifiers of session rows
    Tickets,        \* identifiers of ticket rows
    Workers,        \* requests served at the same time
    IdleLife,       \* SESSION_IDLE_LIFETIME, 30 days
    AbsoluteLife,   \* SESSION_ABSOLUTE_LIFETIME, 90 days
    TicketLife,     \* WEBSOCKET_TICKET_LIFETIME
    Retention,      \* how long a finished session is kept, 7 days
    Batch,          \* batch_size of a clean-up
    MaxTime,        \* bound: the clock stops here
    MaxSecrets      \* bound: CSRF secrets replaced, over all sessions

ASSUME SessionBounds ==
    /\ {IdleLife, AbsoluteLife, TicketLife, Batch} \subseteq Nat \ {0}
    /\ {Retention, MaxTime, MaxSecrets} \subseteq Nat

Nobody == "none"

ASSUME NobodyAssumption == Nobody \notin Ids

VARIABLES
    now,        \* the clock, of the database and of the application
    device,     \* status of the device: "active", or "out" after a logout
    session,    \* private.app_sessions
    ticket,     \* private.websocket_tickets
    worker,     \* the requests under way
    given,      \* how many CSRF secrets of a session were handed out
    heirs,      \* how often a rotation went on to replace a session
    sockets     \* how many sockets a ticket let in

vars == <<now, device, session, ticket, worker, given, heirs, sockets>>

Least(a, b) == IF a <= b THEN a ELSE b

(***************************************************************************)
(* Rows.  `ended' is revoked_at of a revoked session.  `root' is not a     *)
(* column: the absolute deadline of the login a session goes back to.      *)
(***************************************************************************)
Row(state, idle, absolute, root) ==
    [state |-> state, idle |-> idle, absolute |-> absolute, ended |-> 0, csrf |-> 0, root |-> root]

NoRow == Row("none", 0, 0, 0)
DeletedRow == Row("deleted", 0, 0, 0)

Pass(state, s, expires) == [state |-> state, session |-> s, expires |-> expires]
DeletedPass == Pass("deleted", Nobody, 0)

\* A request: the statement it is at, what it is for, the session, the ticket, the
\* number it carries (its CSRF value, then the expiry of the ticket it buys) and
\* the row it has read or made.
Request(at, op, s, token, rec) ==
    [at |-> at, op |-> op, s |-> s, k |-> Nobody, token |-> token, rec |-> rec]

Idle == Request("idle", "none", Nobody, 0, NoRow)

Init ==
    /\ now = 0
    /\ device = "active"
    /\ session = [s \in Ids |-> NoRow]
    /\ ticket = [k \in Tickets |-> Pass("none", Nobody, 0)]
    /\ worker = [w \in Workers |-> Idle]
    /\ given = [s \in Ids |-> 0]
    /\ heirs = [s \in Ids |-> 0]
    /\ sockets = [k \in Tickets |-> 0]

UsableAnywhere(r) == r.state = "live" /\ r.idle > now /\ r.absolute > now

(***************************************************************************)
(* What the statements ask of a row: not revoked, neither deadline past,   *)
(* and its device active (there is one account, whose epoch is fixed).     *)
(***************************************************************************)
Usable(r) == r.state = "live" /\ r.idle > now /\ r.absolute > now /\ device = "active"

\* _is_current: the same deadlines, by the application's clock.
IsCurrent(r) == r.state = "live" /\ r.idle > now /\ r.absolute > now

TouchableExpired(r) == r.state = "live" /\ r.absolute > now /\ device = "active"

\* The WHERE clause of touch_last_seen.
Touchable(r) == Usable(r)

\* LEAST(CURRENT_TIMESTAMP + interval '30 days', absolute_expires_at)
Touched(r) == [r EXCEPT !.idle = Least(now + IdleLife, r.absolute)]

\* Of a revoked row only revoked_at is read again.
RevokedRow == [Row("revoked", 0, 0, 0) EXCEPT !.ended = now]

Replaced(r, secret) == [r EXCEPT !.csrf = secret]

(***************************************************************************)
(* A request goes on or is over, answered or refused.                      *)
(***************************************************************************)
Goes(w, next) == worker' = [worker EXCEPT ![w] = next]
Refuse(w) == Goes(w, Idle)

\* The request fails before its next statement: a timeout, a lost connection.
Abandon(w) ==
    /\ worker[w].at # "idle"
    /\ Refuse(w)
    /\ UNCHANGED <<now, device, session, ticket, given, heirs, sockets>>

(***************************************************************************)
(* SessionService.prepare and create: deadlines are computed first, then   *)
(* the INSERT ... SELECT asks for an active device in its snapshot; a      *)
(* logout that commits before the INSERT does is not seen by it.           *)
(***************************************************************************)
IdsLeft == \E s \in Ids : session[s].state = "none"
TicketsLeft == \E k \in Tickets : ticket[k].state = "none"

Prepared(absolute) == Row("live", Least(now + IdleLife, absolute), absolute, absolute)

Inserts(w, r) ==
    IF device = "active" THEN Goes(w, Request("commit", "create", Nobody, 0, r)) ELSE Refuse(w)

Login(w) ==
    /\ worker[w].at = "idle" /\ IdsLeft
    /\ Inserts(w, Prepared(now + AbsoluteLife))
    /\ UNCHANGED <<now, device, session, ticket, given, heirs, sockets>>

Commit(w) ==
    /\ worker[w].at = "commit"
    /\ \E s \in Ids :
        /\ session[s].state = "none"
        /\ session' = [session EXCEPT ![s] = worker[w].rec]
    /\ Refuse(w)
    /\ UNCHANGED <<now, device, ticket, given, heirs, sockets>>

(***************************************************************************)
(* A request with the cookie of a session: the current session (a GET), a  *)
(* ticket, a rotation or a logout (which carry a CSRF value).  The cookie  *)
(* of a row that is deleted or no longer usable finds nothing.             *)
(***************************************************************************)
Operations == {"current", "ticket", "rotate", "logout"}

\* What a request reads again of a row it has read.
Kept(op, r) == IF op = "rotate" THEN r ELSE [NoRow EXCEPT !.csrf = r.csrf]

\* find_by_token_hash, and what authenticate() checks itself.
Find(w) ==
    /\ worker[w].at = "idle"
    /\ \E s \in Ids, op \in Operations :
        /\ Usable(session[s]) /\ IsCurrent(session[s])
        /\ op = "ticket" => TicketsLeft
        /\ op = "rotate" => IdsLeft
        /\ \E token \in 0 .. given[s] :
            /\ op = "current" => token = given[s]
            /\ Goes(w, Request("touch", op, s, token, Kept(op, session[s])))
    /\ UNCHANGED <<now, device, session, ticket, given, heirs, sockets>>

\* require_session_csrf: every request but the look-up carries the secret.
CsrfPasses(req, r) == req.op = "current" \/ req.token = r.csrf

\* touch_last_seen: a session that ended meanwhile is not touched, and the
\* request goes on with the row it has read before.
Touch(w) ==
    LET req == worker[w]
        touched == Touchable(session[req.s])
        r == IF touched THEN Touched(session[req.s]) ELSE req.rec
    IN
    /\ req.at = "touch"
    /\ session' = IF touched THEN [session EXCEPT ![req.s] = r] ELSE session
    /\ IF CsrfPasses(req, r)
       THEN Goes(w, Request("act", req.op, req.s, 0, IF req.op = "rotate" THEN r ELSE NoRow))
       ELSE Refuse(w)
    /\ UNCHANGED <<now, device, ticket, given, heirs, sockets>>

Acts(w, op) == worker[w].at = "act" /\ worker[w].op = op

MayReplace == Cardinality({ x \in Ids \X (1 .. MaxSecrets) : x[2] <= given[x[1]] }) < MaxSecrets

\* reissue_csrf: secrets are numbered in the order they are made.
NewSecret(s) == given[s] + 1

\* A request that passed the last check of its operation and has still to write.
Passes(w, next) == Goes(w, [worker[w] EXCEPT !.at = next])

\* current_session: every look-up replaces the secret.
CurrentSession(w) ==
    /\ Acts(w, "current")
    /\ IF Usable(session[worker[w].s]) THEN Passes(w, "replace") ELSE Refuse(w)
    /\ UNCHANGED <<now, device, session, ticket, given, heirs, sockets>>

\* The UPDATE gets the lock of its row, and looks at the row again.
ReplaceSecret(w) ==
    LET s == worker[w].s IN
    /\ worker[w].at = "replace"
    /\ IF IsCurrent(session[s])
       THEN /\ MayReplace
            /\ session' = [session EXCEPT ![s] = Replaced(@, NewSecret(s))]
            /\ given' = [given EXCEPT ![s] = NewSecret(s)]
       ELSE UNCHANGED <<session, given>>
    /\ Refuse(w)
    /\ UNCHANGED <<now, device, ticket, heirs, sockets>>

\* The WHERE clause of the INSERT ... SELECT.
BuysTicket(s) == Usable(session[s])

\* WebSocketTicketService.issue computes the expiry before the INSERT.
IssueTicket(w) ==
    /\ Acts(w, "ticket")
    /\ IF BuysTicket(worker[w].s)
       THEN Goes(w, [worker[w] EXCEPT !.at = "buy", !.token = now + TicketLife])
       ELSE Refuse(w)
    /\ UNCHANGED <<now, device, session, ticket, given, heirs, sockets>>

\* The row is there, unless its session was deleted meanwhile.
InsertTicket(w) ==
    /\ worker[w].at = "buy"
    /\ IF session[worker[w].s].state # "deleted"
       THEN \E k \in Tickets :
                /\ ticket[k].state = "none"
                /\ ticket' = [ticket EXCEPT ![k] = Pass("issued", worker[w].s, worker[w].token)]
       ELSE UNCHANGED ticket
    /\ Refuse(w)
    /\ UNCHANGED <<now, device, session, given, heirs, sockets>>

RevocableAlways(r) == r.state \in {"live", "revoked"}

\* The WHERE clause of revoke.
Revocable(r) == r.state = "live"

Inherited(rec) == rec.absolute

\* SessionService.rotate: revoke, then create with the same absolute deadline.
Rotate(w) ==
    LET req == worker[w]
        heir == [Prepared(Inherited(req.rec)) EXCEPT !.root = req.rec.root]
    IN
    /\ Acts(w, "rotate")
    /\ IF req.rec.absolute > now /\ Revocable(session[req.s])
       THEN /\ session' = [session EXCEPT ![req.s] = RevokedRow]
            /\ heirs' = [heirs EXCEPT ![req.s] = @ + 1]
            /\ Goes(w, Request("insert", "create", Nobody, 0, heir))
       ELSE UNCHANGED <<session, heirs>> /\ Refuse(w)
    /\ UNCHANGED <<now, device, ticket, given, sockets>>

InsertHeir(w) ==
    /\ worker[w].at = "insert"
    /\ Inserts(w, worker[w].rec)
    /\ UNCHANGED <<now, device, session, ticket, given, heirs, sockets>>

\* logout_with_sessions: the device and its sessions, in one transaction.
LogsOut ==
    /\ device' = "out"
    /\ session' = [s \in Ids |-> IF Revocable(session[s]) THEN RevokedRow ELSE session[s]]

\* logout
Logout(w) ==
    /\ Acts(w, "logout")
    /\ LogsOut
    /\ Refuse(w)
    /\ UNCHANGED <<now, ticket, given, heirs, sockets>>

\* logout_device, asked by another device of the account.
LogoutByOther ==
    /\ LogsOut
    /\ UNCHANGED <<now, ticket, worker, given, heirs, sockets>>

\* register_for_email: the same browser signs in by e-mail again.
EnrolAgain ==
    /\ device = "out"
    /\ device' = "active"
    /\ UNCHANGED <<now, session, ticket, worker, given, heirs, sockets>>

(***************************************************************************)
(* The socket: the ticket is consumed, then its session looked up again.   *)
(***************************************************************************)
ConsumableTwice(t) == t.state \in {"issued", "consumed"} /\ t.expires > now /\ Usable(session[t.session])

\* The WHERE clause of consume_for_socket.
Consumable(t) == t.state = "issued" /\ t.expires > now /\ Usable(session[t.session])

Consume(w) ==
    /\ worker[w].at = "idle"
    /\ \E k \in Tickets :
        /\ Consumable(ticket[k])
        /\ ticket' = [ticket EXCEPT ![k].state = "consumed"]
        /\ Goes(w, [Request("lookup", "socket", ticket[k].session, 0, NoRow) EXCEPT !.k = k])
    /\ UNCHANGED <<now, device, session, given, heirs, sockets>>

\* find_current_by_id
LookUp(w) ==
    /\ worker[w].at = "lookup"
    /\ IF Usable(session[worker[w].s]) THEN Passes(w, "admit") ELSE Refuse(w)
    /\ UNCHANGED <<now, device, session, ticket, given, heirs, sockets>>

\* The socket is accepted and registered; what becomes of it is in Presence.
Admit(w) ==
    /\ worker[w].at = "admit"
    /\ sockets' = [sockets EXCEPT ![worker[w].k] = @ + 1]
    /\ Refuse(w)
    /\ UNCHANGED <<now, device, session, ticket, given, heirs>>

(***************************************************************************)
(* cleanup_expired: one transaction, a batch of the oldest rows per table; *)
(* the tickets of a deleted session go with it.                            *)
(***************************************************************************)
EndOf(r) == IF r.state = "revoked" THEN r.ended ELSE Least(r.idle, r.absolute)

SessionDueAtOnce(r, began) ==
    \/ r.state = "revoked"
    \/ r.state = "live" /\ EndOf(r) + Retention <= began

SessionDue(r, began) == r.state \in {"live", "revoked"} /\ EndOf(r) + Retention <= began

TicketDue(t, began) ==
    \/ t.state = "consumed"
    \/ t.state = "issued" /\ t.expires <= began

\* ORDER BY COALESCE(revoked_at, absolute_expires_at)
Age(r) == IF r.state = "revoked" THEN r.ended ELSE r.absolute

SessionBatches(began) ==
    LET due == { s \in Ids : SessionDue(session[s], began) } IN
    { D \in SUBSET due :
        /\ Cardinality(D) = Least(Batch, Cardinality(due))
        /\ \A d \in D, o \in due \ D : Age(session[d]) <= Age(session[o]) }

\* The order within a batch of tickets is left open.
TicketBatches(D, began) ==
    LET due == { k \in Tickets : TicketDue(ticket[k], began) /\ ticket[k].session \notin D } IN
    { E \in SUBSET due : Cardinality(E) = Least(Batch, Cardinality(due)) }

\* The commit of a clean-up that began at some earlier time; one that fails has
\* no effect.
Cleanup ==
    /\ \E began \in 0 .. now : \E D \in SessionBatches(began) : \E E \in TicketBatches(D, began) :
        /\ session' = [s \in Ids |-> IF s \in D THEN DeletedRow ELSE session[s]]
        /\ ticket' = [k \in Tickets |->
               IF k \in E \/ ticket[k].session \in D THEN DeletedPass ELSE ticket[k]]
    /\ UNCHANGED <<now, device, worker, given, heirs, sockets>>

Tick ==
    /\ now < MaxTime
    /\ now' = now + 1
    /\ UNCHANGED <<device, session, ticket, worker, given, heirs, sockets>>

Step(w) ==
    \/ Login(w) \/ Commit(w)
    \/ Find(w) \/ Touch(w)
    \/ CurrentSession(w) \/ ReplaceSecret(w) \/ IssueTicket(w) \/ InsertTicket(w)
    \/ Rotate(w) \/ InsertHeir(w) \/ Logout(w)
    \/ Consume(w) \/ LookUp(w) \/ Admit(w)
    \/ Abandon(w)

Next == Tick \/ Cleanup \/ LogoutByOther \/ EnrolAgain \/ \E w \in Workers : Step(w)

Spec == Init /\ [][Next]_vars

(***************************************************************************)
(* Properties.                                                             *)
(***************************************************************************)
\* The session can authenticate nobody, whatever its device does.
Over(r) == r.state # "live" \/ r.idle <= now \/ r.absolute <= now

\* A session that is over stays over: no touch, secret, rotation or clean-up that
\* was under way when it was revoked or ran out brings it back, though
\* authenticate() touches it in a later statement than it reads it, and no
\* enrolment of the device either.  (A session whose INSERT raced with a logout
\* was not revoked by it, and works again when the device is enrolled again.)
OverStaysOver ==
    [][\A s \in Ids : session[s].state # "none" /\ Over(session[s]) => Over(session[s])']_vars

\* A ticket lets one socket pass, whatever requests race for it, however answers
\* are lost, and after its row is deleted.
TicketOnce == \A k \in Tickets : sockets[k] <= 1

\* The requests that have their last check behind them and something to get.
Granted == {w \in Workers : worker[w].at \in {"commit", "replace", "buy", "admit"}}

\* What requests get: sessions, CSRF secrets, tickets, sockets.
Obtained ==
    <<{s \in Ids : session[s].state # "none"}, given,
      {k \in Tickets : ticket[k].state # "none"}, sockets>>

\* While the device is logged out no request passes its last check any more, not
\* even with a session whose INSERT raced with the logout and which the logout
\* did not revoke; and a session, a CSRF secret, a ticket or a socket is got only
\* by a request that had passed it before, each of which gets one thing and ends.
NothingAfterLogout ==
    [][device = "out" =>
        /\ Granted' \subseteq Granted
        /\ Obtained' # Obtained => \E w \in Granted : Granted' = Granted \ {w}]_vars

\* Rotation makes a line of sessions: none is replaced twice, and none outlives
\* the 90 days of the login it goes back to, although every touch moves its idle
\* deadline on (which a CHECK of app_sessions keeps below the absolute one).
RotationLine ==
    \A s \in Ids :
        /\ heirs[s] <= 1
        /\ session[s].idle <= session[s].absolute
        /\ session[s].absolute <= session[s].root

\* The clean-up takes a session only after its retention, and no ticket that could
\* still open a socket disappears, neither by its own query nor by the cascade.
CleanupSpares ==
    [][/\ \A s \in Ids :
            session[s].state # "deleted" /\ session'[s].state = "deleted" =>
                EndOf(session[s]) + Retention <= now
       /\ \A k \in Tickets :
            ticket[k].state = "issued" /\ ticket'[k].state = "deleted" =>
                \/ ticket[k].expires <= now
                \/ Over(session[ticket[k].session])]_vars

=============================================================================
