--------------------------- MODULE TurnCredentials ---------------------------
(***************************************************************************)
(* TURN credentials for the two devices of one transfer: turn.py and the   *)
(* Cloudflare provider of adapters.py.  A request reads the transfer, its  *)
(* own device and the other device in three statements, charges four       *)
(* rate-limit buckets in one transaction and then calls the provider.      *)
(* RateLimits has that transaction, its races included; here its verdict   *)
(* is open.  Meanwhile the transfer may end and devices may log out and    *)
(* be enrolled again.  The account's epoch never changes in the code, so   *)
(* the comparisons of epochs always hold and are left out.                 *)
(***************************************************************************)
EXTENDS Naturals, FiniteSets, Sequences

CONSTANTS
    Devices,           \* devices of the account
    Sender, Recipient, \* the devices of the transfer
    Deadline,          \* expires_at of the transfer
    Payloads,          \* answers of the provider that are JSON
    MaxAsks,           \* bound: requests for credentials
    MaxClock           \* bound: the clock stops here

\* The requests, numbered as they come in.
Asks == 1..MaxAsks

\* Answers are sequences of servers, of any length.
ASSUME TurnAssumption ==
    /\ {Sender, Recipient} \subseteq Devices
    /\ Sender # Recipient
    /\ {Deadline, MaxAsks, MaxClock} \subseteq Nat
    /\ \A p \in Payloads : Len(p) \in Nat /\ DOMAIN p = 1..Len(p)

VARIABLES
    clock,      \* the time
    transfer,   \* "live": in one of the active statuses; "over"
    enrolled,   \* devices whose row is active
    ask         \* the requests

tvars == <<clock, transfer, enrolled, ask>>

-----------------------------------------------------------------------------
(* The provider's answer *)

\* The schemes of a server's URLs; "other" is none of stun, turn and turns.
UrlsUsable(urls) == urls # {} /\ "other" \notin urls

\* Mutant: the last server's login wins.
ReadServerLast(acc, s) ==
    IF ~acc.ok \/ ~UrlsUsable(s.urls) \/ s.login = "partial"
    THEN [acc EXCEPT !.ok = FALSE]
    ELSE [ok |-> TRUE,
          login |-> IF s.login = "absent" THEN acc.login ELSE s.login,
          turn |-> acc.turn \/ "turn" \in s.urls]

\* One round of the loop over iceServers; once not ok, an exception is on its
\* way.  A server is its URLs and its login: a pair of user name and credential,
\* "absent" when both are missing and "partial" when one is missing or empty.
ReadServer(acc, s) ==
    IF \/ ~acc.ok
       \/ ~UrlsUsable(s.urls)
       \/ s.login = "partial"
       \/ {s.login, acc.login} \cap {"absent"} = {} /\ s.login # acc.login
    THEN [acc EXCEPT !.ok = FALSE]
    ELSE [ok |-> TRUE,
          login |-> IF s.login = "absent" THEN acc.login ELSE s.login,
          turn |-> acc.turn \/ "turn" \in s.urls]

\* What is known after each of the servers.
Rounds(payload) ==
    LET after[i \in 0..Len(payload)] ==
            IF i = 0 THEN [ok |-> TRUE, login |-> "absent", turn |-> FALSE]
            ELSE ReadServer(after[i - 1], payload[i])
    IN  after

Parsed(payload) == Rounds(payload)[Len(payload)]

\* _parse_cloudflare_credentials returns instead of raising.
ParseAccepts(payload) ==
    LET end == Parsed(payload) IN end.ok /\ end.turn /\ end.login # "absent"

\* What a payload must be: every server has URLs and only supported ones, one of
\* them is a relay, no login is incomplete and all that are given are the same.
WellFormed(payload) ==
    LET servers == {payload[i] : i \in DOMAIN payload}
        logins == {s.login : s \in servers} \ {"absent"}
    IN  /\ \A s \in servers : s.urls # {} /\ "other" \notin s.urls
        /\ \E s \in servers : "turn" \in s.urls
        /\ "partial" \notin logins
        /\ Cardinality(logins) = 1

\* issue_credentials: no answer, an error status or no JSON; or a payload.  The
\* disabled provider never has an answer.  `payload' is kept for ParserIsExact.
Verdicts ==
    {[usable |-> FALSE, payload |-> "none"]} \cup
    {[usable |-> ParseAccepts(p), payload |-> IF WellFormed(p) THEN "good" ELSE "bad"] :
        p \in Payloads}

-----------------------------------------------------------------------------
(* A request *)

\* entitled: when it came in the transfer was live and both devices active, or
\* a device came back while it was served.
NewAsk == [at |-> "new", device |-> Sender, current |-> 0, actor |-> FALSE,
           entitled |-> FALSE, payload |-> "none"]

\* The request is answered; only what the properties need is kept.
Answered(a, outcome) == [NewAsk EXCEPT !.at = outcome, !.device = ask[a].device,
                                    !.entitled = ask[a].entitled]

Participants == {Sender, Recipient}
Peer(d) == IF d = Sender THEN Recipient ELSE Sender

\* issue_turn_credentials, behind a valid session of an active device.
Ask(a) ==
    /\ ask[a].at = "new"
    /\ \A earlier \in 1..a - 1 : ask[earlier].at # "new"
    /\ \E d \in enrolled :
          ask' = [ask EXCEPT ![a] =
              [NewAsk EXCEPT
                  !.at = "transfer", !.device = d, !.current = clock,
                  !.entitled = /\ transfer = "live" /\ clock < Deadline
                               /\ d \in Participants /\ Participants \subseteq enrolled]]
    /\ UNCHANGED <<clock, transfer, enrolled>>

TransferIsEligible(status, current, d) ==
    status = "live" /\ Deadline > current /\ d \in Participants

\* transfer_service.get(), which expires a transfer that is due.
ReadTransfer(a) ==
    LET status == IF clock >= Deadline THEN "over" ELSE transfer
    IN  /\ ask[a].at = "transfer"
        /\ transfer' = status
        /\ ask' = [ask EXCEPT ![a] =
              IF TransferIsEligible(status, ask[a].current, ask[a].device)
              THEN [@ EXCEPT !.at = "actor"]
              ELSE Answered(a, "denied")]
        /\ UNCHANGED <<clock, enrolled>>

ReadActor(a) ==
    /\ ask[a].at = "actor"
    /\ ask' = [ask EXCEPT ![a].at = "peer", ![a].actor = ask[a].device \in enrolled]
    /\ UNCHANGED <<clock, transfer, enrolled>>

DeviceIsEligible(a) == ask[a].actor

\* Mutant: the other device is not looked at.
PeerUnchecked(a) == ask[a].actor

PeerIsEligible(a) == ask[a].actor /\ Peer(ask[a].device) \in enrolled

ReadPeer(a) ==
    /\ ask[a].at = "peer"
    /\ ask' = [ask EXCEPT ![a] =
          IF DeviceIsEligible(a) /\ PeerIsEligible(a)
          THEN [@ EXCEPT !.at = "limits"]
          ELSE Answered(a, "denied")]
    /\ UNCHANGED <<clock, transfer, enrolled>>

\* allow_many over the buckets of the account, the device, the transfer and the
\* network.
Charge(a) ==
    /\ ask[a].at = "limits"
    /\ \/ ask' = [ask EXCEPT ![a].at = "provider"]
       \/ ask' = [ask EXCEPT ![a] = Answered(a, "limited")]
    /\ UNCHANGED <<clock, transfer, enrolled>>

CallProvider(a) ==
    /\ ask[a].at = "provider"
    /\ \E v \in Verdicts :
          ask' = [ask EXCEPT ![a] =
              [Answered(a, IF v.usable THEN "issued" ELSE "unavailable") EXCEPT !.payload = v.payload]]
    /\ UNCHANGED <<clock, transfer, enrolled>>

\* A statement or the limiter's commit times out.
GiveUp(a) ==
    /\ ask[a].at \in {"transfer", "actor", "peer", "limits"}
    /\ ask' = [ask EXCEPT ![a] = Answered(a, "failed")]
    /\ UNCHANGED <<clock, transfer, enrolled>>

-----------------------------------------------------------------------------
(* What happens meanwhile *)

\* Cancelled, rejected, completed or failed.
EndTransfer ==
    /\ transfer = "live"
    /\ transfer' = "over"
    /\ UNCHANGED <<clock, enrolled, ask>>

LogOut(d) ==
    /\ d \in enrolled
    /\ enrolled' = enrolled \ {d}
    /\ UNCHANGED <<clock, transfer, ask>>

InFlight == {a \in Asks : ask[a].at \in {"transfer", "actor", "peer", "limits", "provider"}}

\* Sign-in by e-mail activates the row again.
EnrolAgain(d) ==
    /\ d \notin enrolled
    /\ enrolled' = enrolled \cup {d}
    /\ ask' = [a \in Asks |-> IF a \in InFlight THEN [ask[a] EXCEPT !.entitled = TRUE] ELSE ask[a]]
    /\ UNCHANGED <<clock, transfer>>

TurnTick ==
    /\ clock < MaxClock
    /\ clock' = clock + 1
    /\ UNCHANGED <<transfer, enrolled, ask>>

-----------------------------------------------------------------------------

TurnInit ==
    /\ clock = 0
    /\ transfer = "live"
    /\ enrolled = Devices
    /\ ask = [a \in Asks |-> NewAsk]

TurnNext ==
    \/ \E a \in Asks :
          \/ Ask(a) \/ ReadTransfer(a) \/ ReadActor(a) \/ ReadPeer(a)
          \/ Charge(a) \/ CallProvider(a) \/ GiveUp(a)
    \/ \E d \in Devices : LogOut(d) \/ EnrolAgain(d)
    \/ EndTransfer
    \/ TurnTick

TurnSpec == TurnInit /\ [][TurnNext]_tvars

-----------------------------------------------------------------------------
(* Properties *)

\* Credentials go out only to a request that was entitled to them as a whole
\* when it came in: the transfer was live and unexpired and both devices were
\* active at that one moment, although turn.py looks at them in three
\* statements with other handlers in between.  The exception is a device that
\* is enrolled again while the request is served.
IssuedToEntitled == \A a \in Asks : ask[a].at = "issued" => ask[a].entitled

\* The loop over the provider's servers, with its exceptions and its running
\* user name and credential, lets credentials through for exactly the payloads
\* that are well formed as a whole, in whatever order the servers come.
ParserIsExact == \A a \in Asks : ask[a].at = "issued" <=> ask[a].payload = "good"
=============================================================================
