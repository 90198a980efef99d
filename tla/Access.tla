------------------------------- MODULE Access -------------------------------
(* How browsers become devices of an account and get sessions: the e-mail    *)
(* and linking enrolments and the returning-device login of DeviceAuthService,*)
(* the device, session, challenge and linking-code tables, and logout.       *)
(*                                                                           *)
(* Every await of a handler that reads or writes is one step.  Statements    *)
(* run at READ COMMITTED: a transaction locks the rows it updates until it   *)
(* ends, and an INSERT ... SELECT judges the rows it selects when it starts. *)
(* One account; its epoch never changes in the code and is left out, and so  *)
(* are the status `revoked`, which no route sets, and the rate limits        *)
(* (RateLimits).  Wherever a deadline is tested it may have passed.          *)
EXTENDS Naturals, FiniteSets

CONSTANTS
    Devices,         \* browsers, each with its key and identifier
    Requests,        \* concurrent HTTP requests
    Sessions, Logins, Registrations, Bootstraps, Codes,  \* identifiers to draw
    First,           \* the device that is registered at the start
    FirstSession,    \* and its session
    MaxFailures,     \* failed attempts that end a linking code (10)
    MaxWrongProofs,  \* and a registration challenge (10)
    DbFails,         \* statements may time out
    None

ASSUME AccessAssumption ==
    /\ First \in Devices /\ FirstSession \in Sessions
    /\ MaxFailures \in Nat \ {0} /\ MaxWrongProofs \in Nat \ {0}
    /\ None \notin Devices \cup Requests \cup Sessions \cup Logins \cup Registrations
                    \cup Bootstraps \cup Codes
    /\ Logins \cap Registrations = {}

VARIABLES
    device,      \* devices.status; "none": no row
    devLock,     \* the transaction that has the device's row
    session,     \* app_sessions
    login,       \* device_challenges
    code,        \* device_linking_otps
    codeLock,    \* the transaction that has the code's row
    reg,         \* RegistrationChallengeStore, in memory
    boot,        \* BootstrapStateStore, in memory
    req,         \* the requests
    links        \* how many devices a code has enrolled

tables == <<device, devLock, session, login, code, codeLock, links>>
memory == <<reg, boot>>
avars == <<tables, memory, req>>

NoSession == [status |-> "none", dev |-> None, by |-> None, raced |-> FALSE]
NoLogin == [status |-> "none", dev |-> None]
NoCode == [status |-> "none", issuer |-> None, fails |-> 0]
NoReg == [status |-> "none", dev |-> None, code |-> None, by |-> None, fails |-> 0]

Idle == [pc |-> "idle", dev |-> None, item |-> None, code |-> None, saw |-> "none",
         victims |-> {}]

Live(s) == session[s].status = "live"

\* find_by_token_hash(): the session is not revoked and its device is active.
Usable(s) == Live(s) /\ device[session[s].dev] = "active"

\* The request takes its next step at pc.
At(r, pc) == req[r].pc = pc
Goto(r, pc) == req' = [req EXCEPT ![r].pc = pc]
Return(r) == req' = [req EXCEPT ![r] = Idle]

-----------------------------------------------------------------------------
(* E-mail proof and its registration challenge *)

\* BootstrapStateStore.issue().
IssueBootstrap(k) == boot[k] = "none" /\ boot' = [boot EXCEPT ![k] = "issued"]

\* OtpBootstrapService.verify_otp(), once the provider accepted the code.
VerifyOtp(k) ==
    /\ IssueBootstrap(k)
    /\ UNCHANGED <<tables, reg, req>>

\* issue_registration_challenge(): the token is read first,
PeekBootstrap(r, k, d) ==
    /\ At(r, "idle") /\ boot[k] = "issued"
    /\ req' = [req EXCEPT ![r].pc = "issue", ![r].dev = d, ![r].item = k]
    /\ UNCHANGED <<tables, memory>>

TakeBootstrap(k) == boot[k] = "issued" /\ boot' = [boot EXCEPT ![k] = "gone"]

\* RegistrationChallengeStore.issue().
StoreRegistration(d, o, k) ==
    \E g \in Registrations :
        /\ reg[g].status = "none"
        /\ reg' = [reg EXCEPT ![g] =
              [NoReg EXCEPT !.status = "issued", !.dev = d, !.code = o, !.by = k]]

\* and consumed after two awaits, when the challenge is put in the store; it
\* may be gone or expired by then.
IssueRegistration(r) ==
    LET k == req[r].item IN
    /\ At(r, "issue")
    /\ \/ /\ TakeBootstrap(k)
          /\ StoreRegistration(req[r].dev, None, k)
       \/ UNCHANGED memory
    /\ Return(r)
    /\ UNCHANGED <<tables>>

-----------------------------------------------------------------------------
(* Linking codes and their registration challenge *)

\* SessionAuthenticator.authenticate() for the two operations below.
Authenticate(r, s, pc) ==
    /\ At(r, "idle") /\ Usable(s)
    /\ req' = [req EXCEPT ![r].pc = pc, ![r].dev = session[s].dev]
    /\ UNCHANGED <<tables, memory>>

\* The INSERT of a linking code selects an active issuing device.
InsertCode(d) ==
    /\ device[d] = "active"
    /\ \E o \in Codes :
          /\ code[o].status = "none"
          /\ code' = [code EXCEPT ![o] = [NoCode EXCEPT !.status = "active", !.issuer = d]]

\* issue_linking_otp().
CreateCode(r) ==
    /\ At(r, "create code")
    /\ \/ InsertCode(req[r].dev)
       \/ device[req[r].dev] # "active" /\ UNCHANGED code
    /\ Return(r)
    /\ UNCHANGED <<device, devLock, session, login, codeLock, links, memory>>

\* The WHERE clause of get_active_by_hash().
Redeemable(o) == code[o].status = "active"

\* issue_linking_challenge(): get_active_by_hash() finds the code or the request
\* fails.  As the statement is written PostgreSQL refuses it, since both tables of
\* its join have an id and a created_at and it does not say whose it selects: then
\* every request fails here.  The first disjunct is what the statement is meant to
\* do and the tests' repository does.
ReadCode(r, o, d) ==
    /\ At(r, "idle")
    /\ \/ /\ Redeemable(o) /\ code[o].fails < MaxFailures
          /\ req' = [req EXCEPT ![r].pc = "issuer", ![r].dev = d, ![r].code = o]
       \/ Return(r)
    /\ UNCHANGED <<tables, memory>>

\* then the issuer, and the challenge is put in the store.
ReadIssuer(r) ==
    LET o == req[r].code IN
    /\ At(r, "issuer")
    /\ \/ /\ device[code[o].issuer] = "active"
          /\ StoreRegistration(req[r].dev, o, None)
       \/ device[code[o].issuer] # "active" /\ UNCHANGED reg
    /\ Return(r)
    /\ UNCHANGED <<tables, boot>>

-----------------------------------------------------------------------------
(* complete_registration() *)

\* RegistrationChallengeStore.get(), mark_failed() and consume().  Of an entry that
\* was deleted only the e-mail proof is known, for ProofUsedOnce.
Held(g) == reg[g].status = "issued" /\ reg[g].fails < MaxWrongProofs
CountWrongProof(g) == reg' = [reg EXCEPT ![g].fails = @ + 1]
Dropped(g) == [NoReg EXCEPT !.status = "gone", !.by = reg[g].by]
TakeRegistration(g) == reg' = [reg EXCEPT ![g] = Dropped(g)]

\* get(), verify_p1363_signature() and consume() have no await between them.
\* A wrong proof is counted, in memory and then on the code.
ClaimRegistration(r, g) ==
    /\ At(r, "idle") /\ Held(g)
    /\ \/ /\ TakeRegistration(g)
          /\ req' = [req EXCEPT ![r].pc = IF reg[g].code = None THEN "find" ELSE "consume code",
                                ![r].dev = reg[g].dev, ![r].item = g, ![r].code = reg[g].code]
       \/ /\ CountWrongProof(g)
          /\ IF reg[g].code = None THEN UNCHANGED req
             ELSE req' = [req EXCEPT ![r].pc = "mark failed", ![r].code = reg[g].code]
    /\ UNCHANGED <<tables, boot>>

\* DeviceLinkingOtpRepository.mark_failed(): the last failure ends the code.
MarkFailed(r) ==
    LET o == req[r].code
        n == code[o].fails + 1
    IN  /\ At(r, "mark failed") /\ codeLock[o] = None
        /\ \/ /\ code[o].status = "active" /\ code[o].fails < MaxFailures
              /\ code' = [code EXCEPT ![o].fails = n,
                                      ![o].status = IF n >= MaxFailures THEN "expired" ELSE @]
           \/ UNCHANGED code
        /\ Return(r)
        /\ UNCHANGED <<device, devLock, session, login, codeLock, links, memory>>

\* The first statement of consume_and_register(), which locks the code's row,
\* or finds the code used, given up or past its deadline.
Consumable(o) ==
    /\ code[o].status = "active"
    /\ code[o].fails < MaxFailures
    /\ device[code[o].issuer] = "active"

\* Mutant: the code's row is not locked.
ConsumeCodeUnlocked(r) ==
    /\ At(r, "consume code")
    /\ IF Consumable(req[r].code) THEN Goto(r, "insert device") ELSE Return(r)
    /\ UNCHANGED <<tables, memory>>

ConsumeCode(r) ==
    LET o == req[r].code IN
    /\ At(r, "consume code") /\ codeLock[o] = None
    /\ \/ /\ Consumable(o)
          /\ codeLock' = [codeLock EXCEPT ![o] = r]
          /\ Goto(r, "insert device")
       \/ Return(r) /\ UNCHANGED codeLock
    /\ UNCHANGED <<device, devLock, session, login, code, links, memory>>

\* Its second statement and the commit.  The identifier and the key of a
\* browser that has a row already violate the table's constraints, and the
\* transaction is rolled back.
InsertDevice(r) ==
    LET o == req[r].code
        d == req[r].dev
    IN  /\ At(r, "insert device")
        /\ \/ /\ device[d] = "none"
              /\ device' = [device EXCEPT ![d] = "active"]
              /\ code' = [code EXCEPT ![o].status = "consumed"]
              /\ links' = [links EXCEPT ![o] = @ + 1]
              /\ Goto(r, "open session")
           \/ /\ device[d] # "none"
              /\ Goto(r, "conflict")
              /\ UNCHANGED <<device, code, links>>
        /\ codeLock' = [codeLock EXCEPT ![o] = None]
        /\ UNCHANGED <<devLock, session, login, memory>>

\* register_for_email(): SELECT ... FOR UPDATE waits for the row,
FindDevice(r) ==
    LET d == req[r].dev IN
    /\ At(r, "find") /\ devLock[d] = None
    /\ req' = [req EXCEPT ![r].pc = "register", ![r].saw = device[d]]
    /\ devLock' = IF device[d] = "none" THEN devLock ELSE [devLock EXCEPT ![d] = r]
    /\ UNCHANGED <<device, session, login, code, codeLock, links, memory>>

\* then the row is made active, or inserted unless another request did.
RegisterForEmail(r) ==
    LET d == req[r].dev IN
    /\ At(r, "register")
    /\ \/ /\ req[r].saw # "none" \/ device[d] = "none"
          /\ device' = [device EXCEPT ![d] = "active"]
          /\ Goto(r, "open session")
       \/ /\ req[r].saw = "none" /\ device[d] # "none"
          /\ Goto(r, "conflict")
          /\ UNCHANGED device
    /\ devLock' = [devLock EXCEPT ![d] = IF @ = r THEN None ELSE @]
    /\ UNCHANGED <<session, login, code, codeLock, links, memory>>

\* The unique violation reaches the caller as an unavailable backend.
Conflict(r) ==
    /\ At(r, "conflict")
    /\ Return(r)
    /\ UNCHANGED <<tables, memory>>

-----------------------------------------------------------------------------
(* Sessions *)

\* A logout that has read which sessions it revokes and has not committed.
LogoutPending(d) == \E q \in Requests : At(q, "logout commit") /\ req[q].dev = d

\* Mutant: the INSERT selects the device whatever its status.
MayOpenAnyway(d) == device[d] # "none"

MayOpen(d) == device[d] = "active"

\* SessionRepository.create() starts: its SELECT wants an active device.
OpenSession(r) ==
    LET d == req[r].dev IN
    /\ At(r, "open session")
    /\ \/ /\ MayOpen(d)
          /\ \E s \in Sessions :
                /\ session[s].status = "none"
                /\ session' = [session EXCEPT ![s] =
                      [status |-> "opening", dev |-> d, by |-> req[r].item,
                       raced |-> LogoutPending(d)]]
                /\ req' = [req EXCEPT ![r].pc = "opening", ![r].item = s]
       \/ ~MayOpen(d) /\ Return(r) /\ UNCHANGED session
    /\ UNCHANGED <<device, devLock, login, code, codeLock, links, memory>>

\* The row is committed, and the cookie is set.
SessionOpened(r) ==
    /\ At(r, "opening")
    /\ session' = [session EXCEPT ![req[r].item].status = "live"]
    /\ Return(r)
    /\ UNCHANGED <<device, devLock, login, code, codeLock, links, memory>>

-----------------------------------------------------------------------------
(* The returning device *)

\* The INSERT of a login challenge selects an active device.
InsertLogin(c, d) ==
    /\ login[c].status = "none" /\ device[d] = "active"
    /\ login' = [login EXCEPT ![c] = [status |-> "issued", dev |-> d]]

\* issue_login_challenge().
IssueLogin(c, d) ==
    /\ InsertLogin(c, d)
    /\ UNCHANGED <<device, devLock, session, code, codeLock, links, memory, req>>

\* complete_login_challenge() reads the challenge,
ReadLogin(r, c) ==
    /\ At(r, "idle") /\ login[c].status # "none"
    /\ req' = [req EXCEPT ![r].pc = "verify", ![r].item = c, ![r].dev = login[c].dev,
                          ![r].saw = login[c].status]
    /\ UNCHANGED <<tables, memory>>

\* then the device, and verifies the signature,
VerifyLogin(r) ==
    /\ At(r, "verify")
    /\ \/ /\ req[r].saw = "issued" /\ device[req[r].dev] = "active"
          /\ Goto(r, "consume login")
       \/ Return(r)
    /\ UNCHANGED <<tables, memory>>

\* Mutant: the consuming UPDATE does not ask whether it was consumed before.
UnconsumedEver(c) == login[c].status # "none"

Unconsumed(c) == login[c].status = "issued"

\* and consumes it while the device is active and the deadline has not passed.
ConsumeLogin(r) ==
    LET c == req[r].item IN
    /\ At(r, "consume login")
    /\ \/ /\ Unconsumed(c) /\ device[req[r].dev] = "active"
          /\ login' = [login EXCEPT ![c].status = "consumed"]
          /\ Goto(r, "touch")
       \/ Return(r) /\ UNCHANGED login
    /\ UNCHANGED <<device, devLock, session, code, codeLock, links, memory>>

\* touch_last_seen() waits for the device's row; that it finds the device
\* logged out changes nothing here.
Touch(r) ==
    /\ At(r, "touch") /\ devLock[req[r].dev] = None
    /\ Goto(r, "open session")
    /\ UNCHANGED <<tables, memory>>

-----------------------------------------------------------------------------
(* Logout *)

\* logout_with_sessions(): the first statement locks the device's row, if
\* there is one,
LogoutDevice(r, d) ==
    /\ At(r, "logout")
    /\ \/ /\ device[d] # "none" /\ devLock[d] = None
          /\ devLock' = [devLock EXCEPT ![d] = r]
          /\ req' = [req EXCEPT ![r].pc = "logout sessions", ![r].dev = d]
       \/ device[d] = "none" /\ Return(r) /\ UNCHANGED devLock
    /\ UNCHANGED <<device, session, login, code, codeLock, links, memory>>

Victims(d) == {s \in Sessions : Live(s) /\ session[s].dev = d}

\* the second finds the sessions that are committed by now,
LogoutSessions(r) ==
    LET d == req[r].dev IN
    /\ At(r, "logout sessions")
    /\ req' = [req EXCEPT ![r].pc = "logout commit", ![r].victims = Victims(d)]
    /\ session' = [s \in Sessions |->
          IF session[s].status = "opening" /\ session[s].dev = d
          THEN [session[s] EXCEPT !.raced = TRUE] ELSE session[s]]
    /\ UNCHANGED <<device, devLock, login, code, codeLock, links, memory>>

\* and both changes are committed together.
LogoutCommit(r) ==
    LET d == req[r].dev IN
    /\ At(r, "logout commit")
    /\ device' = [device EXCEPT ![d] = "inactive"]
    /\ session' = [s \in Sessions |->
          IF s \in req[r].victims THEN [session[s] EXCEPT !.status = "revoked"] ELSE session[s]]
    /\ devLock' = [devLock EXCEPT ![d] = None]
    /\ Return(r)
    /\ UNCHANGED <<login, code, codeLock, links, memory>>

-----------------------------------------------------------------------------
(* Timeouts and restarts *)

\* The locks that are left when these requests' transactions have ended.
ReleasedBy(lock, gone) == [x \in DOMAIN lock |-> IF lock[x] \in gone THEN None ELSE lock[x]]

\* A session whose INSERT is cut off is there or not.
CutOff(gone) ==
    \E kept \in SUBSET {s \in Sessions : session[s].status = "opening"
                          /\ \E r \in gone : At(r, "opening") /\ req[r].item = s} :
        session' = [s \in Sessions |->
            IF s \in kept THEN [session[s] EXCEPT !.status = "live"]
            ELSE IF \E r \in gone : At(r, "opening") /\ req[r].item = s
                 THEN [session[s] EXCEPT !.status = "revoked"] ELSE session[s]]

\* A statement times out: the transaction is rolled back and the request fails.
DbTimeout(r) ==
    /\ DbFails
    /\ ~At(r, "idle")
    /\ CutOff({r})
    /\ devLock' = ReleasedBy(devLock, {r})
    /\ codeLock' = ReleasedBy(codeLock, {r})
    /\ Return(r)
    /\ UNCHANGED <<device, login, code, links, memory>>

\* The process is replaced: what was only in memory is gone.
Restart ==
    /\ CutOff(Requests)
    /\ devLock' = ReleasedBy(devLock, Requests)
    /\ codeLock' = ReleasedBy(codeLock, Requests)
    /\ req' = [r \in Requests |-> Idle]
    /\ reg' = [g \in Registrations |->
          IF reg[g].status = "issued" THEN Dropped(g) ELSE reg[g]]
    /\ boot' = [k \in Bootstraps |-> IF boot[k] = "issued" THEN "gone" ELSE boot[k]]
    /\ UNCHANGED <<device, login, code, links>>

-----------------------------------------------------------------------------

AInit ==
    /\ device = [d \in Devices |-> IF d = First THEN "active" ELSE "none"]
    /\ devLock = [d \in Devices |-> None]
    /\ session = [s \in Sessions |->
          IF s = FirstSession THEN [NoSession EXCEPT !.status = "live", !.dev = First]
          ELSE NoSession]
    /\ login = [c \in Logins |-> NoLogin]
    /\ code = [o \in Codes |-> NoCode]
    /\ codeLock = [o \in Codes |-> None]
    /\ reg = [g \in Registrations |-> NoReg]
    /\ boot = [k \in Bootstraps |-> "none"]
    /\ req = [r \in Requests |-> Idle]
    /\ links = [o \in Codes |-> 0]

RequestStep(r) ==
    \/ \E d \in Devices :
          \/ \E k \in Bootstraps : PeekBootstrap(r, k, d)
          \/ \E o \in Codes : ReadCode(r, o, d)
          \/ LogoutDevice(r, d)
    \/ IssueRegistration(r)
    \/ \E s \in Sessions : Authenticate(r, s, "create code") \/ Authenticate(r, s, "logout")
    \/ CreateCode(r) \/ ReadIssuer(r)
    \/ \E g \in Registrations : ClaimRegistration(r, g)
    \/ MarkFailed(r) \/ ConsumeCode(r) \/ InsertDevice(r)
    \/ FindDevice(r) \/ RegisterForEmail(r) \/ Conflict(r)
    \/ OpenSession(r) \/ SessionOpened(r)
    \/ \E c \in Logins : ReadLogin(r, c)
    \/ VerifyLogin(r) \/ ConsumeLogin(r) \/ Touch(r)
    \/ LogoutSessions(r) \/ LogoutCommit(r)
    \/ DbTimeout(r)

ANext ==
    \/ \E r \in Requests : RequestStep(r)
    \/ \E k \in Bootstraps : VerifyOtp(k)
    \/ \E c \in Logins, d \in Devices : IssueLogin(c, d)
    \/ Restart

ASpec == AInit /\ [][ANext]_avars

-----------------------------------------------------------------------------
(* Properties *)

\* docs/authentication-and-devices.md: the code "cannot be replayed to create
\* a second device".  A code is spent exactly when it has enrolled one device,
\* whoever redeems it at the same time, is refused, times out or gives wrong
\* proofs, and after its last allowed failure it enrols none.
CodeLinksOnce ==
    \A o \in Codes :
        /\ links[o] = IF code[o].status = "consumed" THEN 1 ELSE 0
        /\ code[o].status = "consumed" => code[o].fails < MaxFailures

\* "FastAPI accepts the signature once": one login challenge or registration
\* challenge makes at most one session, and one e-mail proof at most one
\* registration challenge, although each is looked up before an await and
\* used after it.
ProofUsedOnce ==
    /\ \A s, t \in Sessions :
         s # t /\ session[s].by # None => session[s].by # session[t].by
    /\ \A g, h \in Registrations :
         g # h /\ reg[g].by # None => reg[g].by # reg[h].by

\* "Logging out a device revokes its sessions": a device that is not active
\* has no unrevoked session, with one exception: a session whose INSERT was
\* being executed between the statement that revokes the sessions and the end
\* of that logout.
LogoutEndsSessions ==
    \A s \in Sessions :
        Live(s) /\ device[session[s].dev] # "active" => session[s].raced

=============================================================================
