------------------------------- MODULE SignIn -------------------------------
(***************************************************************************)
(* Sign-in by e-mail: the start and verify routes of auth.py, the Supabase *)
(* gateway of adapters.py and the account rows of                          *)
(* repositories/accounts.py.  The provider keeps the users and the codes;  *)
(* the application keeps one account row per user and e-mail address.  A   *)
(* verification charges its buckets, calls the provider, looks the account *)
(* up by identity, then by address, and inserts it: four awaits with       *)
(* other requests and changes at the provider in between.  What a          *)
(* bootstrap is used for is in Access.  How many requests a bucket admits  *)
(* in a window, and in which races, is in RateLimits: here the limiter's   *)
(* verdict is open, and what it admitted is counted.                       *)
(***************************************************************************)
EXTENDS Naturals, FiniteSets

CONSTANTS
    Emails,        \* normalised addresses
    Spellings,     \* addresses as they are typed
    Normal,        \* normalize_email: an address, or Invalid
    Users,         \* identities the provider may give out
    Attempts,      \* requests served at the same time
    MaxGrants,     \* bound: requests admitted by the buckets of one key
    MaxEvents,     \* bound: changes of the provider's directory
    Invalid,       \* normalize_email raises
    NoOne,         \* no address, no user
    Gone           \* the address of a deleted user

ASSUME SignInAssumption ==
    /\ Normal \in [Spellings -> Emails \cup {Invalid}]
    /\ {MaxGrants, MaxEvents} \subseteq Nat
    /\ IsFiniteSet(Attempts)
    /\ {Invalid, NoOne, Gone} \cap Emails = {}
    /\ NoOne \notin Users

VARIABLES
    mail,      \* the provider's directory: the address of each user
    code,      \* addresses a code was sent to that is not used yet
    account,   \* private.app_users: the address of each user's row
    admitted,  \* requests the limiter admitted, of each kind and charged to each key
    asked,     \* calls of the provider, of each kind and about each mailbox
    attempt,   \* the requests
    events     \* changes of the directory so far

svars == <<mail, code, account, admitted, asked, attempt, events>>

Kinds == {"start", "verify"}

NewAttempt == [at |-> "idle", kind |-> "start", email |-> NoOne, user |-> NoOne]

Keeps(a, at) == [attempt EXCEPT ![a].at = at]

\* The request is answered and its locals are gone.
Ends(a) == [attempt EXCEPT ![a] = NewAttempt]

UnderWay == {"gateway", "by_identity", "by_email", "insert"}

Holds(e) == {u \in Users : mail[u] = e}
Rows(e) == {u \in Users : account[u] = e}

-----------------------------------------------------------------------------
(* The routes *)

\* Mutant: the bucket is keyed by the address as it was typed.
KeyTyped(v) == v

\* The bucket's key, and the address all later steps use.
Key(v) == Normal[v]

\* start_otp and verify_otp up to the limiter, which charges the buckets of the
\* address and of the network: it admits the request, refuses it or fails.
Submit(a) ==
    /\ attempt[a].at \notin UnderWay
    /\ \E kind \in Kinds, v \in Spellings :
          \/ /\ Normal[v] # Invalid
             /\ admitted[kind][Key(v)] < MaxGrants
             /\ admitted' = [admitted EXCEPT ![kind][Key(v)] = @ + 1]
             /\ attempt' = [attempt EXCEPT ![a] =
                   [NewAttempt EXCEPT !.at = "gateway", !.kind = kind, !.email = Normal[v]]]
          \/ /\ attempt' = Ends(a)
             /\ UNCHANGED admitted
    /\ UNCHANGED <<mail, code, account, asked, events>>

AsksProvider(kind, e) == asked' = [asked EXCEPT ![kind][e] = @ + 1]

\* SupabaseAuthGateway.start_otp with create_user.  Its answer may be lost.
SendCode(a) ==
    LET e == attempt[a].email
    IN  /\ attempt[a].at = "gateway"
        /\ attempt[a].kind = "start"
        /\ AsksProvider("start", e)
        /\ \/ /\ code' = code \cup {e}
              /\ IF Holds(e) # {} THEN UNCHANGED mail
                 ELSE \E u \in Users : mail[u] = NoOne /\ mail' = [mail EXCEPT ![u] = e]
              /\ attempt' = Ends(a)
           \/ /\ attempt' = Ends(a)
              /\ UNCHANGED <<mail, code>>
        /\ UNCHANGED <<account, admitted, events>>

\* SupabaseAuthGateway.verify_otp and the check of the answer's address.  The
\* right code is used up, also when the answer is lost or names another address.
CheckCode(a) ==
    LET e == attempt[a].email
    IN  /\ attempt[a].at = "gateway"
        /\ attempt[a].kind = "verify"
        /\ AsksProvider("verify", e)
        /\ \/ /\ e \in code
              /\ code' = code \ {e}
              /\ \/ \E u \in Holds(e) :
                       attempt' = [attempt EXCEPT ![a].at = "by_identity", ![a].user = u]
                 \/ attempt' = Ends(a)
           \/ /\ attempt' = Ends(a)
              /\ UNCHANGED code
        /\ UNCHANGED <<mail, account, admitted, events>>

\* BootstrapStateStore.issue, for the row that was found or made.
Issue(a) == attempt' = Keeps(a, "done")

\* Mutant: the row's address is compared with an address that was not normalised.
NoAddress(a) == FALSE

SameAddress(a) == account[attempt[a].user] = attempt[a].email

\* get_or_create, first statement.
ByIdentity(a) ==
    /\ attempt[a].at = "by_identity"
    /\ \/ /\ account[attempt[a].user] # NoOne
          /\ SameAddress(a)
          /\ Issue(a)
       \/ /\ account[attempt[a].user] # NoOne
          /\ ~SameAddress(a)
          /\ attempt' = Keeps(a, "mismatch")
       \/ /\ account[attempt[a].user] = NoOne
          /\ attempt' = Keeps(a, "by_email")
    /\ UNCHANGED <<mail, code, account, admitted, asked, events>>

\* Second statement.
ByEmail(a) ==
    LET e == attempt[a].email
    IN  /\ attempt[a].at = "by_email"
        /\ \/ /\ attempt[a].user \in Rows(e)
              /\ Issue(a)
           \/ /\ Rows(e) \ {attempt[a].user} # {}
              /\ attempt' = Keeps(a, "mismatch")
           \/ /\ Rows(e) = {}
              /\ attempt' = Keeps(a, "insert")
        /\ UNCHANGED <<mail, code, account, admitted, asked, events>>

\* The table's unique and foreign keys let the row in.
MayInsert(u, e) == account[u] = NoOne /\ Rows(e) = {} /\ mail[u] \in Emails

\* Third statement.  An INSERT that breaks a key fails the request, also when
\* the row it collides with is the one it wanted.
Insert(a) ==
    LET u == attempt[a].user
        e == attempt[a].email
    IN  /\ attempt[a].at = "insert"
        /\ \/ /\ MayInsert(u, e)
              /\ account' = [account EXCEPT ![u] = e]
              /\ Issue(a) \/ attempt' = Ends(a)
           \/ /\ ~MayInsert(u, e)
              /\ attempt' = Keeps(a, "collided")
              /\ UNCHANGED account
        /\ UNCHANGED <<mail, code, admitted, asked, events>>

\* A statement times out.
StatementFails(a) ==
    /\ attempt[a].at \in {"by_identity", "by_email", "insert"}
    /\ attempt' = Ends(a)
    /\ UNCHANGED <<mail, code, account, admitted, asked, events>>

-----------------------------------------------------------------------------
(* The provider's directory changes *)

\* A user gets another address.
Readdress(u, e) ==
    /\ events < MaxEvents
    /\ mail[u] \in Emails \ {e}
    /\ Holds(e) = {}
    /\ mail' = [mail EXCEPT ![u] = e]
    /\ events' = events + 1
    /\ UNCHANGED <<code, account, admitted, asked, attempt>>

\* A user is deleted; the account row goes with it.
DeleteUser(u) ==
    /\ events < MaxEvents
    /\ mail[u] \in Emails
    /\ mail' = [mail EXCEPT ![u] = Gone]
    /\ account' = [account EXCEPT ![u] = NoOne]
    /\ code' = code \ {mail[u]}
    /\ events' = events + 1
    /\ UNCHANGED <<admitted, asked, attempt>>

-----------------------------------------------------------------------------

SignInInit ==
    /\ mail = [u \in Users |-> NoOne]
    /\ code = {}
    /\ account = [u \in Users |-> NoOne]
    /\ admitted = [kind \in Kinds |-> [k \in Emails \cup Spellings |-> 0]]
    /\ asked = [kind \in Kinds |-> [e \in Emails |-> 0]]
    /\ attempt = [a \in Attempts |-> NewAttempt]
    /\ events = 0

SignInNext ==
    \/ \E a \in Attempts :
          \/ Submit(a) \/ SendCode(a) \/ CheckCode(a)
          \/ ByIdentity(a) \/ ByEmail(a) \/ Insert(a) \/ StatementFails(a)
    \/ \E u \in Users, e \in Emails : Readdress(u, e)
    \/ \E u \in Users : DeleteUser(u)

SignInSpec == SignInInit /\ [][SignInNext]_svars

-----------------------------------------------------------------------------
(* Properties *)

\* The provider is asked about one mailbox at most as often as the limiter
\* admitted a request against that mailbox's own bucket, however the address was
\* spelled (_allow keys its bucket by the normalised address).  How many a bucket
\* admits is GrantsBounded of RateLimits.
GuessesPerMailbox ==
    \A kind \in Kinds, e \in Emails : asked[kind][e] <= admitted[kind][e]

\* As long as the provider's directory stands still nobody is locked out: no
\* proven address meets a row of another address or identity, and an attempt
\* that collides with a concurrent INSERT leaves behind the account it wanted,
\* for the next attempt to find.
CollisionIsTwin ==
    events = 0 => \A a \in Attempts :
        /\ attempt[a].at # "mismatch"
        /\ attempt[a].at = "collided" => account[attempt[a].user] = attempt[a].email
=============================================================================
