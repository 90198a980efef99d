----------------------------- MODULE RateLimits -----------------------------
(* The persistent rate limiter: RateLimitBucketRepository.consume_many runs  *)
(* as one PostgreSQL transaction per request at READ COMMITTED, beside       *)
(* other requests and the cleanup that deletes expired buckets.  A request   *)
(* names its buckets in a fixed order (scope by scope); it locks and reads   *)
(* them all, then writes them all.  SELECT ... FOR UPDATE locks a row that   *)
(* exists; a missing row is neither locked nor seen, and it is created by    *)
(* INSERT ... ON CONFLICT DO UPDATE.                                         *)
EXTENDS Naturals, Sequences

CONSTANTS
    Requests,    \* concurrent requests
    Buckets,     \* (scope, key) pairs
    Wants,       \* the bucket sequences a request may ask for
    Limit,       \* the limit of each bucket
    Window,      \* the length of a window
    DbFails,     \* statements may time out
    None,        \* no holder
    MaxTime      \* bound on the clock

ASSUME LimitsAssumption ==
    /\ Limit \in [Buckets -> Nat \ {0}]
    /\ Window \in Nat \ {0}
    /\ Wants \subseteq Seq(Buckets) \ {<<>>}
    /\ None \notin Requests

VARIABLES
    bucket,      \* committed rows
    holder,      \* which transaction has a row locked or is creating it
    req,         \* the requests
    now,
    grants,      \* requests admitted in the bucket's current window
    restarts     \* counts of that window set back by a request that saw no row

rvars == <<bucket, holder, req, now, grants, restarts>>

NoRow == [exists |-> FALSE, expires |-> 0, count |-> 0]

Done == {"granted", "refused", "error"}

\* states: what the request read of each bucket; wrote: what its transaction
\* has written and not committed.
NewRequest == [pc |-> "new", wants |-> <<>>, current |-> 0, states |-> <<>>, wrote |-> <<>>]

\* A request that is over; its locals are gone.
Over(outcome) == [NewRequest EXCEPT !.pc = outcome]

\* The end of a transaction gives back its locks.
Unlocked(r) == [b \in Buckets |-> IF holder[b] = r THEN None ELSE holder[b]]

-----------------------------------------------------------------------------
(* A request *)

\* allow_many() reads the clock; the transaction begins afterwards.
Arrive(r) ==
    /\ req[r].pc = "new"
    /\ \E w \in Wants : req' = [req EXCEPT ![r].pc = "read", ![r].wants = w, ![r].current = now]
    /\ UNCHANGED <<bucket, holder, now, grants, restarts>>

\* Mutant: the row is read without FOR UPDATE.
LockUnlocked(r, b) == UNCHANGED holder

\* FOR UPDATE waits for whoever has the row.
Lock(r, b) ==
    IF bucket[b].exists
    THEN /\ holder[b] \in {None, r}
         /\ holder' = [holder EXCEPT ![b] = r]
    ELSE UNCHANGED holder

Exhausted(row, b, current) == row.exists /\ row.expires > current /\ row.count >= Limit[b]

\* What the write loop makes of a row it read: a new window when there was
\* none or it had expired, else one more request.
Written(row, current) ==
    IF ~row.exists \/ row.expires <= current
    THEN [exists |-> TRUE, expires |-> current + Window, count |-> 1]
    ELSE [row EXCEPT !.count = @ + 1]

Touched(r) == {req[r].wants[i] : i \in DOMAIN req[r].wrote}

Place(r, b) == CHOOSE i \in DOMAIN req[r].wants : req[r].wants[i] = b

\* What the transaction leaves in bucket b, and what is remembered of the
\* window: a request that saw no row sets the count of a row back to one.
Committed(r, b) == req[r].wrote[Place(r, b)]

Fresh(r, b) ==
    \/ ~bucket[b].exists
    \/ LET seen == req[r].states[Place(r, b)]
       IN  seen.exists /\ seen.expires <= req[r].current

Apply(r, admitted) ==
    /\ bucket' = [b \in Buckets |-> IF b \in Touched(r) THEN Committed(r, b) ELSE bucket[b]]
    /\ grants' = [b \in Buckets |->
          IF b \notin Touched(r) THEN grants[b]
          ELSE (IF Fresh(r, b) THEN 0 ELSE grants[b]) + admitted]
    /\ restarts' = [b \in Buckets |->
          IF b \notin Touched(r) THEN restarts[b]
          ELSE IF Fresh(r, b) THEN 0
          ELSE IF req[r].states[Place(r, b)].exists THEN restarts[b] ELSE restarts[b] + 1]

\* Mutant: every bucket is written as soon as it was found to have room, so
\* that the early return commits what was written before it.
ReadAndWrite(r) ==
    LET i == Len(req[r].states) + 1
        b == req[r].wants[i]
        row == bucket[b]
    IN  /\ req[r].pc = "read"
        /\ \/ /\ Exhausted(row, b, req[r].current)
              /\ holder[b] \in {None, r}
              /\ req' = [req EXCEPT ![r] = Over("refused")]
              /\ Apply(r, 0)
              /\ holder' = Unlocked(r)
           \/ /\ ~Exhausted(row, b, req[r].current)
              /\ holder[b] \in {None, r}
              /\ holder' = [holder EXCEPT ![b] = r]
              /\ req' = [req EXCEPT
                    ![r].states = Append(@, row),
                    ![r].wrote = Append(@, Written(row, req[r].current)),
                    ![r].pc = IF i = Len(req[r].wants) THEN "commit" ELSE "read"]
              /\ UNCHANGED <<bucket, grants, restarts>>
        /\ UNCHANGED now

\* One SELECT ... FOR UPDATE.  A full bucket ends the transaction at once,
\* with nothing written.
Read(r) ==
    LET i == Len(req[r].states) + 1
        b == req[r].wants[i]
        row == bucket[b]
    IN  /\ req[r].pc = "read"
        /\ \/ /\ Exhausted(row, b, req[r].current)
              /\ holder[b] \in {None, r}
              /\ req' = [req EXCEPT ![r] = Over("refused")]
              /\ holder' = Unlocked(r)
           \/ /\ ~Exhausted(row, b, req[r].current)
              /\ Lock(r, b)
              /\ req' = [req EXCEPT
                    ![r].states = Append(@, row),
                    ![r].pc = IF i = Len(req[r].wants) THEN "write" ELSE "read"]
        /\ UNCHANGED <<bucket, now, grants, restarts>>

\* Mutant: the write goes through another connection of the pool, and waits
\* for the lock its own transaction holds.
WriteElsewhere(r) ==
    LET i == Len(req[r].wrote) + 1
        b == req[r].wants[i]
    IN  /\ req[r].pc = "write"
        /\ holder[b] = None
        /\ req' = [req EXCEPT
              ![r].wrote = Append(@, Written(req[r].states[i], req[r].current)),
              ![r].pc = IF i = Len(req[r].wants) THEN "commit" ELSE "write"]
        /\ UNCHANGED <<bucket, holder, now, grants, restarts>>

\* One INSERT ... ON CONFLICT or UPDATE, waiting for a row that another
\* transaction is creating or has locked.
Write(r) ==
    LET i == Len(req[r].wrote) + 1
        b == req[r].wants[i]
    IN  /\ req[r].pc = "write"
        /\ holder[b] \in {None, r}
        /\ holder' = [holder EXCEPT ![b] = r]
        /\ req' = [req EXCEPT
              ![r].wrote = Append(@, Written(req[r].states[i], req[r].current)),
              ![r].pc = IF i = Len(req[r].wants) THEN "commit" ELSE "write"]
        /\ UNCHANGED <<bucket, now, grants, restarts>>

\* COMMIT.  When its answer does not come in time the caller sees an error,
\* whether or not the transaction took effect.
Commit(r) ==
    /\ req[r].pc = "commit"
    /\ \/ /\ req' = [req EXCEPT ![r] = Over("granted")]
          /\ Apply(r, 1)
       \/ /\ DbFails
          /\ req' = [req EXCEPT ![r] = Over("error")]
          /\ Apply(r, 0)
    /\ holder' = Unlocked(r)
    /\ UNCHANGED now

Rollback(r) ==
    /\ req' = [req EXCEPT ![r] = Over("error")]
    /\ holder' = Unlocked(r)
    /\ UNCHANGED <<bucket, now, grants, restarts>>

\* Any statement may time out; the context manager rolls back.
TimesOut(r) ==
    /\ DbFails
    /\ req[r].pc \in {"read", "write", "commit"}
    /\ Rollback(r)

\* The bucket whose row a request is waiting for.
Awaited(r) ==
    CASE req[r].pc = "read" /\ bucket[req[r].wants[Len(req[r].states) + 1]].exists ->
            {req[r].wants[Len(req[r].states) + 1]}
      [] req[r].pc = "write" -> {req[r].wants[Len(req[r].wrote) + 1]}
      [] OTHER -> {}

WaitsFor(r) == {holder[b] : b \in Awaited(r)} \ {None, r}

\* Requests that wait on each other in a ring.
Ring(s) == s # {} /\ \A r \in s : WaitsFor(r) # {} /\ WaitsFor(r) \subseteq s

\* PostgreSQL ends a ring of waiting transactions by aborting one of them.
DeadlockAbort(r) ==
    /\ \E s \in SUBSET Requests : r \in s /\ Ring(s)
    /\ Rollback(r)

-----------------------------------------------------------------------------
(* Cleanup and time *)

\* delete_expired(), one row at a time: a locked row makes it wait, and a row
\* that was renewed meanwhile is left alone.
DeleteExpired(b) ==
    /\ bucket[b].exists
    /\ bucket[b].expires <= now
    /\ holder[b] = None
    /\ bucket' = [bucket EXCEPT ![b] = NoRow]
    /\ UNCHANGED <<holder, req, now, grants, restarts>>

Tick ==
    /\ now < MaxTime
    /\ now' = now + 1
    /\ UNCHANGED <<bucket, holder, req, grants, restarts>>

-----------------------------------------------------------------------------

RInit ==
    /\ bucket = [b \in Buckets |-> NoRow]
    /\ holder = [b \in Buckets |-> None]
    /\ req = [r \in Requests |-> NewRequest]
    /\ now = 0
    /\ grants = [b \in Buckets |-> 0]
    /\ restarts = [b \in Buckets |-> 0]

RNext ==
    \/ \E r \in Requests :
          Arrive(r) \/ Read(r) \/ Write(r) \/ Commit(r) \/ DeadlockAbort(r) \/ TimesOut(r)
    \/ \E b \in Buckets : DeleteExpired(b)
    \/ Tick

RSpec == RInit /\ [][RNext]_rvars

\* The database executes statements, wakes waiting ones and detects deadlocks.
RFairness ==
    \A r \in Requests : WF_rvars(Read(r) \/ Write(r) \/ Commit(r)) /\ WF_rvars(DeadlockAbort(r))

RFairSpec == RSpec /\ RFairness

-----------------------------------------------------------------------------
(* Properties *)

\* The limit, with what concurrent first requests can add to it: a window
\* admits at most its limit, and one limit more for every request that read
\* the bucket before its row existed and wrote it after another had.  Without
\* such a request the limit is exact, whatever the order of the locks, the
\* expiry of windows and the age of each request's clock reading.
GrantsBounded ==
    \A b \in Buckets :
        /\ bucket[b].exists => bucket[b].count <= Limit[b]
        /\ grants[b] <= Limit[b] * (restarts[b] + 1)

\* consume_many: "a rejected request must not consume one bucket while leaving
\* the other untouched".  The step that refuses a request changes no bucket,
\* whichever of its buckets was full and whatever it had locked before.
AllOrNothing ==
    [][\A r \in Requests :
          req[r].pc # "refused" /\ req'[r].pc = "refused" => bucket' = bucket]_rvars

\* Every request is answered: nobody waits for ever for a row, although rows
\* are locked in the order of the scopes and created afterwards, which can
\* close a ring of three.
RequestsFinish == \A r \in Requests : req[r].pc # "new" ~> req[r].pc \in Done

=============================================================================
