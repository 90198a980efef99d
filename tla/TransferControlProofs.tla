----------------------- MODULE TransferControlProofs -----------------------
(***************************************************************************)
(* Proofs about TransferControl, for any sets of devices, transfers and    *)
(* handlers, any limits and lifetime, and any clock difference: the        *)
(* inductive invariant of the handlers and the lock; the capacity limits;  *)
(* each status at most once to a device, and no outcome but the one that   *)
(* stands; and, from the same invariant, that it implements                *)
(* TransferLifecycle.                                                      *)
(***************************************************************************)
EXTENDS TransferControl, FiniteSetTheorems, TLAPS

Differ(f) == \A i, j \in DOMAIN f : i # j => f[i] # f[j]
Avoids(f, s) == \A i \in DOMAIN f : f[i] # s

\* g is f with s at n added.
Longer(f, g, n, s) ==
    /\ \A i \in DOMAIN f : g[i] = f[i]
    /\ \A i \in DOMAIN g : i \in DOMAIN f \/ (i = n /\ g[i] = s)

\* Elements that are all different stay so when one more is added that is none of
\* them.
LEMMA LongerDiffers ==
    ASSUME NEW f, NEW g, NEW n, NEW s, Longer(f, g, n, s), Avoids(f, s), Differ(f)
    PROVE  Differ(g)
BY DEF Longer, Avoids, Differ

\* Numbers, for the provers that know none.
LEMMA StillFewer == \A a, b, c \in Nat : a <= b /\ b < c => a < c
OBVIOUS

LEMMA OneIsMore == 1 \in Nat /\ 0 <= 1 /\ 1 <= 1 /\ 1 >= 1 /\ ~(0 >= 1) /\ 0 + 1 = 1 /\ 0 < 2
OBVIOUS

LEMMA LessThanOne == \A n \in Nat : n < 1 \/ ~(n >= 1) => n = 0
OBVIOUS

LEMMA NoneCounted == 1..0 = {}
OBVIOUS

LEMMA NoLess == \A n \in Nat : n <= n
OBVIOUS

LEMMA StillWithin == \A a, c \in Nat : a < c => a + 1 <= c /\ a + 1 \in Nat
OBVIOUS

LEMMA TakenAway ==
    \A a, b, c \in Nat : b <= a /\ a <= c =>
        (IF a > b THEN a - b ELSE 0) = a - b /\ a - b \in Nat /\ a - b <= c
OBVIOUS

LEMMA CountedOn == \A n \in Nat : 1..(n + 1) = (1..n) \cup {n + 1} /\ n + 1 \notin 1..n
OBVIOUS

LEMMA NotAfter == \A m, n \in Nat : m <= n => ~(m > n)
OBVIOUS

Creating(r) == req[r].pc \in {"validate", "capacity", "insert"}

Telling(r) == req[r].pc \in {"release", "tell sender", "tell recipient"}

\* What a handler knows at each await.
HandlerOK(r) ==
    /\ req[r].pc \notin {"idle", "list", "each"} => req[r].t \in Transfers
    /\ req[r].pc \in {"list", "each"} => req[r].op = "list"
    /\ req[r].pc = "idle" => req[r].op # "create"
    /\ Creating(r) => /\ req[r].op = "create"
                      /\ transfer[req[r].t].status = "none"
                      /\ req[r].dev \in Devices
                      /\ req[r].peer \in Devices
                      /\ req[r].dev # req[r].peer
    /\ Telling(r) => transfer[req[r].t].status # "none"
    /\ req[r].pc \in {"capacity", "insert"} => req[r].at <= now
    /\ req[r].pc = "insert" => lock = r

\* Two handlers never create the same transfer.
Distinct ==
    \A q, r \in Requests :
        q # r /\ req[q].op = "create" /\ req[r].op = "create" => req[q].t # req[r].t

RowOK(t) ==
    transfer[t].status # "none" => /\ transfer[t].sender \in Devices
                                   /\ transfer[t].recipient \in Devices
                                   /\ transfer[t].sender # transfer[t].recipient

Base ==
    /\ TypeOK
    /\ \A r \in Requests : HandlerOK(r)
    /\ Distinct
    /\ \A t \in Transfers : RowOK(t)

-----------------------------------------------------------------------------
(* What the updates of the two tables leave behind. *)

LEMMA UpdatedFacts ==
    ASSUME TypeOK, NEW t \in Transfers, NEW s \in Statuses
    PROVE  /\ Updated(t, s) \in [Transfers -> Rows]
           /\ Updated(t, s)[t].status = s
           /\ Updated(t, s)[t].sender = transfer[t].sender
           /\ Updated(t, s)[t].recipient = transfer[t].recipient
           /\ Updated(t, s)[t].expires_at = transfer[t].expires_at
           /\ Updated(t, s)[t].accepted_at
                 = (transfer[t].accepted_at \/ s \in {"accepted", "cancelled"})
           /\ \A u \in Transfers \ {t} : Updated(t, s)[u] = transfer[u]
<1> DEFINE x == Updated(t, s)
<1>0. transfer \in [Transfers -> Rows]
  BY DEF TypeOK
<1>1. x \in [Transfers -> Rows]
  BY <1>0, Zenon DEF Updated, Rows
<1>2. x[t].status = s
  BY <1>0, Zenon DEF Updated, Rows
<1>3. x[t].sender = transfer[t].sender /\ x[t].recipient = transfer[t].recipient
  BY <1>0, Zenon DEF Updated, Rows
<1>4. x[t].expires_at = transfer[t].expires_at
  BY <1>0, Zenon DEF Updated, Rows
<1>5. x[t].accepted_at = (transfer[t].accepted_at \/ s \in {"accepted", "cancelled"})
  BY <1>0, Zenon DEF Updated, Rows
<1>6. \A u \in Transfers \ {t} : x[u] = transfer[u]
  BY <1>0, Zenon DEF Updated, Rows
<1> QED
  BY <1>1, <1>2, <1>3, <1>4, <1>5, <1>6

LEMMA GotoFacts ==
    ASSUME TypeOK, NEW r \in Requests, NEW pc \in PCs, Goto(r, pc)
    PROVE  /\ req' \in [Requests -> Handlers]
           /\ req'[r].pc = pc
           /\ req'[r].op = req[r].op
           /\ req'[r].t = req[r].t
           /\ req'[r].dev = req[r].dev
           /\ req'[r].peer = req[r].peer
           /\ req'[r].at = req[r].at
           /\ req'[r].wrote = req[r].wrote
           /\ \A q \in Requests \ {r} : req'[q] = req[q]
  BY Zenon DEF TypeOK, Goto, Handlers

LEMMA AnnounceFacts ==
    ASSUME TypeOK, NEW r \in Requests, NEW pc \in PCs, NEW s \in Statuses,
           Announce(r, pc, s)
    PROVE  /\ req' \in [Requests -> Handlers]
           /\ req'[r].pc = pc
           /\ req'[r].op = req[r].op
           /\ req'[r].t = req[r].t
           /\ req'[r].wrote = s
           /\ \A q \in Requests \ {r} : req'[q] = req[q]
<1>0. req \in [Requests -> Handlers]
  BY DEF TypeOK
<1>1. req' \in [Requests -> Handlers]
  BY <1>0, ZenonT(30) DEF Announce, Handlers
<1>2. req'[r].pc = pc
  BY <1>0, Zenon DEF Announce, Handlers
<1>3. req'[r].op = req[r].op
  BY <1>0, Zenon DEF Announce, Handlers
<1>4. req'[r].t = req[r].t
  BY <1>0, Zenon DEF Announce, Handlers
<1>5. req'[r].wrote = s
  BY <1>0, Zenon DEF Announce, Handlers
<1>6. \A q \in Requests \ {r} : req'[q] = req[q]
  BY <1>0, Zenon DEF Announce
<1> QED
  BY <1>1, <1>2, <1>3, <1>4, <1>5, <1>6

LEMMA StartFacts ==
    ASSUME TypeOK, NEW r \in Requests, NEW pc \in PCs, NEW op \in Ops,
           NEW t \in Transfers \cup {None},
           NEW d \in Devices \cup {None}, NEW e \in Devices \cup {None},
           Start(r, pc, op, t, d, e)
    PROVE  /\ req' \in [Requests -> Handlers]
           /\ req'[r].pc = pc
           /\ req'[r].op = op
           /\ req'[r].t = t
           /\ req'[r].dev = d
           /\ req'[r].peer = e
           /\ \A q \in Requests \ {r} : req'[q] = req[q]
  BY DEF TypeOK, Start, Handlers, Statuses

LEMMA ReturnFacts ==
    ASSUME TypeOK, NEW r \in Requests, Return(r)
    PROVE  /\ req' \in [Requests -> Handlers]
           /\ req'[r].pc = "idle"
           /\ req'[r].op = "get"
           /\ \A q \in Requests \ {r} : req'[q] = req[q]
  BY Zenon DEF TypeOK, Return, NoHandler, Handlers, Statuses, PCs, Ops

-----------------------------------------------------------------------------
(* The base invariant: types, and what is known at each await. *)

\* A step of one handler keeps Base when it keeps the handler's own part of it,
\* frees no lock but its own, and touches no row another handler is creating.
LEMMA OneHandler ==
    ASSUME Base, NEW r \in Requests,
           req' \in [Requests -> Handlers],
           \A q \in Requests \ {r} : req'[q] = req[q],
           HandlerOK(r)',
           req'[r].op = "create" => req[r].op = "create" /\ req'[r].t = req[r].t,
           now' = now, active' = active,
           lock' \in Requests \cup {None},
           \A q \in Requests \ {r} : lock = q => lock' = q,
           transfer' \in [Transfers -> Rows],
           \A t \in Transfers : RowOK(t)',
           \A t \in Transfers : transfer[t].status # "none" => transfer'[t].status # "none",
           \A q \in Requests \ {r} : Creating(q) => transfer'[req[q].t].status = "none",
           sent' \in [Transfers -> [Devices -> Seq(Statuses)]]
    PROVE  Base'
<1>1. TypeOK'
  BY DEF Base, TypeOK
<1>2. Distinct'
  <2>1. \A q \in Requests : req'[q].op = "create" =>
            req[q].op = "create" /\ req'[q].t = req[q].t
    OBVIOUS
  <2> QED
    BY <2>1 DEF Base, Distinct
<1>3. \A q \in Requests : HandlerOK(q)'
  <2> SUFFICES ASSUME NEW q \in Requests \ {r} PROVE HandlerOK(q)'
    OBVIOUS
  <2>1. HandlerOK(q) /\ req'[q] = req[q] /\ req[q].at \in Nat /\ now \in Nat
    BY DEF Base, TypeOK, Handlers
  <2> QED
    BY <2>1, Zenon DEF HandlerOK, Creating, Telling
<1> QED
  BY <1>1, <1>2, <1>3 DEF Base

\* The common case: rows, lock and notices are left alone.
LEMMA OnlyHandler ==
    ASSUME Base, NEW r \in Requests,
           req' \in [Requests -> Handlers],
           \A q \in Requests \ {r} : req'[q] = req[q],
           HandlerOK(r)',
           req'[r].op = "create" => req[r].op = "create" /\ req'[r].t = req[r].t,
           UNCHANGED <<now, active, transfer, lock, sent>>
    PROVE  Base'
<1>1. \A t \in Transfers : RowOK(t)'
  BY DEF Base, RowOK
<1>2. \A q \in Requests \ {r} : Creating(q) => transfer'[req[q].t].status = "none"
  BY DEF Base, HandlerOK
<1>3. /\ transfer' \in [Transfers -> Rows]
      /\ lock' \in Requests \cup {None}
      /\ sent' \in [Transfers -> [Devices -> Seq(Statuses)]]
  BY DEF Base, TypeOK
<1> QED
  BY <1>1, <1>2, <1>3, OneHandler

LEMMA BaseReturn ==
    ASSUME Base, NEW r \in Requests, Return(r),
           UNCHANGED <<now, active, transfer, lock, sent>>
    PROVE  Base'
<1>1. TypeOK
  BY DEF Base
<1>2. HandlerOK(r)'
  BY <1>1, ReturnFacts, Zenon DEF HandlerOK, Creating, Telling
<1> QED
  BY <1>1, <1>2, ReturnFacts, OnlyHandler

LEMMA BaseArrive ==
    ASSUME Base, NEW r \in Requests, Arrive(r)
    PROVE  Base'
<1>0. TypeOK
  BY DEF Base
<1>1. CASE ArriveCreate(r)
  <2>1. PICK d \in active, e \in Devices, t \in Transfers :
            /\ d # e
            /\ transfer[t].status = "none"
            /\ \A q \in Requests : req[q].op = "create" => req[q].t # t
            /\ Start(r, "validate", "create", t, d, e)
    BY <1>1 DEF ArriveCreate
  <2>2. d \in Devices /\ "validate" \in PCs /\ "create" \in Ops
    BY <1>0 DEF TypeOK, PCs, Ops
  <2>3. /\ req' \in [Requests -> Handlers]
        /\ req'[r].pc = "validate" /\ req'[r].op = "create" /\ req'[r].t = t
        /\ req'[r].dev = d /\ req'[r].peer = e
        /\ \A q \in Requests \ {r} : req'[q] = req[q]
    BY <1>0, <2>1, <2>2, StartFacts
  <2>4. UNCHANGED <<now, active, transfer, lock, sent>>
    BY <1>1 DEF ArriveCreate
  <2>5. HandlerOK(r)'
    BY <2>1, <2>2, <2>3, <2>4 DEF HandlerOK, Creating, Telling
  <2>6. \A q \in Requests \ {r} : HandlerOK(q)'
    BY <2>3, <2>4, ZenonT(60) DEF Base, HandlerOK, Creating, Telling
  <2>7. Distinct'
    BY <2>1, <2>3 DEF Base, Distinct
  <2>8. TypeOK' /\ \A u \in Transfers : RowOK(u)'
    BY <2>3, <2>4 DEF Base, TypeOK, RowOK
  <2> QED
    BY <2>5, <2>6, <2>7, <2>8 DEF Base
<1>2. CASE ArriveUpdate(r)
  <2>1. PICK op \in Operations \cap {"accept", "reject", "cancel"},
             d \in active, t \in Transfers : Start(r, "read", op, t, d, None)
    BY <1>2 DEF ArriveUpdate
  <2>2. d \in Devices /\ "read" \in PCs /\ op \in Ops
    BY <1>0, ScenarioAssumption DEF TypeOK, PCs
  <2>3. /\ req' \in [Requests -> Handlers]
        /\ req'[r].pc = "read" /\ req'[r].op = op /\ req'[r].t = t
        /\ \A q \in Requests \ {r} : req'[q] = req[q]
    BY <1>0, <2>1, <2>2, StartFacts
  <2>4. HandlerOK(r)'
    BY <2>3 DEF HandlerOK, Creating, Telling
  <2> QED
    BY <1>2, <2>3, <2>4, OnlyHandler DEF ArriveUpdate
<1>3. CASE ArriveLook(r)
  <2>1. PICK op \in Operations \cap {"expire", "get"}, t \in Transfers :
            Start(r, IF op = "expire" THEN "expire" ELSE "read", op, t, None, None)
    BY <1>3 DEF ArriveLook
  <2> DEFINE p == IF op = "expire" THEN "expire" ELSE "read"
  <2>2. /\ p \in PCs /\ p \in {"expire", "read"} /\ op \in Ops
        /\ Start(r, p, op, t, None, None)
    BY <2>1, ScenarioAssumption DEF PCs
  <2> HIDE DEF p
  <2>3. /\ req' \in [Requests -> Handlers]
        /\ req'[r].pc = p /\ req'[r].op = op /\ req'[r].t = t
        /\ \A q \in Requests \ {r} : req'[q] = req[q]
    BY <1>0, <2>2, StartFacts
  <2>4. HandlerOK(r)'
    BY <2>2, <2>3, Zenon DEF HandlerOK, Creating, Telling
  <2> QED
    BY <1>3, <2>3, <2>4, OnlyHandler DEF ArriveLook
<1>4. CASE ArriveList(r)
  <2>1. /\ req' \in [Requests -> Handlers]
        /\ req'[r].pc = "list" /\ req'[r].op = "list"
        /\ \A q \in Requests \ {r} : req'[q] = req[q]
    <3>1. "list" \in PCs /\ "list" \in Ops /\ Start(r, "list", "list", None, None, None)
      BY <1>4 DEF ArriveList, PCs, Ops
    <3> QED
      BY <1>0, <3>1, StartFacts, ZenonT(60)
  <2>2. HandlerOK(r)'
    BY <2>1 DEF HandlerOK, Creating, Telling
  <2> QED
    BY <1>4, <2>1, <2>2, OnlyHandler DEF ArriveList
<1> QED
  BY <1>1, <1>2, <1>3, <1>4 DEF Arrive

LEMMA ValidateFacts ==
    ASSUME TypeOK, NEW r \in Requests,
           req' = [req EXCEPT ![r].pc = "capacity", ![r].at = now]
    PROVE  /\ req' \in [Requests -> Handlers]
           /\ req'[r].pc = "capacity"
           /\ req'[r].op = req[r].op
           /\ req'[r].t = req[r].t
           /\ req'[r].dev = req[r].dev
           /\ req'[r].peer = req[r].peer
           /\ req'[r].at = now
           /\ \A q \in Requests \ {r} : req'[q] = req[q]
<1>0. req \in [Requests -> Handlers] /\ now \in Nat /\ "capacity" \in PCs
  BY DEF TypeOK, PCs
<1>1. req' \in [Requests -> Handlers]
  BY <1>0, ZenonT(30) DEF Handlers
<1>2. req'[r].pc = "capacity" /\ req'[r].at = now
  BY <1>0, Zenon DEF Handlers
<1>3. req'[r].op = req[r].op /\ req'[r].t = req[r].t
  BY <1>0, Zenon DEF Handlers
<1>4. req'[r].dev = req[r].dev /\ req'[r].peer = req[r].peer
  BY <1>0, Zenon DEF Handlers
<1>5. \A q \in Requests \ {r} : req'[q] = req[q]
  BY <1>0, Zenon
<1> QED
  BY <1>1, <1>2, <1>3, <1>4, <1>5

LEMMA ListAllFacts ==
    ASSUME TypeOK, NEW r \in Requests, NEW ts \in SUBSET Transfers,
           req' = [req EXCEPT ![r].pc = "each", ![r].todo = ts]
    PROVE  /\ req' \in [Requests -> Handlers]
           /\ req'[r].pc = "each"
           /\ req'[r].op = req[r].op
           /\ \A q \in Requests \ {r} : req'[q] = req[q]
<1>0. req \in [Requests -> Handlers] /\ "each" \in PCs
  BY DEF TypeOK, PCs
<1>1. req' \in [Requests -> Handlers]
  BY <1>0, ZenonT(30) DEF Handlers
<1>2. req'[r].pc = "each" /\ req'[r].op = req[r].op
  BY <1>0, Zenon DEF Handlers
<1>3. \A q \in Requests \ {r} : req'[q] = req[q]
  BY <1>0, Zenon
<1> QED
  BY <1>1, <1>2, <1>3

LEMMA ListEachFacts ==
    ASSUME TypeOK, NEW r \in Requests, NEW t \in Transfers, NEW pc \in PCs,
           TakeUp(r, t, pc)
    PROVE  /\ req' \in [Requests -> Handlers]
           /\ req'[r].pc = pc
           /\ req'[r].op = req[r].op
           /\ req'[r].t = t
           /\ \A q \in Requests \ {r} : req'[q] = req[q]
<1>0. req \in [Requests -> Handlers]
  BY DEF TypeOK
<1> DEFINE ts == req[r].todo \ {t}
<1>1. ts \in SUBSET Transfers /\ req' = [req EXCEPT ![r].todo = ts, ![r].t = t, ![r].pc = pc]
  BY <1>0 DEF TakeUp, Handlers
<1> HIDE DEF ts
<1>2. req' \in [Requests -> Handlers]
  <2>1. [req[r] EXCEPT !.todo = ts, !.t = t, !.pc = pc] \in Handlers
    BY <1>0, <1>1, ZenonT(60) DEF Handlers
  <2>2. \A q \in Requests : req'[q] \in Handlers
    BY <1>0, <1>1, <2>1, Zenon
  <2> QED
    BY <1>0, <1>1, <2>2, Zenon
<1>3. req'[r].pc = pc /\ req'[r].op = req[r].op /\ req'[r].t = t
  BY <1>0, <1>1, Zenon DEF Handlers
<1>4. \A q \in Requests \ {r} : req'[q] = req[q]
  BY <1>0, <1>1, Zenon
<1> QED
  BY <1>2, <1>3, <1>4

LEMMA BaseGoto ==
    ASSUME Base, NEW r \in Requests, NEW pc \in PCs, Goto(r, pc),
           ~Creating(r), req[r].pc # "idle",
           req[r].t \in Transfers,
           pc \in {"write", "expire", "reread", "each", "tell sender", "tell recipient"},
           pc = "each" => req[r].op = "list",
           pc \in {"tell sender", "tell recipient"} => Telling(r),
           UNCHANGED <<now, active, transfer, lock, sent>>
    PROVE  Base'
<1>1. TypeOK /\ HandlerOK(r)
  BY Zenon DEF Base
<1>2. /\ req' \in [Requests -> Handlers]
      /\ req'[r].pc = pc /\ req'[r].op = req[r].op /\ req'[r].t = req[r].t
      /\ \A q \in Requests \ {r} : req'[q] = req[q]
  BY <1>1, GotoFacts, Zenon
<1>3. HandlerOK(r)'
  BY <1>1, <1>2, Zenon DEF HandlerOK, Creating, Telling
<1> QED
  BY <1>2, <1>3, OnlyHandler, Zenon

\* An UPDATE of an active row: nothing is inserted, and every row stays sound.
LEMMA RowsUpdated ==
    ASSUME Base, NEW t \in Transfers, NEW s \in Statuses \ {"none"},
           transfer[t].status \in ActiveStatuses,
           transfer' = Updated(t, s)
    PROVE  /\ transfer' \in [Transfers -> Rows]
           /\ transfer'[t].status = s
           /\ \A u \in Transfers : RowOK(u)'
           /\ \A u \in Transfers : transfer'[u].status = "none" <=> transfer[u].status = "none"
           /\ \A q \in Requests : Creating(q) => transfer'[req[q].t].status = "none"
<1>0. TypeOK /\ \A u \in Transfers : RowOK(u)
  BY DEF Base
<1>1. /\ transfer' \in [Transfers -> Rows]
      /\ transfer'[t].status = s
      /\ transfer'[t].sender = transfer[t].sender
      /\ transfer'[t].recipient = transfer[t].recipient
      /\ \A u \in Transfers \ {t} : transfer'[u] = transfer[u]
  BY <1>0, UpdatedFacts
<1>2. transfer[t].status # "none"
  BY DEF ActiveStatuses
<1>3. \A u \in Transfers : RowOK(u)'
  BY <1>0, <1>1, <1>2 DEF RowOK
<1>4. \A u \in Transfers : transfer'[u].status = "none" <=> transfer[u].status = "none"
  BY <1>1, <1>2
<1>5. \A q \in Requests : Creating(q) => transfer'[req[q].t].status = "none"
  BY <1>4 DEF Base, HandlerOK, Creating
<1> QED
  BY <1>1, <1>3, <1>4, <1>5

LEMMA RowsInserted ==
    ASSUME Base, NEW r \in Requests, req[r].pc = "insert", transfer' = Inserted(r)
    PROVE  /\ transfer' \in [Transfers -> Rows]
           /\ transfer'[req[r].t].status = "offered"
           /\ transfer'[req[r].t].sender = req[r].dev
           /\ transfer'[req[r].t].recipient = req[r].peer
           /\ transfer'[req[r].t].expires_at = req[r].at + Lifetime
           /\ \A u \in Transfers \ {req[r].t} : transfer'[u] = transfer[u]
           /\ \A u \in Transfers : RowOK(u)'
           /\ \A u \in Transfers : transfer[u].status # "none" => transfer'[u].status # "none"
           /\ \A q \in Requests \ {r} : Creating(q) => transfer'[req[q].t].status = "none"
<1>0. /\ req[r].t \in Transfers /\ req[r].dev \in Devices /\ req[r].peer \in Devices
      /\ req[r].dev # req[r].peer /\ req[r].op = "create"
  BY DEF Base, HandlerOK, Creating
<1>1. transfer \in [Transfers -> Rows] /\ req[r].at + Lifetime \in Nat
  BY ClockAssumption DEF Base, TypeOK, Handlers
<1>2. /\ transfer' \in [Transfers -> Rows]
      /\ transfer'[req[r].t].status = "offered"
      /\ transfer'[req[r].t].sender = req[r].dev
      /\ transfer'[req[r].t].recipient = req[r].peer
      /\ transfer'[req[r].t].expires_at = req[r].at + Lifetime
      /\ \A u \in Transfers \ {req[r].t} : transfer'[u] = transfer[u]
  <2> DEFINE row == [status |-> "offered", sender |-> req[r].dev, recipient |-> req[r].peer,
                     expires_at |-> req[r].at + Lifetime, accepted_at |-> FALSE]
  <2>1. row \in Rows
    BY <1>0, <1>1 DEF Rows, Statuses, ActiveStatuses
  <2>2. transfer' = [transfer EXCEPT ![req[r].t] = row]
    BY DEF Inserted
  <2>3. /\ row.status = "offered" /\ row.sender = req[r].dev
        /\ row.recipient = req[r].peer /\ row.expires_at = req[r].at + Lifetime
    OBVIOUS
  <2> HIDE DEF row
  <2> QED
    BY <1>0, <1>1, <2>1, <2>2, <2>3
<1>3. \A u \in Transfers : RowOK(u)'
  BY <1>0, <1>2 DEF Base, RowOK
<1>4. \A q \in Requests \ {r} : Creating(q) => transfer'[req[q].t].status = "none"
  <2> SUFFICES ASSUME NEW q \in Requests \ {r}, Creating(q)
               PROVE  transfer'[req[q].t].status = "none"
    OBVIOUS
  <2>1. req[q].op = "create" /\ req[q].t \in Transfers /\ transfer[req[q].t].status = "none"
    BY DEF Base, HandlerOK, Creating
  <2>2. req[q].t # req[r].t
    BY <1>0, <2>1 DEF Base, Distinct
  <2> QED
    BY <1>2, <2>1, <2>2
<1> QED
  BY <1>2, <1>3, <1>4

\* Returning from any await, with the rows changed or not.
LEMMA BaseLeave ==
    ASSUME Base, NEW r \in Requests, Return(r),
           UNCHANGED <<now, active, sent>>,
           lock' = lock \/ (lock = r /\ lock' = None),
           transfer' \in [Transfers -> Rows],
           \A t \in Transfers : RowOK(t)',
           \A t \in Transfers : transfer[t].status # "none" => transfer'[t].status # "none",
           \A q \in Requests \ {r} : Creating(q) => transfer'[req[q].t].status = "none"
    PROVE  Base'
<1>1. TypeOK
  BY DEF Base
<1>2. HandlerOK(r)'
  BY <1>1, ReturnFacts, Zenon DEF HandlerOK, Creating, Telling
<1>3. lock' \in Requests \cup {None} /\ sent' \in [Transfers -> [Devices -> Seq(Statuses)]]
  BY <1>1 DEF TypeOK
<1>4. req'[r].op # "create"
  BY <1>1, ReturnFacts
<1> QED
  BY <1>1, <1>2, <1>3, <1>4, ReturnFacts, OneHandler

LEMMA BaseCreate ==
    ASSUME Base, NEW r \in Requests, Validate(r) \/ EnsureCapacity(r) \/ Insert(r)
    PROVE  Base'
<1>0. TypeOK /\ HandlerOK(r)
  BY DEF Base
<1>1. CASE Validate(r)
  <2>1. CASE {req[r].dev, req[r].peer} \subseteq active
    <3>1. req' = [req EXCEPT ![r].pc = "capacity", ![r].at = now]
      BY <1>1, <2>1 DEF Validate
    <3>2. HandlerOK(r)'
      <4>1. now \in Nat /\ UNCHANGED <<now, transfer, lock>> /\ req[r].pc = "validate"
        BY <1>0, <1>1 DEF TypeOK, Validate
      <4>2. /\ req'[r].pc = "capacity" /\ req'[r].op = req[r].op /\ req'[r].t = req[r].t
            /\ req'[r].dev = req[r].dev /\ req'[r].peer = req[r].peer /\ req'[r].at = now
        BY <1>0, <3>1, ValidateFacts, Zenon
      <4> QED
        BY <1>0, <4>1, <4>2 DEF HandlerOK, Creating, Telling
    <3> QED
      BY <1>0, <1>1, <3>1, <3>2, ValidateFacts, OnlyHandler, ZenonT(60) DEF Validate
  <2>2. CASE ~({req[r].dev, req[r].peer} \subseteq active)
    BY <1>1, <2>2, BaseReturn DEF Validate
  <2> QED
    BY <2>1, <2>2
<1>2. CASE EnsureCapacity(r)
  <2>1. CASE Full(r)
    BY <1>2, <2>1, BaseReturn DEF EnsureCapacity
  <2>2. CASE ~Full(r)
    <3>1. /\ req[r].pc = "capacity" /\ lock = None /\ Goto(r, "insert") /\ lock' = r
          /\ UNCHANGED <<now, active, transfer, sent>>
      BY <1>2, <2>2 DEF EnsureCapacity
    <3>2. /\ req' \in [Requests -> Handlers]
          /\ req'[r].pc = "insert" /\ req'[r].op = req[r].op /\ req'[r].t = req[r].t
          /\ req'[r].dev = req[r].dev /\ req'[r].peer = req[r].peer
          /\ req'[r].at = req[r].at
          /\ \A q \in Requests \ {r} : req'[q] = req[q]
      <4>1. "insert" \in PCs
        BY DEF PCs
      <4> QED
        BY <1>0, <3>1, <4>1, GotoFacts
    <3>3. HandlerOK(r)'
      BY <1>0, <3>1, <3>2 DEF HandlerOK, Creating, Telling
    <3>4. \A t \in Transfers : RowOK(t)'
      BY <3>1 DEF Base, RowOK
    <3>5. \A q \in Requests \ {r} : Creating(q) => transfer'[req[q].t].status = "none"
      BY <3>1 DEF Base, HandlerOK
    <3>6. \A q \in Requests \ {r} : lock = q => lock' = q
      BY <3>1, NoneAssumption
    <3>7. /\ transfer' \in [Transfers -> Rows] /\ lock' \in Requests \cup {None}
          /\ sent' \in [Transfers -> [Devices -> Seq(Statuses)]]
      BY <1>0, <3>1 DEF TypeOK
    <3> QED
      BY <3>1, <3>2, <3>3, <3>4, <3>5, <3>6, <3>7, OneHandler, Zenon
  <2> QED
    BY <2>1, <2>2
<1>3. CASE Insert(r)
  <2>0. /\ req[r].pc = "insert" /\ lock = r /\ lock' = None
        /\ UNCHANGED <<now, active, sent>>
    BY <1>0, <1>3, Zenon DEF Insert, HandlerOK
  <2>1. CASE InsertTakes(r)
    <3>1. transfer' = Inserted(r) /\ Announce(r, "tell recipient", "offered")
      BY <1>3, <2>1, Zenon DEF Insert
    <3>2. /\ req' \in [Requests -> Handlers]
          /\ req'[r].pc = "tell recipient" /\ req'[r].op = req[r].op
          /\ req'[r].t = req[r].t
          /\ \A q \in Requests \ {r} : req'[q] = req[q]
      <4>1. "tell recipient" \in PCs /\ "offered" \in Statuses
        BY DEF PCs, Statuses, ActiveStatuses
      <4> QED
        BY <1>0, <3>1, <4>1, AnnounceFacts, Zenon
    <3>3. HandlerOK(r)'
      BY <1>0, <2>0, <3>1, <3>2, RowsInserted, Zenon DEF HandlerOK, Creating, Telling
    <3>4. sent' \in [Transfers -> [Devices -> Seq(Statuses)]]
      BY <1>0, <2>0 DEF TypeOK
    <3> QED
      BY <2>0, <3>1, <3>2, <3>3, <3>4, RowsInserted, OneHandler, Zenon
  <2>2. CASE ~InsertTakes(r)
    <3>1. Return(r) /\ transfer' = transfer
      BY <1>3, <2>2, Zenon DEF Insert
    <3>2. /\ transfer' \in [Transfers -> Rows]
          /\ \A t \in Transfers : RowOK(t)'
          /\ \A q \in Requests \ {r} : Creating(q) => transfer'[req[q].t].status = "none"
      BY <3>1 DEF Base, TypeOK, HandlerOK, RowOK
    <3> QED
      BY <2>0, <3>1, <3>2, BaseLeave
  <2> QED
    BY <2>1, <2>2
<1> QED
  BY <1>1, <1>2, <1>3

LEMMA BaseUse ==
    ASSUME Base, NEW r \in Requests, UseRecord(r), req[r].pc \in {"read", "reread"},
           UNCHANGED <<now, active, transfer, lock, sent>>
    PROVE  Base'
<1>1. CASE Return(r)
  BY <1>1, BaseReturn
<1>2. CASE Goto(r, "write")
  <2>1. "write" \in PCs /\ req[r].t \in Transfers
    BY DEF PCs, Base, HandlerOK
  <2> QED
    BY <1>2, <2>1, BaseGoto, Zenon DEF Creating
<1> QED
  BY <1>1, <1>2 DEF UseRecord

\* A handler that has changed a row goes on to announce it.
LEMMA BaseAnnounce ==
    ASSUME Base, NEW r \in Requests, NEW s \in Statuses \ {"none"}, NEW pc \in PCs,
           pc \in {"release", "tell sender"},
           req[r].t \in Transfers, ~Creating(r),
           transfer[req[r].t].status \in ActiveStatuses,
           transfer' = Updated(req[r].t, s),
           Announce(r, pc, s),
           UNCHANGED <<now, active, lock, sent>>
    PROVE  Base'
<1>0. TypeOK /\ HandlerOK(r)
  BY Zenon DEF Base
<1>1. /\ req' \in [Requests -> Handlers]
      /\ req'[r].pc = pc /\ req'[r].op = req[r].op /\ req'[r].t = req[r].t
      /\ \A q \in Requests \ {r} : req'[q] = req[q]
  BY <1>0, AnnounceFacts, Zenon
<1>2. transfer'[req[r].t].status = s
  BY RowsUpdated, Zenon
<1>3. HandlerOK(r)'
  BY <1>0, <1>1, <1>2, Zenon DEF HandlerOK, Creating, Telling
<1>4. /\ lock' \in Requests \cup {None}
      /\ sent' \in [Transfers -> [Devices -> Seq(Statuses)]]
  BY <1>0, Zenon DEF TypeOK
<1> QED
  BY <1>1, <1>3, <1>4, RowsUpdated, OneHandler, Zenon

LEMMA BaseUpdate ==
    ASSUME Base, NEW r \in Requests, Read(r) \/ Reread(r) \/ Expire(r) \/ Write(r)
    PROVE  Base'
<1>0. TypeOK /\ HandlerOK(r)
  BY DEF Base
<1>1. CASE Read(r)
  <2>0. req[r].pc = "read" /\ UNCHANGED <<now, active, transfer, lock, sent>>
    BY <1>1 DEF Read
  <2>1. CASE Goto(r, "expire")
    <3>1. "expire" \in PCs /\ req[r].t \in Transfers
      BY <1>0, <2>0 DEF PCs, HandlerOK
    <3> QED
      BY <2>0, <2>1, <3>1, BaseGoto, Zenon DEF Creating
  <2>2. CASE UseRecord(r)
    BY <2>0, <2>2, BaseUse
  <2> QED
    BY <1>1, <2>1, <2>2 DEF Read
<1>2. CASE Reread(r)
  BY <1>2, BaseUse DEF Reread
<1>3. CASE Expire(r)
  <2>0. /\ req[r].pc = "expire" /\ req[r].t \in Transfers /\ UNCHANGED <<now, active, lock, sent>>
        /\ ~Creating(r)
    BY <1>0, <1>3 DEF Expire, HandlerOK, Creating
  <2>1. CASE ExpireTakes(req[r].t)
    <3>1. /\ transfer' = Updated(req[r].t, "expired") /\ Announce(r, "release", "expired")
          /\ transfer[req[r].t].status \in ActiveStatuses
      BY <1>3, <2>1 DEF Expire, ExpireTakes
    <3>2. "expired" \in Statuses \ {"none"} /\ "release" \in PCs
      BY DEF Statuses, TerminalStatuses, PCs
    <3> QED
      BY <2>0, <3>1, <3>2, BaseAnnounce, Zenon
  <2>2. CASE ~ExpireTakes(req[r].t)
    <3>1. /\ transfer' = transfer
          /\ \/ req[r].op = "list" /\ Goto(r, "each")
             \/ Return(r)
             \/ Goto(r, "reread")
      BY <1>3, <2>2 DEF Expire
    <3>2. "each" \in PCs /\ "reread" \in PCs
      BY DEF PCs
    <3> QED
      BY <2>0, <3>1, <3>2, BaseGoto, BaseReturn, Zenon
  <2> QED
    BY <2>1, <2>2
<1>4. CASE Write(r)
  <2>0. /\ req[r].pc = "write" /\ req[r].t \in Transfers /\ UNCHANGED <<now, active, lock, sent>>
        /\ ~Creating(r)
    BY <1>0, <1>4, Zenon DEF Write, HandlerOK, Creating
  <2>1. CASE UpdateTakes(r)
    <3> DEFINE s == TargetOf(req[r].op)
               pc == IF s = "accepted" THEN "tell sender" ELSE "release"
    <3>1. transfer' = Updated(req[r].t, s) /\ Announce(r, pc, s)
      BY <1>4, <2>1, Zenon DEF Write
    <3>2. transfer[req[r].t].status \in ActiveStatuses
      BY <2>1 DEF UpdateTakes, SourcesOf, ActiveStatuses
    <3>3. s \in Statuses \ {"none"}
      BY DEF TargetOf, Statuses, TerminalStatuses, ActiveStatuses
    <3>4. pc \in PCs /\ pc \in {"release", "tell sender"}
      BY DEF PCs
    <3> HIDE DEF s, pc
    <3> QED
      BY <2>0, <3>1, <3>2, <3>3, <3>4, BaseAnnounce, Zenon
  <2>2. CASE ~UpdateTakes(r)
    BY <1>4, <2>0, <2>2, BaseReturn DEF Write
  <2> QED
    BY <2>1, <2>2
<1> QED
  BY <1>1, <1>2, <1>3, <1>4

LEMMA NotifyFacts ==
    ASSUME Base, NEW r \in Requests, NEW d, req[r].t \in Transfers, Notify(r, d)
    PROVE  sent' \in [Transfers -> [Devices -> Seq(Statuses)]]
<1>1. CASE UNCHANGED sent
  BY <1>1 DEF Base, TypeOK
<1>2. CASE d \in Listeners /\ sent' = [sent EXCEPT ![req[r].t][d] = Append(@, req[r].wrote)]
  <2>1. /\ d \in Devices /\ req[r].wrote \in Statuses
        /\ sent \in [Transfers -> [Devices -> Seq(Statuses)]]
    BY <1>2, ScenarioAssumption DEF Base, TypeOK, Handlers
  <2>2. Append(sent[req[r].t][d], req[r].wrote) \in Seq(Statuses)
    BY <2>1
  <2> QED
    BY <1>2, <2>1, <2>2
<1> QED
  BY <1>1, <1>2 DEF Notify

LEMMA BaseTell ==
    ASSUME Base, NEW r \in Requests, Release(r) \/ TellSender(r) \/ TellRecipient(r)
    PROVE  Base'
<1>0. /\ TypeOK /\ HandlerOK(r) /\ Telling(r) /\ ~Creating(r) /\ req[r].t \in Transfers
      /\ transfer[req[r].t].status # "none"
  BY Zenon DEF Base, HandlerOK, Release, TellSender, TellRecipient, Telling, Creating
<1>1. UNCHANGED <<now, active, transfer, lock>>
  BY Zenon DEF Release, TellSender, TellRecipient
<1>2. sent' \in [Transfers -> [Devices -> Seq(Statuses)]]
  BY <1>0, NotifyFacts, Zenon DEF Release, TellSender, TellRecipient, TypeOK
<1>3. \/ Return(r)
      \/ \E pc \in {"each", "tell sender", "tell recipient"} :
            Goto(r, pc) /\ (pc = "each" => req[r].op = "list")
  BY Zenon DEF Release, TellSender, TellRecipient, Resume
<1>4. /\ transfer' \in [Transfers -> Rows]
      /\ \A t \in Transfers : RowOK(t)'
      /\ \A q \in Requests \ {r} : Creating(q) => transfer'[req[q].t].status = "none"
      /\ lock' \in Requests \cup {None}
  BY <1>1, ZenonT(60) DEF Base, TypeOK, HandlerOK, RowOK
<1>5. CASE Return(r)
  <2>1. HandlerOK(r)'
    BY <1>0, <1>5, ReturnFacts, Zenon DEF HandlerOK, Creating, Telling
  <2> QED
    BY <1>0, <1>1, <1>2, <1>4, <1>5, <2>1, ReturnFacts, OneHandler, Zenon
<1>6. ASSUME NEW pc \in {"each", "tell sender", "tell recipient"}, Goto(r, pc),
             pc = "each" => req[r].op = "list"
      PROVE  Base'
  <2>1. /\ req' \in [Requests -> Handlers]
        /\ req'[r].pc = pc /\ req'[r].op = req[r].op /\ req'[r].t = req[r].t
        /\ \A q \in Requests \ {r} : req'[q] = req[q]
    <3>1. pc \in PCs
      BY Zenon DEF PCs
    <3> QED
      BY <1>0, <1>6, <3>1, GotoFacts, Zenon
  <2>2. HandlerOK(r)'
    BY <1>0, <1>1, <1>6, <2>1, ZenonT(60) DEF HandlerOK, Creating, Telling
  <2> QED
    BY <1>1, <1>2, <1>4, <2>1, <2>2, OneHandler, Zenon
<1> QED
  BY <1>3, <1>5, <1>6, Zenon

LEMMA ListEachEffect ==
    ASSUME TypeOK, NEW r \in Requests, ListEach(r), ~Return(r)
    PROVE  \E t \in Transfers, pc \in {"expire", "each"} :
              /\ req' \in [Requests -> Handlers]
              /\ req'[r].pc = pc /\ req'[r].op = req[r].op /\ req'[r].t = t
              /\ \A q \in Requests \ {r} : req'[q] = req[q]
<1>1. PICK t \in req[r].todo :
         TakeUp(r, t, IF transfer[t].expires_at <= now THEN "expire" ELSE "each")
  BY DEF ListEach
<1> DEFINE pc == IF transfer[t].expires_at <= now THEN "expire" ELSE "each"
<1>2. t \in Transfers
  BY DEF TypeOK, Handlers
<1>3. pc \in PCs /\ pc \in {"expire", "each"}
  BY DEF PCs
<1>4. TakeUp(r, t, pc)
  BY <1>1
<1> HIDE DEF pc
<1>5. /\ req' \in [Requests -> Handlers]
      /\ req'[r].pc = pc /\ req'[r].op = req[r].op /\ req'[r].t = t
      /\ \A q \in Requests \ {r} : req'[q] = req[q]
  BY <1>2, <1>3, <1>4, ListEachFacts
<1> QED
  BY <1>2, <1>3, <1>5

LEMMA BaseList ==
    ASSUME Base, NEW r \in Requests, ListAll(r) \/ ListEach(r)
    PROVE  Base'
<1>0. /\ TypeOK /\ req[r].op = "list" /\ req[r].pc \in {"list", "each"}
      /\ UNCHANGED <<now, active, transfer, lock, sent>>
  BY DEF Base, HandlerOK, ListAll, ListEach
<1>1. CASE ListAll(r)
  <2> DEFINE ts == {t \in Transfers : transfer[t].status \in ActiveStatuses}
  <2>1. ts \in SUBSET Transfers /\ req' = [req EXCEPT ![r].pc = "each", ![r].todo = ts]
    BY <1>1 DEF ListAll
  <2> HIDE DEF ts
  <2>2. HandlerOK(r)'
    BY <1>0, <2>1, ListAllFacts, Zenon DEF HandlerOK, Creating, Telling
  <2> QED
    BY <1>0, <2>1, <2>2, ListAllFacts, OnlyHandler, Zenon
<1>2. CASE ListEach(r) /\ Return(r)
  BY <1>0, <1>2, BaseReturn
<1>3. CASE ListEach(r) /\ ~Return(r)
  <2>1. PICK t \in Transfers, pc \in {"expire", "each"} :
          /\ req' \in [Requests -> Handlers]
          /\ req'[r].pc = pc /\ req'[r].op = req[r].op /\ req'[r].t = t
          /\ \A q \in Requests \ {r} : req'[q] = req[q]
    BY <1>0, <1>3, ListEachEffect
  <2>2. HandlerOK(r)'
    BY <1>0, <2>1, Zenon DEF HandlerOK, Creating, Telling
  <2> QED
    BY <1>0, <2>1, <2>2, OnlyHandler
<1> QED
  BY <1>1, <1>2, <1>3

LEMMA BaseTimeout ==
    ASSUME Base, NEW r \in Requests, DbTimeout(r)
    PROVE  Base'
<1>0. /\ Return(r) /\ UNCHANGED <<now, active, sent>> /\ req[r].pc # "idle"
      /\ lock' = lock \/ (lock = r /\ lock' = None)
  BY DEF DbTimeout
<1>1. CASE transfer' = transfer
  <2>1. /\ transfer' \in [Transfers -> Rows]
        /\ \A t \in Transfers : RowOK(t)'
        /\ \A q \in Requests \ {r} : Creating(q) => transfer'[req[q].t].status = "none"
    BY <1>1, Zenon DEF Base, TypeOK, HandlerOK, RowOK
  <2> QED
    BY <1>0, <1>1, <2>1, BaseLeave, Zenon
<1>2. CASE req[r].pc = "insert" /\ transfer' = Inserted(r)
  BY <1>0, <1>2, RowsInserted, BaseLeave, ZenonT(60)
<1>3. ASSUME NEW s \in Statuses \ {"none"}, transfer' = Updated(req[r].t, s),
             transfer[req[r].t].status \in ActiveStatuses, req[r].t \in Transfers
      PROVE  Base'
  BY <1>0, <1>3, RowsUpdated, BaseLeave
<1>4. CASE /\ req[r].pc = "write" /\ UpdateTakes(r)
           /\ transfer' = Updated(req[r].t, TargetOf(req[r].op))
  <2>1. transfer[req[r].t].status \in ActiveStatuses
    BY <1>4 DEF UpdateTakes, SourcesOf, ActiveStatuses
  <2>2. TargetOf(req[r].op) \in Statuses \ {"none"}
    BY Zenon DEF TargetOf, Statuses, TerminalStatuses, ActiveStatuses
  <2>3. req[r].t \in Transfers
    BY <1>4 DEF Base, HandlerOK
  <2> QED
    BY <1>3, <1>4, <2>1, <2>2, <2>3, Zenon
<1>5. CASE /\ req[r].pc = "expire" /\ ExpireTakes(req[r].t)
           /\ transfer' = Updated(req[r].t, "expired")
  <2>1. transfer[req[r].t].status \in ActiveStatuses
    BY <1>5 DEF ExpireTakes
  <2>2. "expired" \in Statuses \ {"none"}
    BY DEF Statuses, TerminalStatuses
  <2>3. req[r].t \in Transfers
    BY <1>5 DEF Base, HandlerOK
  <2> QED
    BY <1>3, <1>5, <2>1, <2>2, <2>3
<1> QED
  BY <1>1, <1>2, <1>4, <1>5, Zenon DEF DbTimeout

LEMMA BaseMark ==
    ASSUME Base, NEW t \in Transfers, MarkNegotiating(t)
    PROVE  Base'
<1>1. /\ UNCHANGED <<now, active, req, lock, sent>>
      /\ transfer[t].status \in ActiveStatuses
      /\ transfer' = Updated(t, "negotiating")
  BY DEF MarkNegotiating, ActiveStatuses
<1>2. "negotiating" \in Statuses \ {"none"}
  BY DEF Statuses, ActiveStatuses
<1>3. /\ transfer' \in [Transfers -> Rows]
      /\ \A u \in Transfers : RowOK(u)'
      /\ \A u \in Transfers : transfer'[u].status = "none" <=> transfer[u].status = "none"
      /\ \A q \in Requests : Creating(q) => transfer'[req[q].t].status = "none"
  BY <1>1, <1>2, RowsUpdated
<1>4. TypeOK' /\ Distinct'
  BY <1>1, <1>3 DEF Base, TypeOK, Distinct
<1>5. ASSUME NEW q \in Requests PROVE HandlerOK(q)'
  <2>1. HandlerOK(q)
    BY DEF Base
  <2> QED
    BY <1>1, <1>3, <2>1, Zenon DEF HandlerOK, Creating, Telling
<1> QED
  BY <1>3, <1>4, <1>5, SMTT(30) DEF Base

LEMMA BaseInit == Init => Base
<1> SUFFICES ASSUME Init PROVE Base
  BY Zenon
<1>1. NoRow \in Rows /\ NoHandler \in Handlers
  BY DEF NoRow, Rows, NoHandler, Handlers, Statuses, PCs, Ops
<1>2. TypeOK
  BY <1>1 DEF Init, TypeOK
<1>3. \A r \in Requests : req[r].pc = "idle" /\ req[r].op = "get"
  BY DEF Init, NoHandler
<1>4. \A t \in Transfers : transfer[t].status = "none"
  BY DEF Init, NoRow
<1> QED
  BY <1>2, <1>3, <1>4, Zenon DEF Base, HandlerOK, Creating, Telling, Distinct, RowOK

LEMMA BaseNext == Base /\ [Next]_vars => Base'
<1> SUFFICES ASSUME Base, [Next]_vars PROVE Base'
  OBVIOUS
<1>0. TypeOK
  BY DEF Base
<1>1. ASSUME NEW r \in Requests, Arrive(r) \/ Step(r) \/ DbTimeout(r) PROVE Base'
  BY <1>1, BaseArrive, BaseCreate, BaseUpdate, BaseTell, BaseList, BaseTimeout DEF Step
<1>2. ASSUME NEW t \in Transfers, MarkNegotiating(t) PROVE Base'
  BY <1>2, BaseMark, SMTT(30)
<1>3. ASSUME NEW d \in Devices, Deactivate(d) \/ Activate(d) PROVE Base'
  <2>1. /\ active' \subseteq Devices
        /\ UNCHANGED <<now, transfer, req, lock, sent>>
    BY <1>0, <1>3 DEF Deactivate, Activate, TypeOK
  <2> QED
    BY <2>1, Zenon DEF Base, TypeOK, HandlerOK, Creating, Telling, Distinct, RowOK
<1>4. CASE Restart
  <2>1. /\ req' \in [Requests -> Handlers] /\ lock' = None
        /\ \A r \in Requests : req'[r].pc = "idle" /\ req'[r].op = "get"
        /\ UNCHANGED <<now, active, transfer, sent>>
    BY <1>4, Zenon DEF Restart, NoHandler, Handlers, Statuses, PCs, Ops
  <2>2. TypeOK' /\ Distinct' /\ \A t \in Transfers : RowOK(t)'
    BY <2>1 DEF Base, TypeOK, Distinct, RowOK
  <2>3. \A r \in Requests : HandlerOK(r)'
    BY <2>1, Zenon DEF HandlerOK, Creating, Telling
  <2> QED
    BY <2>2, <2>3 DEF Base
<1>5. CASE Tick
  <2>1. now' \in Nat /\ now' > now /\ now \in Nat /\ UNCHANGED <<active, transfer, req, lock, sent>>
    BY <1>0, <1>5 DEF Tick, TypeOK
  <2>2. TypeOK' /\ Distinct' /\ \A t \in Transfers : RowOK(t)'
    BY <2>1 DEF Base, TypeOK, Distinct, RowOK
  <2>3. ASSUME NEW r \in Requests PROVE HandlerOK(r)'
    <3>1. HandlerOK(r)
      BY DEF Base
    <3>2. req[r].at \in Nat
      BY <1>0 DEF TypeOK, Handlers
    <3>3. req[r].at <= now => req[r].at <= now'
      BY <2>1, <3>2
    <3>4. UNCHANGED <<transfer, req, lock>>
      BY <2>1, SMTT(30)
    <3> QED
      BY <3>1, <3>3, <3>4, Zenon DEF HandlerOK, Creating, Telling
  <2> QED
    BY <2>2, <2>3 DEF Base
<1>6. CASE UNCHANGED vars
  BY <1>6, Zenon DEF vars, Base, TypeOK, HandlerOK, Creating, Telling, Distinct, RowOK
<1> QED
  BY <1>1, <1>2, <1>3, <1>4, <1>5, <1>6 DEF Next

\* Every variable keeps its type, and the handlers what they know at each
\* await of TransferService's coroutines.
THEOREM TypeCorrect == Spec => [](TypeOK /\ Base)
<1>1. Base => TypeOK
  BY DEF Base
<1> QED
  BY BaseInit, BaseNext, <1>1, PTL DEF Spec

-----------------------------------------------------------------------------
(* What a step of one handler does to the rows, to the notices and to what   *)
(* the handler still has to announce: the cases the other proofs go through. *)

\* It changes no row, sends nothing, and has nothing to announce.
QuietStep(r) ==
    /\ UNCHANGED <<transfer, sent>>
    /\ ~Telling(r)'
    /\ req'[r].pc = "insert" => EnsureCapacity(r) /\ ~Full(r)

ReleaseStep(r) ==
    /\ UNCHANGED <<transfer, sent>>
    /\ req[r].pc = "release" /\ req'[r].pc = "tell sender"
    /\ req'[r].t = req[r].t /\ req'[r].wrote = req[r].wrote

\* The status it wrote is the one it goes on to announce, unless the answer
\* of the database never came.
AnnouncesOrNot(r, pcs, s) ==
    \/ req'[r].pc = "idle"
    \/ req'[r].pc \in pcs /\ req'[r].t = req[r].t /\ req'[r].wrote = s

InsertStep(r) ==
    /\ req[r].pc = "insert" /\ transfer' = Inserted(r) /\ UNCHANGED sent
    /\ AnnouncesOrNot(r, {"tell recipient"}, "offered")

\* The moves an UPDATE of a handler makes.
Moves(from, to) ==
    \/ to = "accepted" /\ from = "offered"
    \/ to = "rejected" /\ from = "offered"
    \/ to \in {"cancelled", "expired"} /\ from \in ActiveStatuses

\* Where a handler goes with the status it wrote: outcomes release the budget.
AfterWrite(s) == IF s = "accepted" THEN "tell sender" ELSE "release"

UpdateStep(r, s) ==
    /\ ~Creating(r) /\ ~Telling(r)
    /\ req[r].t \in Transfers
    /\ Moves(transfer[req[r].t].status, s)
    /\ transfer' = Updated(req[r].t, s)
    /\ UNCHANGED sent
    /\ AnnouncesOrNot(r, {AfterWrite(s)}, s)

TellStep(r) ==
    /\ UNCHANGED transfer
    /\ \/ /\ req[r].pc = "tell sender"
          /\ Notify(r, transfer[req[r].t].sender)
          /\ \/ ~Telling(r)' /\ req'[r].pc # "insert"
             \/ /\ req'[r].pc = "tell recipient"
                /\ req'[r].t = req[r].t /\ req'[r].wrote = req[r].wrote
       \/ /\ req[r].pc = "tell recipient"
          /\ Notify(r, transfer[req[r].t].recipient)
          /\ ~Telling(r)' /\ req'[r].pc # "insert"

HandlerStep(r) ==
    /\ now' = now
    /\ \A q \in Requests \ {r} : req'[q] = req[q]
    /\ \/ QuietStep(r) \/ ReleaseStep(r) \/ InsertStep(r) \/ TellStep(r)
       \/ \E s \in Statuses : UpdateStep(r, s)

LEMMA QuietReturn ==
    ASSUME Base, NEW r \in Requests, Return(r), UNCHANGED <<now, transfer, sent>>
    PROVE  HandlerStep(r)
<1>1. TypeOK
  BY DEF Base
<1>2. req'[r].pc = "idle" /\ \A q \in Requests \ {r} : req'[q] = req[q]
  BY <1>1, ReturnFacts
<1>3. QuietStep(r)
  BY <1>2 DEF QuietStep, Telling
<1> QED
  BY <1>2, <1>3 DEF HandlerStep

LEMMA QuietGoto ==
    ASSUME Base, NEW r \in Requests, NEW pc \in PCs, Goto(r, pc),
           pc \in {"write", "expire", "reread", "each"},
           UNCHANGED <<now, transfer, sent>>
    PROVE  HandlerStep(r)
<1>1. TypeOK
  BY DEF Base
<1>2. req'[r].pc = pc /\ \A q \in Requests \ {r} : req'[q] = req[q]
  BY <1>1, GotoFacts
<1>3. QuietStep(r)
  BY <1>2, Zenon DEF QuietStep, Telling
<1> QED
  BY <1>2, <1>3 DEF HandlerStep

LEMMA ArriveShape ==
    ASSUME Base, NEW r \in Requests, Arrive(r)
    PROVE  HandlerStep(r)
<1>0. TypeOK /\ UNCHANGED <<now, transfer, sent>>
  BY ZenonT(60) DEF Base, Arrive, ArriveCreate, ArriveUpdate, ArriveLook, ArriveList
<1>1. \E pc \in {"validate", "read", "expire", "list"}, op \in Ops, t \in Transfers \cup {None},
         d \in Devices \cup {None}, e \in Devices \cup {None} : Start(r, pc, op, t, d, e)
  <2>1. active \subseteq Devices /\ Operations \subseteq Ops
    BY <1>0, ScenarioAssumption DEF TypeOK
  <2>2. CASE ArriveCreate(r)
    <3>1. "create" \in Ops
      BY DEF Ops
    <3> QED
      BY <2>1, <2>2, <3>1 DEF ArriveCreate
  <2>3. CASE ArriveUpdate(r)
    BY <2>1, <2>3, Zenon DEF ArriveUpdate
  <2>4. CASE ArriveLook(r)
    BY <2>1, <2>4, Zenon DEF ArriveLook
  <2>5. CASE ArriveList(r)
    <3>1. "list" \in Ops
      BY DEF Ops
    <3> QED
      BY <2>5, <3>1 DEF ArriveList
  <2> QED
    BY <2>2, <2>3, <2>4, <2>5 DEF Arrive
<1>2. PICK pc \in {"validate", "read", "expire", "list"}, op \in Ops, t \in Transfers \cup {None},
         d \in Devices \cup {None}, e \in Devices \cup {None} : Start(r, pc, op, t, d, e)
  BY <1>1
<1>3. pc \in PCs
  BY Zenon DEF PCs
<1>4. req'[r].pc = pc /\ \A q \in Requests \ {r} : req'[q] = req[q]
  BY <1>0, <1>2, <1>3, StartFacts
<1>5. QuietStep(r)
  BY <1>0, <1>4, Zenon DEF QuietStep, Telling
<1> QED
  BY <1>0, <1>4, <1>5, Zenon DEF HandlerStep

LEMMA CreateShape ==
    ASSUME Base, NEW r \in Requests, Validate(r) \/ EnsureCapacity(r) \/ Insert(r)
    PROVE  HandlerStep(r)
<1>0. TypeOK /\ UNCHANGED <<now, sent>>
  BY Zenon DEF Base, Validate, EnsureCapacity, Insert
<1>1. CASE Validate(r)
  <2>1. CASE req' = [req EXCEPT ![r].pc = "capacity", ![r].at = now]
    <3>1. req'[r].pc = "capacity" /\ \A q \in Requests \ {r} : req'[q] = req[q]
      BY <1>0, <2>1, ValidateFacts, Zenon
    <3>2. QuietStep(r)
      BY <1>0, <1>1, <3>1 DEF QuietStep, Telling, Validate
    <3> QED
      BY <1>0, <3>1, <3>2 DEF HandlerStep
  <2> QED
    BY <1>1, <2>1, QuietReturn, Zenon DEF Validate
<1>2. CASE EnsureCapacity(r)
  <2>1. CASE ~Full(r)
    <3>1. Goto(r, "insert") /\ "insert" \in PCs /\ UNCHANGED transfer
      BY <1>2, <2>1 DEF EnsureCapacity, PCs
    <3>2. req'[r].pc = "insert" /\ \A q \in Requests \ {r} : req'[q] = req[q]
      BY <1>0, <3>1, GotoFacts, Zenon
    <3>3. QuietStep(r)
      BY <1>0, <1>2, <2>1, <3>1, <3>2 DEF QuietStep, Telling
    <3> QED
      BY <1>0, <3>2, <3>3 DEF HandlerStep
  <2>2. CASE Full(r)
    BY <1>2, <2>2, QuietReturn DEF EnsureCapacity
  <2> QED
    BY <2>1, <2>2
<1>3. CASE Insert(r)
  <2>1. CASE InsertTakes(r)
    <3>1. /\ "tell recipient" \in PCs /\ "offered" \in Statuses
          /\ Announce(r, "tell recipient", "offered")
      BY <1>3, <2>1, Zenon DEF Insert, PCs, Statuses, ActiveStatuses
    <3>2. /\ req'[r].pc = "tell recipient" /\ req'[r].t = req[r].t /\ req'[r].wrote = "offered"
          /\ \A q \in Requests \ {r} : req'[q] = req[q]
      BY <1>0, <3>1, AnnounceFacts, Zenon
    <3>3. InsertStep(r)
      BY <1>0, <1>3, <2>1, <3>2, Zenon DEF InsertStep, AnnouncesOrNot, Insert
    <3> QED
      BY <1>0, <3>2, <3>3, Zenon DEF HandlerStep
  <2>2. CASE ~InsertTakes(r)
    BY <1>0, <1>3, <2>2, QuietReturn, Zenon DEF Insert
  <2> QED
    BY <2>1, <2>2
<1> QED
  BY <1>1, <1>2, <1>3

LEMMA UseShape ==
    ASSUME Base, NEW r \in Requests, UseRecord(r), UNCHANGED <<now, transfer, sent>>
    PROVE  HandlerStep(r)
<1>1. "write" \in PCs
  BY DEF PCs
<1> QED
  BY <1>1, QuietGoto, QuietReturn DEF UseRecord

LEMMA AnnounceShape ==
    ASSUME Base, NEW r \in Requests, NEW s \in Statuses, NEW pc \in PCs,
           pc = AfterWrite(s), Announce(r, pc, s),
           ~Creating(r), ~Telling(r), req[r].t \in Transfers,
           Moves(transfer[req[r].t].status, s),
           transfer' = Updated(req[r].t, s),
           UNCHANGED <<now, sent>>
    PROVE  HandlerStep(r)
<1>1. TypeOK
  BY Zenon DEF Base
<1>2. /\ req'[r].pc = pc /\ req'[r].t = req[r].t /\ req'[r].wrote = s
      /\ \A q \in Requests \ {r} : req'[q] = req[q]
  BY <1>1, AnnounceFacts, Zenon
<1>3. UpdateStep(r, s)
  BY <1>2, Zenon DEF UpdateStep, AnnouncesOrNot
<1> QED
  BY <1>2, <1>3, Zenon DEF HandlerStep

LEMMA ExpiryMoves ==
    ASSUME NEW t, ExpireTakes(t)
    PROVE  Moves(transfer[t].status, "expired") /\ "expired" \in Statuses
  BY DEF ExpireTakes, Moves, Statuses, TerminalStatuses

LEMMA UpdateShape ==
    ASSUME Base, NEW r \in Requests, Read(r) \/ Reread(r) \/ Expire(r) \/ Write(r)
    PROVE  HandlerStep(r)
<1>0. TypeOK /\ HandlerOK(r) /\ UNCHANGED <<now, sent>>
  BY Zenon DEF Base, Read, Reread, Expire, Write
<1>1. CASE Read(r)
  <2>1. CASE Goto(r, "expire")
    <3>1. "expire" \in PCs /\ UNCHANGED <<now, transfer, sent>>
      BY <1>1 DEF PCs, Read
    <3> QED
      BY <2>1, <3>1, QuietGoto, Zenon
  <2>2. CASE UseRecord(r)
    BY <1>1, <2>2, UseShape DEF Read
  <2> QED
    BY <1>1, <2>1, <2>2 DEF Read
<1>2. CASE Reread(r)
  BY <1>2, UseShape DEF Reread
<1>3. CASE Expire(r)
  <2>0. ~Creating(r) /\ ~Telling(r) /\ req[r].t \in Transfers
    BY <1>0, <1>3 DEF Expire, HandlerOK, Creating, Telling
  <2>1. CASE ExpireTakes(req[r].t)
    <3>1. /\ transfer' = Updated(req[r].t, "expired") /\ Announce(r, "release", "expired")
          /\ "release" \in PCs /\ "release" = AfterWrite("expired")
      BY <1>3, <2>1 DEF Expire, PCs, AfterWrite
    <3> QED
      BY <1>0, <2>0, <2>1, <3>1, ExpiryMoves, AnnounceShape, Zenon
  <2>2. CASE ~ExpireTakes(req[r].t)
    <3>1. /\ UNCHANGED <<now, transfer, sent>>
          /\ Goto(r, "each") \/ Return(r) \/ Goto(r, "reread")
          /\ "each" \in PCs /\ "reread" \in PCs
      BY <1>0, <1>3, <2>2 DEF Expire, PCs
    <3> QED
      BY <3>1, QuietGoto, QuietReturn
  <2> QED
    BY <2>1, <2>2
<1>4. CASE Write(r)
  <2>0. req[r].pc = "write" /\ ~Creating(r) /\ ~Telling(r) /\ req[r].t \in Transfers
    BY <1>0, <1>4, Zenon DEF Write, HandlerOK, Creating, Telling
  <2>1. CASE UpdateTakes(r)
    <3> DEFINE s == TargetOf(req[r].op)
               pc == AfterWrite(s)
    <3>1. transfer' = Updated(req[r].t, s) /\ Announce(r, pc, s)
      BY <1>4, <2>1, Zenon DEF Write, AfterWrite
    <3>2. pc \in PCs /\ pc = AfterWrite(s)
      BY DEF PCs, AfterWrite
    <3>3. Moves(transfer[req[r].t].status, s) /\ s \in Statuses
      BY <2>1, Zenon DEF UpdateTakes, Moves, TargetOf, SourcesOf, Statuses, TerminalStatuses,
                  ActiveStatuses
    <3> HIDE DEF s, pc
    <3> QED
      BY <1>0, <2>0, <3>1, <3>2, <3>3, AnnounceShape, Zenon
  <2>2. CASE ~UpdateTakes(r)
    BY <1>0, <1>4, <2>2, QuietReturn, Zenon DEF Write
  <2> QED
    BY <2>1, <2>2
<1> QED
  BY <1>1, <1>2, <1>3, <1>4

LEMMA TellShape ==
    ASSUME Base, NEW r \in Requests, Release(r) \/ TellSender(r) \/ TellRecipient(r)
    PROVE  HandlerStep(r)
<1>0. TypeOK /\ UNCHANGED <<now, transfer>>
  BY Zenon DEF Base, Release, TellSender, TellRecipient
<1>1. ASSUME NEW pc \in {"tell sender", "tell recipient", "each"}, Goto(r, pc)
      PROVE  /\ req'[r].pc = pc /\ req'[r].t = req[r].t /\ req'[r].wrote = req[r].wrote
             /\ \A q \in Requests \ {r} : req'[q] = req[q]
  <2>1. pc \in PCs
    BY Zenon DEF PCs
  <2> QED
    BY <1>0, <1>1, <2>1, GotoFacts, Zenon
<1>2. ASSUME Resume(r)
      PROVE  /\ req'[r].pc \in {"each", "idle"}
             /\ \A q \in Requests \ {r} : req'[q] = req[q]
  BY <1>0, <1>1, <1>2, ReturnFacts, Zenon DEF Resume
<1>3. CASE Release(r)
  BY <1>0, <1>1, <1>3, Zenon DEF Release, ReleaseStep, HandlerStep
<1>4. CASE TellSender(r)
  <2>1. CASE Goto(r, "tell recipient")
    BY <1>0, <1>1, <1>4, <2>1, Zenon DEF TellSender, TellStep, HandlerStep
  <2>2. CASE Resume(r)
    BY <1>0, <1>2, <1>4, <2>2, Zenon DEF TellSender, TellStep, HandlerStep, Telling
  <2> QED
    BY <1>4, <2>1, <2>2, Zenon DEF TellSender
<1>5. CASE TellRecipient(r)
  BY <1>0, <1>2, <1>5, Zenon DEF TellRecipient, TellStep, HandlerStep, Telling
<1> QED
  BY <1>3, <1>4, <1>5

LEMMA ListShape ==
    ASSUME Base, NEW r \in Requests, ListAll(r) \/ ListEach(r)
    PROVE  HandlerStep(r)
<1>0. TypeOK /\ UNCHANGED <<now, transfer, sent>>
  BY DEF Base, ListAll, ListEach
<1>1. CASE Return(r)
  BY <1>0, <1>1, QuietReturn
<1>2. ASSUME req'[r].pc \in {"each", "expire"}, \A q \in Requests \ {r} : req'[q] = req[q]
      PROVE  HandlerStep(r)
  BY <1>0, <1>2, Zenon DEF QuietStep, HandlerStep, Telling
<1>3. CASE ListAll(r)
  <2> DEFINE ts == {t \in Transfers : transfer[t].status \in ActiveStatuses}
  <2>1. ts \in SUBSET Transfers /\ req' = [req EXCEPT ![r].pc = "each", ![r].todo = ts]
    BY <1>3 DEF ListAll
  <2> HIDE DEF ts
  <2> QED
    BY <1>0, <1>2, <2>1, ListAllFacts, Zenon
<1>4. CASE ListEach(r) /\ ~Return(r)
  BY <1>0, <1>2, <1>4, ListEachEffect, Zenon
<1> QED
  BY <1>1, <1>3, <1>4

LEMMA TimeoutShape ==
    ASSUME Base, NEW r \in Requests, DbTimeout(r)
    PROVE  HandlerStep(r)
<1>0. TypeOK /\ HandlerOK(r) /\ Return(r) /\ UNCHANGED <<now, sent>>
  BY DEF Base, DbTimeout
<1>1. req'[r].pc = "idle" /\ \A q \in Requests \ {r} : req'[q] = req[q]
  BY <1>0, ReturnFacts
<1>2. CASE UNCHANGED transfer
  BY <1>0, <1>2, QuietReturn, Zenon
<1>3. CASE req[r].pc = "insert" /\ transfer' = Inserted(r)
  BY <1>0, <1>1, <1>3, Zenon DEF InsertStep, AnnouncesOrNot, HandlerStep
<1>4. CASE /\ req[r].pc = "write" /\ UpdateTakes(r)
           /\ transfer' = Updated(req[r].t, TargetOf(req[r].op))
  <2> DEFINE s == TargetOf(req[r].op)
  <2>1. Moves(transfer[req[r].t].status, s) /\ s \in Statuses
    BY <1>4, Zenon DEF UpdateTakes, Moves, TargetOf, SourcesOf, Statuses, TerminalStatuses,
                ActiveStatuses
  <2>2. ~Creating(r) /\ ~Telling(r) /\ req[r].t \in Transfers /\ transfer' = Updated(req[r].t, s)
    BY <1>0, <1>4, Zenon DEF HandlerOK, Creating, Telling
  <2> HIDE DEF s
  <2>3. UpdateStep(r, s)
    BY <1>0, <1>1, <2>1, <2>2, Zenon DEF UpdateStep, AnnouncesOrNot
  <2> QED
    BY <1>0, <1>1, <2>1, <2>3, Zenon DEF HandlerStep
<1>5. CASE /\ req[r].pc = "expire" /\ ExpireTakes(req[r].t)
           /\ transfer' = Updated(req[r].t, "expired")
  <2>1. Moves(transfer[req[r].t].status, "expired") /\ "expired" \in Statuses
    BY <1>5, ExpiryMoves, Zenon
  <2>2. ~Creating(r) /\ ~Telling(r) /\ req[r].t \in Transfers
    BY <1>0, <1>5 DEF HandlerOK, Creating, Telling
  <2> QED
    BY <1>0, <1>1, <1>5, <2>1, <2>2, Zenon DEF UpdateStep, AnnouncesOrNot, HandlerStep
<1> QED
  BY <1>2, <1>3, <1>4, <1>5, Zenon DEF DbTimeout

\* Every step of a handler is of one of these forms.
LEMMA HandlerShape ==
    ASSUME Base, NEW r \in Requests, Arrive(r) \/ Step(r) \/ DbTimeout(r)
    PROVE  HandlerStep(r)
  BY ArriveShape, CreateShape, UpdateShape, TellShape, ListShape, TimeoutShape, Zenon DEF Step

\* Neither the clock, nor a device that comes or goes, nor a restart touches
\* rows or notices; a restart only forgets what was to be announced.
LEMMA Environment ==
    ASSUME Base, Restart \/ Tick \/ UNCHANGED vars
                 \/ \E d \in Devices : Deactivate(d) \/ Activate(d)
    PROVE  /\ UNCHANGED <<transfer, sent>>
           /\ \A q \in Requests : req'[q] = req[q] \/ req'[q].pc = "idle"
<1>1. CASE Restart
  BY <1>1 DEF Restart, NoHandler
<1>2. CASE Tick
  BY <1>2, Zenon DEF Tick
<1>3. CASE UNCHANGED vars
  BY <1>3, Zenon DEF vars
<1>4. CASE \E d \in Devices : Deactivate(d) \/ Activate(d)
  BY <1>4 DEF Deactivate, Activate
<1> QED
  BY <1>1, <1>2, <1>3, <1>4, ZenonT(60)

-----------------------------------------------------------------------------
(* The capacity limits.  CapacityBound alone is not inductive: between its   *)
(* check and its insert a handler relies on nobody else inserting, and the   *)
(* check itself was made for an older clock reading.  Rows only leave the    *)
(* live set as time passes, and the lock keeps other inserts out.            *)

HasRoom(r) ==
    /\ Cardinality(LiveAt(now)) < MaxActivePerAccount
    /\ \A d \in {req[r].dev, req[r].peer} :
          Cardinality(LiveOf(d, now)) < MaxActivePerDevice

CapInv ==
    /\ CapacityBound
    /\ \A r \in Requests : req[r].pc = "insert" => HasRoom(r)

LEMMA LiveFinite ==
    ASSUME NEW at, NEW d
    PROVE  /\ IsFiniteSet(LiveAt(at)) /\ Cardinality(LiveAt(at)) \in Nat
           /\ IsFiniteSet(LiveOf(d, at)) /\ Cardinality(LiveOf(d, at)) \in Nat
<1>1. LiveAt(at) \subseteq Transfers /\ LiveOf(d, at) \subseteq Transfers
  BY DEF LiveAt, LiveOf
<1> QED
  BY <1>1, FiniteAssumption, FS_Subset, FS_CardinalityType, Zenon

\* A set that is part of a later live set is no larger.
LEMMA Shrinks ==
    ASSUME NEW S, NEW T, IsFiniteSet(T), S \subseteq T
    PROVE  /\ Cardinality(S) <= Cardinality(T)
           /\ Cardinality(S) \in Nat /\ Cardinality(T) \in Nat
  BY FS_Subset, FS_CardinalityType

LEMMA Grows ==
    ASSUME NEW S, NEW T, NEW x, IsFiniteSet(T), S \subseteq T \cup {x}
    PROVE  /\ Cardinality(S) <= Cardinality(T) + 1
           /\ Cardinality(S) \in Nat /\ Cardinality(T) \in Nat
<1>1. /\ IsFiniteSet(T \cup {x})
      /\ Cardinality(T \cup {x}) <= Cardinality(T) + 1
      /\ Cardinality(T) \in Nat
  BY FS_AddElement, FS_CardinalityType
<1>2. Cardinality(S) <= Cardinality(T \cup {x}) /\ Cardinality(S) \in Nat
  BY <1>1, Shrinks
<1>3. Cardinality(T \cup {x}) \in Nat
  BY <1>1, FS_CardinalityType
<1> QED
  BY <1>1, <1>2, <1>3

\* Checking with an older clock reading counts at least the rows live now.
LEMMA OlderReading ==
    ASSUME Base, NEW at \in Nat, at <= now, NEW d
    PROVE  LiveAt(now) \subseteq LiveAt(at) /\ LiveOf(d, now) \subseteq LiveOf(d, at)
<1>1. now \in Nat /\ \A t \in Transfers : transfer[t].expires_at \in Nat
  BY DEF Base, TypeOK, Rows
<1>2. LiveAt(now) \subseteq LiveAt(at)
  BY <1>1 DEF LiveAt
<1> QED
  BY <1>2 DEF LiveOf

LEMMA CheckedRoom ==
    ASSUME Base, NEW r \in Requests, req[r].pc = "capacity", ~Full(r)
    PROVE  HasRoom(r)
<1>1. req[r].at \in Nat
  BY Zenon DEF Base, TypeOK, Handlers
<1>2. req[r].at <= now
  BY Zenon DEF Base, HandlerOK
<1>3. ASSUME NEW d PROVE /\ Cardinality(LiveAt(now)) <= Cardinality(LiveAt(req[r].at))
                         /\ Cardinality(LiveOf(d, now)) <= Cardinality(LiveOf(d, req[r].at))
                         /\ Cardinality(LiveAt(now)) \in Nat
                         /\ Cardinality(LiveOf(d, now)) \in Nat
                         /\ Cardinality(LiveAt(req[r].at)) \in Nat
                         /\ Cardinality(LiveOf(d, req[r].at)) \in Nat
  BY <1>1, <1>2, OlderReading, LiveFinite, Shrinks, ZenonT(60)
<1>4. Cardinality(LiveAt(now)) < MaxActivePerAccount
  BY <1>3, LimitsAssumption DEF Full
<1>5. ASSUME NEW d \in {req[r].dev, req[r].peer}
      PROVE  Cardinality(LiveOf(d, now)) < MaxActivePerDevice
  BY <1>3, LimitsAssumption DEF Full
<1> QED
  BY <1>4, <1>5, Zenon DEF HasRoom

\* Rows a step may have ended, but neither moved nor prolonged.
KeepsRow(t) ==
    transfer'[t].status \in ActiveStatuses =>
        /\ transfer[t].status \in ActiveStatuses
        /\ transfer'[t].sender = transfer[t].sender
        /\ transfer'[t].recipient = transfer[t].recipient
        /\ transfer'[t].expires_at = transfer[t].expires_at

LEMMA CalmStep ==
    ASSUME Base, Base', now <= now', \A t \in Transfers : KeepsRow(t), NEW d
    PROVE  /\ Cardinality(LiveAt(now))' <= Cardinality(LiveAt(now))
           /\ Cardinality(LiveOf(d, now))' <= Cardinality(LiveOf(d, now))
           /\ Cardinality(LiveAt(now)) \in Nat /\ Cardinality(LiveAt(now))' \in Nat
           /\ Cardinality(LiveOf(d, now)) \in Nat /\ Cardinality(LiveOf(d, now))' \in Nat
<1>1. /\ now \in Nat /\ now' \in Nat
      /\ \A t \in Transfers : transfer[t].expires_at \in Nat
  BY DEF Base, TypeOK, Rows
<1>2. LiveAt(now)' \subseteq LiveAt(now)
  BY <1>1 DEF LiveAt, KeepsRow
<1>3. LiveOf(d, now)' \subseteq LiveOf(d, now)
  <2> SUFFICES ASSUME NEW t \in LiveOf(d, now)' PROVE t \in LiveOf(d, now)
    OBVIOUS
  <2>1. t \in LiveAt(now)' /\ t \in LiveAt(now) /\ d \in Participants(t)'
    BY <1>2 DEF LiveOf
  <2>2. transfer'[t].status \in ActiveStatuses /\ t \in Transfers
    BY <2>1 DEF LiveAt
  <2> QED
    BY <2>1, <2>2 DEF LiveOf, Participants, KeepsRow
<1> QED
  BY <1>2, <1>3, LiveFinite, Shrinks, Zenon

LEMMA CapCalm ==
    ASSUME Base, Base', CapInv, now <= now', \A t \in Transfers : KeepsRow(t),
           \A q \in Requests : req'[q].pc = "insert" =>
               HasRoom(q) /\ req'[q].dev = req[q].dev /\ req'[q].peer = req[q].peer
    PROVE  CapInv'
<1>1. CapacityBound'
  <2>1. Cardinality(LiveAt(now))' <= MaxActivePerAccount
    BY CalmStep, LimitsAssumption DEF CapInv, CapacityBound
  <2>2. ASSUME NEW d \in Devices PROVE Cardinality(LiveOf(d, now))' <= MaxActivePerDevice
    <3>1. Cardinality(LiveOf(d, now)) <= MaxActivePerDevice
      BY Zenon DEF CapInv, CapacityBound
    <3> QED
      BY <3>1, CalmStep, LimitsAssumption
  <2> QED
    BY <2>1, <2>2, ZenonT(60) DEF CapacityBound
<1>2. ASSUME NEW q \in Requests, req'[q].pc = "insert" PROVE HasRoom(q)'
  <2>1. HasRoom(q) /\ req'[q].dev = req[q].dev /\ req'[q].peer = req[q].peer
    BY <1>2, Zenon
  <2>2. Cardinality(LiveAt(now))' < MaxActivePerAccount
    <3>1. MaxActivePerAccount \in Nat
      BY LimitsAssumption, Zenon
    <3>2. Cardinality(LiveAt(now)) < MaxActivePerAccount
      BY <2>1, Zenon DEF HasRoom
    <3>3. /\ Cardinality(LiveAt(now))' <= Cardinality(LiveAt(now))
          /\ Cardinality(LiveAt(now)) \in Nat /\ Cardinality(LiveAt(now))' \in Nat
      BY CalmStep, Zenon
    <3> QED
      BY <3>1, <3>2, <3>3, StillFewer, Zenon
  <2>3. ASSUME NEW d \in {req[q].dev, req[q].peer}
        PROVE  Cardinality(LiveOf(d, now))' < MaxActivePerDevice
    <3>1. Cardinality(LiveOf(d, now)) < MaxActivePerDevice
      BY <2>1, Zenon DEF HasRoom
    <3> QED
      BY <3>1, CalmStep, LimitsAssumption
  <2> QED
    BY <2>1, <2>2, <2>3 DEF HasRoom
<1> QED
  BY <1>1, <1>2, Zenon DEF CapInv

LEMMA CapInsert ==
    ASSUME Base, Base', CapInv, NEW r \in Requests, now' = now, InsertStep(r),
           \A q \in Requests \ {r} : req'[q] = req[q]
    PROVE  CapInv'
<1>0. /\ HasRoom(r) /\ req[r].pc = "insert" /\ transfer' = Inserted(r)
      /\ \A u \in Transfers \ {req[r].t} : transfer'[u] = transfer[u]
      /\ transfer'[req[r].t].sender = req[r].dev /\ transfer'[req[r].t].recipient = req[r].peer
  BY RowsInserted, Zenon DEF InsertStep, CapInv
<1>1. LiveAt(now)' \subseteq LiveAt(now) \cup {req[r].t}
  BY <1>0 DEF LiveAt
<1>2. Cardinality(LiveAt(now))' <= MaxActivePerAccount
  <2>1. IsFiniteSet(LiveAt(now))
    BY LiveFinite
  <2>2. /\ Cardinality(LiveAt(now)') <= Cardinality(LiveAt(now)) + 1
        /\ Cardinality(LiveAt(now)') \in Nat /\ Cardinality(LiveAt(now)) \in Nat
    BY <1>1, <2>1, Grows, Zenon
  <2>3. Cardinality(LiveAt(now)) < MaxActivePerAccount
    BY <1>0, Zenon DEF HasRoom
  <2> QED
    BY <2>2, <2>3, LimitsAssumption
<1>3. ASSUME NEW d \in Devices PROVE Cardinality(LiveOf(d, now))' <= MaxActivePerDevice
  <2>1. LiveOf(d, now)' \subseteq LiveOf(d, now) \cup {req[r].t}
    <3> SUFFICES ASSUME NEW t \in LiveOf(d, now)', t # req[r].t PROVE t \in LiveOf(d, now)
      OBVIOUS
    <3>1. t \in LiveAt(now)' /\ d \in Participants(t)'
      BY DEF LiveOf
    <3>2. t \in Transfers /\ t \in LiveAt(now)
      BY <1>1, <3>1, Zenon DEF LiveAt
    <3>3. transfer'[t] = transfer[t]
      BY <1>0, <3>2, Zenon
    <3> QED
      BY <3>1, <3>2, <3>3, Zenon DEF LiveOf, Participants
  <2>2. CASE d \in {req[r].dev, req[r].peer}
    <3>1. Cardinality(LiveOf(d, now)) < MaxActivePerDevice
      BY <1>0, <2>2 DEF HasRoom
    <3>2. IsFiniteSet(LiveOf(d, now))
      BY LiveFinite
    <3>3. /\ Cardinality(LiveOf(d, now)') <= Cardinality(LiveOf(d, now)) + 1
          /\ Cardinality(LiveOf(d, now)') \in Nat /\ Cardinality(LiveOf(d, now)) \in Nat
      BY <2>1, <3>2, Grows, Zenon
    <3> QED
      BY <3>1, <3>3, LimitsAssumption
  <2>3. CASE d \notin {req[r].dev, req[r].peer}
    <3>1. LiveOf(d, now)' \subseteq LiveOf(d, now)
      BY <1>0, <2>1, <2>3, Zenon DEF LiveOf, Participants
    <3>2. Cardinality(LiveOf(d, now)) <= MaxActivePerDevice
      BY DEF CapInv, CapacityBound
    <3> QED
      BY <3>1, <3>2, Shrinks, LiveFinite, LimitsAssumption
  <2> QED
    BY <2>2, <2>3, Zenon
<1>4. ASSUME NEW q \in Requests PROVE req'[q].pc # "insert"
  <2>1. req'[r].pc # "insert"
    BY ZenonT(60) DEF InsertStep, AnnouncesOrNot
  <2>2. CASE q # r
    BY <1>0, <2>2 DEF Base, HandlerOK
  <2> QED
    BY <2>1, <2>2
<1> QED
  BY <1>2, <1>3, <1>4, SMTT(30) DEF CapInv, CapacityBound

LEMMA SameRows ==
    ASSUME UNCHANGED transfer PROVE \A t \in Transfers : KeepsRow(t)
  BY Zenon DEF KeepsRow

LEMMA UpdatedRows ==
    ASSUME Base, NEW t \in Transfers, NEW s \in Statuses,
           transfer[t].status \in ActiveStatuses, transfer' = Updated(t, s)
    PROVE  \A u \in Transfers : KeepsRow(u)
<1>1. TypeOK
  BY DEF Base
<1>2. /\ transfer'[t].sender = transfer[t].sender
      /\ transfer'[t].recipient = transfer[t].recipient
      /\ transfer'[t].expires_at = transfer[t].expires_at
      /\ \A u \in Transfers \ {t} : transfer'[u] = transfer[u]
  BY <1>1, UpdatedFacts
<1> QED
  BY <1>2 DEF KeepsRow

LEMMA CapHandler ==
    ASSUME Base, Base', CapInv, NEW r \in Requests, HandlerStep(r)
    PROVE  CapInv'
<1>0. /\ now' = now /\ now \in Nat
      /\ \A q \in Requests \ {r} : req'[q] = req[q]
      /\ \A q \in Requests \ {r} : req[q].pc = "insert" => HasRoom(q)
  BY ZenonT(60) DEF HandlerStep, CapInv, Base, TypeOK
<1>1. CASE QuietStep(r)
  <2>1. req'[r].pc = "insert" =>
            HasRoom(r) /\ req'[r].dev = req[r].dev /\ req'[r].peer = req[r].peer
    <3> SUFFICES ASSUME req'[r].pc = "insert"
                 PROVE  HasRoom(r) /\ req'[r].dev = req[r].dev /\ req'[r].peer = req[r].peer
      OBVIOUS
    <3>1. /\ req[r].pc = "capacity" /\ ~Full(r) /\ Goto(r, "insert")
          /\ TypeOK /\ "insert" \in PCs
      BY <1>1 DEF QuietStep, EnsureCapacity, Base, PCs
    <3> QED
      BY <3>1, CheckedRoom, GotoFacts, Zenon
  <2>2. \A t \in Transfers : KeepsRow(t)
    BY <1>1, SameRows, ZenonT(60) DEF QuietStep
  <2>3. now <= now'
    BY <1>0, NoLess, Zenon
  <2>4. \A q \in Requests : req'[q].pc = "insert" =>
            HasRoom(q) /\ req'[q].dev = req[q].dev /\ req'[q].peer = req[q].peer
    BY <1>0, <2>1, ZenonT(60)
  <2> QED
    BY <2>2, <2>3, <2>4, CapCalm, ZenonT(60)
<1>2. CASE ReleaseStep(r) \/ TellStep(r)
  <2>1. req'[r].pc # "insert" /\ UNCHANGED transfer
    BY <1>2, Zenon DEF ReleaseStep, TellStep
  <2> QED
    BY <1>0, <2>1, SameRows, CapCalm
<1>3. CASE InsertStep(r)
  BY <1>0, <1>3, CapInsert, ZenonT(60)
<1>4. ASSUME NEW s \in Statuses, UpdateStep(r, s) PROVE CapInv'
  <2>1. /\ req'[r].pc # "insert" /\ req[r].t \in Transfers
        /\ transfer[req[r].t].status \in ActiveStatuses
        /\ transfer' = Updated(req[r].t, s)
    BY <1>4, Zenon DEF UpdateStep, AnnouncesOrNot, AfterWrite, Moves, ActiveStatuses
  <2> QED
    BY <1>0, <2>1, UpdatedRows, CapCalm
<1> QED
  BY <1>1, <1>2, <1>3, <1>4, Zenon DEF HandlerStep

LEMMA CapNext == Base /\ Base' /\ CapInv /\ [Next]_vars => CapInv'
<1> SUFFICES ASSUME Base, Base', CapInv, [Next]_vars PROVE CapInv'
  OBVIOUS
<1>0. now \in Nat /\ \A q \in Requests : req[q].pc = "insert" => HasRoom(q)
  BY DEF Base, TypeOK, CapInv
<1>1. ASSUME NEW r \in Requests, Arrive(r) \/ Step(r) \/ DbTimeout(r) PROVE CapInv'
  BY <1>1, HandlerShape, CapHandler, ZenonT(60)
<1>2. ASSUME NEW t \in Transfers, MarkNegotiating(t) PROVE CapInv'
  <2>1. /\ transfer[t].status \in ActiveStatuses /\ transfer' = Updated(t, "negotiating")
        /\ "negotiating" \in Statuses
        /\ UNCHANGED <<now, req>>
    BY <1>2 DEF MarkNegotiating, ActiveStatuses, Statuses
  <2> QED
    BY <1>0, <2>1, UpdatedRows, CapCalm
<1>3. ASSUME UNCHANGED transfer, now <= now',
             \A q \in Requests : req'[q].pc = "insert" => req'[q] = req[q]
      PROVE  CapInv'
  BY <1>0, <1>3, SameRows, CapCalm, Zenon
<1>4. ASSUME NEW d \in Devices, Deactivate(d) \/ Activate(d) PROVE CapInv'
  BY <1>0, <1>3, <1>4 DEF Deactivate, Activate
<1>5. CASE Restart
  BY <1>0, <1>3, <1>5 DEF Restart, NoHandler
<1>6. CASE Tick
  BY <1>0, <1>3, <1>6 DEF Tick
<1>7. CASE UNCHANGED vars
  BY <1>0, <1>3, <1>7 DEF vars
<1> QED
  BY <1>1, <1>2, <1>4, <1>5, <1>6, <1>7, ZenonT(60) DEF Next

LEMMA CapInit == Init => CapInv
<1> SUFFICES ASSUME Init PROVE CapInv
  OBVIOUS
<1>1. \A t \in Transfers : transfer[t].status \notin ActiveStatuses
  BY Zenon DEF Init, NoRow, ActiveStatuses
<1>2. LiveAt(now) = {} /\ \A d \in Devices : LiveOf(d, now) = {}
  BY <1>1 DEF LiveAt, LiveOf
<1>3. CapacityBound
  BY <1>2, FS_EmptySet, LimitsAssumption DEF CapacityBound
<1>4. \A r \in Requests : req[r].pc # "insert"
  BY DEF Init, NoHandler
<1> QED
  BY <1>3, <1>4 DEF CapInv

\* The limits of TransferService._ensure_capacity hold in every state, for any
\* number of handlers and whatever the difference of the clocks.
THEOREM CapacityTheorem == Spec => []CapacityBound
<1>1. Base /\ CapInv /\ [Next]_vars => (Base /\ CapInv)'
  BY BaseNext, CapNext
<1>2. CapInv => CapacityBound
  BY DEF CapInv
<1> QED
  BY BaseInit, CapInit, <1>1, <1>2, PTL DEF Spec

-----------------------------------------------------------------------------
(* The notices.  What was heard is seen to be in order only together with    *)
(* what is still to be told.                                                 *)

MayFollow(past, s) == Lifecycle!MayFollow(past, s)

Untold(t, d, s) == \A i \in DOMAIN sent[t][d] : sent[t][d][i] # s

\* What a handler announces was the transfer's status, and the devices it has
\* yet to tell have not heard of it.
TellOK(r) ==
    Telling(r) =>
        /\ MayFollow(req[r].wrote, transfer[req[r].t].status)
        /\ req[r].pc # "tell recipient" =>
              \A d \in Devices : Untold(req[r].t, d, req[r].wrote)
        /\ Untold(req[r].t, transfer[req[r].t].recipient, req[r].wrote)

\* Two handlers never announce the same status of a transfer.
OneTeller ==
    \A q, r \in Requests :
        q # r /\ Telling(q) /\ Telling(r) /\ req[q].t = req[r].t
            => req[q].wrote # req[r].wrote

HeardOK(t, d) ==
    /\ \A i \in DOMAIN sent[t][d] : MayFollow(sent[t][d][i], transfer[t].status)
    /\ \A i, j \in DOMAIN sent[t][d] : i # j => sent[t][d][i] # sent[t][d][j]

NoticeInv ==
    /\ \A r \in Requests : TellOK(r)
    /\ OneTeller
    /\ \A t \in Transfers, d \in Devices : HeardOK(t, d)

-----------------------------------------------------------------------------
(* Facts about the order of statuses. *)

LEMMA FollowUpdate ==
    ASSUME NEW p, NEW x, NEW y, MayFollow(p, x), x \in ActiveStatuses,
           y \notin {"none", "offered"}
    PROVE  MayFollow(p, y)
  BY DEF MayFollow, Lifecycle!MayFollow, Lifecycle!Outcomes, ActiveStatuses

LEMMA FollowNone == ASSUME NEW p PROVE ~MayFollow(p, "none")
  BY DEF MayFollow, Lifecycle!MayFollow, Lifecycle!Outcomes

LEMMA FollowNew ==
    ASSUME NEW x, NEW s, Moves(x, s)
    PROVE  /\ ~MayFollow(s, x) /\ MayFollow(s, s)
           /\ x \in ActiveStatuses /\ s \notin {"none", "offered"}
           /\ s \in Lifecycle!ValidTargets(x)
  BY DEF MayFollow, Lifecycle!MayFollow, Lifecycle!Outcomes, Lifecycle!ValidTargets,
         Lifecycle!Endings, Moves, ActiveStatuses

LEMMA FollowOutcome ==
    ASSUME NEW p \in TerminalStatuses, NEW s, MayFollow(p, s)
    PROVE  p = s
  BY SMTT(30) DEF MayFollow, Lifecycle!MayFollow, Lifecycle!Outcomes, TerminalStatuses

-----------------------------------------------------------------------------
(* The invariant is kept by each form of step. *)

\* A handler that is not involved, and whose row keeps its participants and
\* moves at most forward, keeps its part.
LEMMA TellKept ==
    ASSUME NEW q \in Requests, TellOK(q), req'[q] = req[q], UNCHANGED sent,
           Telling(q) =>
              /\ transfer'[req[q].t].recipient = transfer[req[q].t].recipient
              /\ MayFollow(req[q].wrote, transfer'[req[q].t].status)
    PROVE  TellOK(q)'
  BY Zenon DEF TellOK, Telling, Untold

\* An UPDATE that moves an active row forward.
LEMMA NoticeUpdate ==
    ASSUME Base, NoticeInv, NEW t \in Transfers, NEW s \in Statuses,
           transfer[t].status \in ActiveStatuses, s \notin {"none", "offered"},
           transfer' = Updated(t, s), UNCHANGED sent
    PROVE  /\ \A u \in Transfers, d \in Devices : HeardOK(u, d)'
           /\ \A q \in Requests : req'[q] = req[q] => TellOK(q)'
<1>0. TypeOK
  BY Zenon DEF Base
<1>1. /\ transfer'[t].status = s /\ transfer'[t].recipient = transfer[t].recipient
      /\ \A u \in Transfers \ {t} : transfer'[u] = transfer[u]
  BY <1>0, UpdatedFacts
<1>2. ASSUME NEW u \in Transfers, NEW p, MayFollow(p, transfer[u].status)
      PROVE  MayFollow(p, transfer'[u].status)
  BY <1>1, <1>2, FollowUpdate, ZenonT(60)
<1>3. ASSUME NEW u \in Transfers, NEW d \in Devices PROVE HeardOK(u, d)'
  <2>1. HeardOK(u, d)
    BY DEF NoticeInv
  <2>2. \A i \in DOMAIN sent[u][d] : MayFollow(sent[u][d][i], transfer'[u].status)
    BY <1>2, <2>1, ZenonT(60) DEF HeardOK
  <2> QED
    BY <2>1, <2>2 DEF HeardOK
<1>4. ASSUME NEW q \in Requests, req'[q] = req[q] PROVE TellOK(q)'
  <2>1. TellOK(q)
    BY DEF NoticeInv
  <2>2. Telling(q) => req[q].t \in Transfers
    BY Zenon DEF Base, HandlerOK, Telling
  <2>3. Telling(q) => /\ transfer'[req[q].t].recipient = transfer[req[q].t].recipient
                      /\ MayFollow(req[q].wrote, transfer'[req[q].t].status)
    BY <1>1, <1>2, <2>1, <2>2, Zenon DEF TellOK
  <2> QED
    BY <1>4, <2>1, <2>3, TellKept
<1> QED
  BY <1>3, <1>4

LEMMA NoticeUpdateStep ==
    ASSUME Base, NoticeInv, NEW r \in Requests, NEW s \in Statuses, UpdateStep(r, s),
           \A q \in Requests \ {r} : req'[q] = req[q]
    PROVE  NoticeInv'
<1>00. PICK t \in Transfers : t = req[r].t
  BY Zenon DEF UpdateStep
<1>0. /\ req[r].t = t /\ Moves(transfer[t].status, s) /\ transfer' = Updated(t, s)
      /\ UNCHANGED sent /\ TypeOK
      /\ \/ req'[r].pc = "idle"
         \/ req'[r].pc \in {"release", "tell sender"} /\ req'[r].t = t /\ req'[r].wrote = s
  BY <1>00, Zenon DEF UpdateStep, AnnouncesOrNot, AfterWrite, Base
<1>1. /\ ~MayFollow(s, transfer[t].status) /\ MayFollow(s, s)
      /\ transfer[t].status \in ActiveStatuses /\ s \notin {"none", "offered"}
  BY <1>0, FollowNew, Zenon
<1>2. /\ \A u \in Transfers, d \in Devices : HeardOK(u, d)'
      /\ \A q \in Requests : req'[q] = req[q] => TellOK(q)'
  BY <1>0, <1>1, NoticeUpdate, Zenon
<1>3. /\ transfer'[t].status = s /\ transfer'[t].recipient = transfer[t].recipient
  BY <1>0, UpdatedFacts, ZenonT(60)
<1>4. \A d \in Devices : Untold(t, d, s)
  <2> SUFFICES ASSUME NEW d \in Devices, NEW i \in DOMAIN sent[t][d]
               PROVE  sent[t][d][i] # s
    BY DEF Untold
  <2>1. MayFollow(sent[t][d][i], transfer[t].status)
    BY DEF NoticeInv, HeardOK
  <2> QED
    BY <1>1, <2>1
<1>5. transfer[t].recipient \in Devices
  BY <1>0, <1>1, Zenon DEF Base, RowOK, ActiveStatuses
<1>6. TellOK(r)'
  <2> SUFFICES ASSUME Telling(r)' PROVE TellOK(r)'
    BY Zenon DEF TellOK
  <2>1. req'[r].t = t /\ req'[r].wrote = s
    BY <1>0, Zenon DEF Telling
  <2>2. \A d \in Devices : Untold(t, d, s)'
    BY <1>0, <1>4, Zenon DEF Untold
  <2>3. MayFollow(req'[r].wrote, transfer'[req'[r].t].status)
    BY <1>1, <1>3, <2>1, Zenon
  <2>4. \A d \in Devices : \A i \in DOMAIN sent'[req'[r].t][d] :
            sent'[req'[r].t][d][i] # req'[r].wrote
    BY <2>1, <2>2 DEF Untold
  <2>5. transfer'[req'[r].t].recipient \in Devices
    BY <1>3, <1>5, <2>1, Zenon
  <2> QED
    BY <2>3, <2>4, <2>5, Zenon DEF TellOK, Untold
<1>7. OneTeller'
  <2>1. ASSUME NEW q \in Requests \ {r}, Telling(q)', Telling(r)', req'[q].t = req'[r].t
        PROVE  req'[q].wrote # req'[r].wrote
    <3>1. req'[r].t = t /\ req'[r].wrote = s
      BY <1>0, <2>1, Zenon DEF Telling
    <3>2. req'[q] = req[q] /\ Telling(q) /\ req[q].t = t
      BY <2>1, <3>1, Zenon DEF Telling
    <3>3. MayFollow(req[q].wrote, transfer[t].status)
      BY <3>2, Zenon DEF NoticeInv, TellOK
    <3> QED
      BY <1>1, <3>1, <3>2, <3>3
  <2>2. ASSUME NEW q \in Requests \ {r}, NEW p \in Requests \ {r}, q # p,
               Telling(q)', Telling(p)', req'[q].t = req'[p].t
        PROVE  req'[q].wrote # req'[p].wrote
    <3>1. req'[q] = req[q] /\ req'[p] = req[p]
      BY Zenon
    <3> QED
      BY <2>2, <3>1, Zenon DEF NoticeInv, OneTeller, Telling
  <2> QED
    BY <2>1, <2>2, ZenonT(60) DEF OneTeller
<1> QED
  <2>1. \A q \in Requests : TellOK(q)'
    BY <1>2, <1>6
  <2> QED
    BY <1>2, <1>7, <2>1, Zenon DEF NoticeInv

LEMMA NoticeInsertStep ==
    ASSUME Base, Base', NoticeInv, NEW r \in Requests, InsertStep(r),
           \A q \in Requests \ {r} : req'[q] = req[q]
    PROVE  NoticeInv'
<1>00. PICK t \in Transfers : t = req[r].t
  BY Zenon DEF InsertStep, Base, HandlerOK
<1>0. /\ req[r].t = t /\ transfer[t].status = "none"
      /\ transfer'[t].status = "offered"
      /\ \A u \in Transfers \ {t} : transfer'[u] = transfer[u]
      /\ UNCHANGED sent
      /\ \/ req'[r].pc = "idle"
         \/ /\ req'[r].pc = "tell recipient"
            /\ req'[r].t = t /\ req'[r].wrote = "offered"
  BY <1>00, RowsInserted, Zenon DEF InsertStep, AnnouncesOrNot, Base, HandlerOK, Creating
<1>1. ASSUME NEW d \in Devices PROVE DOMAIN sent[t][d] = {}
  <2> SUFFICES ASSUME NEW i \in DOMAIN sent[t][d] PROVE FALSE
    BY Zenon
  <2>1. MayFollow(sent[t][d][i], transfer[t].status)
    BY DEF NoticeInv, HeardOK
  <2> QED
    BY <1>0, <2>1, FollowNone, Zenon
<1>2. ASSUME NEW u \in Transfers, NEW d \in Devices PROVE HeardOK(u, d)'
  <2>1. CASE u = t
    BY <1>0, <1>1, <2>1, ZenonT(60) DEF HeardOK
  <2>2. CASE u # t
    <3>1. HeardOK(u, d) /\ transfer'[u] = transfer[u] /\ sent' = sent
      BY <1>0, <2>2, Zenon DEF NoticeInv
    <3> QED
      BY <3>1 DEF HeardOK
  <2> QED
    BY <2>1, <2>2
<1>3. ASSUME NEW q \in Requests \ {r}
      PROVE  TellOK(q)' /\ (Telling(q) => req[q].t # t)
  <2>1. TellOK(q) /\ req'[q] = req[q]
    BY DEF NoticeInv
  <2>2. Telling(q) => req[q].t \in Transfers /\ req[q].t # t
    BY <1>0, ZenonT(60) DEF Base, HandlerOK, Telling
  <2>3. Telling(q) => /\ transfer'[req[q].t].recipient = transfer[req[q].t].recipient
                      /\ MayFollow(req[q].wrote, transfer'[req[q].t].status)
    BY <1>0, <2>1, <2>2, Zenon DEF TellOK
  <2> QED
    BY <1>0, <2>1, <2>2, <2>3, TellKept, ZenonT(60)
<1>4. TellOK(r)'
  <2> SUFFICES ASSUME Telling(r)' PROVE TellOK(r)'
    BY Zenon DEF TellOK
  <2>1. req'[r].pc = "tell recipient" /\ req'[r].t = t /\ req'[r].wrote = "offered"
    BY <1>0, Zenon DEF Telling
  <2>2. transfer'[t].recipient \in Devices
    BY <1>0, Zenon DEF Base, RowOK
  <2>3. DOMAIN sent'[t][transfer'[t].recipient] = {}
    BY <1>0, <1>1, <2>2, Zenon
  <2>4. MayFollow("offered", "offered")
    BY Zenon DEF MayFollow, Lifecycle!MayFollow
  <2> QED
    BY <1>0, <2>1, <2>3, <2>4, Zenon DEF TellOK, Untold
<1>5. OneTeller'
  <2>1. ASSUME NEW q \in Requests \ {r}, Telling(q)', Telling(r)' PROVE req'[q].t # req'[r].t
    BY <1>0, <1>3, <2>1, Zenon DEF Telling
  <2>2. ASSUME NEW q \in Requests \ {r}, NEW p \in Requests \ {r}, q # p,
               Telling(q)', Telling(p)', req'[q].t = req'[p].t
        PROVE  req'[q].wrote # req'[p].wrote
    <3>1. req'[q] = req[q] /\ req'[p] = req[p]
      OBVIOUS
    <3> QED
      BY <2>2, <3>1, Zenon DEF NoticeInv, OneTeller, Telling
  <2> QED
    BY <2>1, <2>2 DEF OneTeller
<1> QED
  <2>1. \A q \in Requests : TellOK(q)'
    BY <1>3, <1>4
  <2> QED
    BY <1>2, <1>5, <2>1, ZenonT(60) DEF NoticeInv

\* Nothing is written and nothing is sent, and each handler still announces
\* what it announced or nothing.
LEMMA NoticeStill ==
    ASSUME NoticeInv, UNCHANGED <<transfer, sent>>,
           \A q \in Requests : Telling(q)' =>
               /\ Telling(q) /\ req'[q].t = req[q].t /\ req'[q].wrote = req[q].wrote
               /\ req[q].pc = "tell recipient" => req'[q].pc = "tell recipient"
    PROVE  NoticeInv'
<1>1. ASSUME NEW t \in Transfers, NEW d \in Devices PROVE HeardOK(t, d)'
  <2>1. HeardOK(t, d)
    BY Zenon DEF NoticeInv
  <2> QED
    BY <2>1, Zenon DEF HeardOK
<1>2. OneTeller'
  BY ZenonT(30) DEF NoticeInv, OneTeller
<1>3. ASSUME NEW q \in Requests PROVE TellOK(q)'
  <2> SUFFICES ASSUME Telling(q)' PROVE TellOK(q)'
    BY Zenon DEF TellOK
  <2>1. /\ TellOK(q) /\ Telling(q) /\ req'[q].t = req[q].t /\ req'[q].wrote = req[q].wrote
        /\ req[q].pc = "tell recipient" => req'[q].pc = "tell recipient"
    BY Zenon DEF NoticeInv
  <2> QED
    BY <2>1, Zenon DEF TellOK, Untold
<1> QED
  BY <1>1, <1>2, <1>3, Zenon DEF NoticeInv

LEMMA AppendFacts ==
    ASSUME NEW S, NEW h \in Seq(S), NEW x \in S
    PROVE  /\ DOMAIN h \subseteq DOMAIN Append(h, x)
           /\ \A i \in DOMAIN h : Append(h, x)[i] = h[i]
           /\ \A i \in DOMAIN Append(h, x) : i \in DOMAIN h \/ (i = Len(h) + 1 /\ Append(h, x)[i] = x)
           /\ Len(h) + 1 \notin DOMAIN h
  OBVIOUS

\* One device's list of notices has grown by a status.
Grown(t, d, s) ==
    /\ \A u \in Transfers, e \in Devices :
          ~(u = t /\ e = d) => sent'[u][e] = sent[u][e]
    /\ \A i \in DOMAIN sent[t][d] : sent'[t][d][i] = sent[t][d][i]
    /\ \A i \in DOMAIN sent'[t][d] :
          i \in DOMAIN sent[t][d] \/ (i = Len(sent[t][d]) + 1 /\ sent'[t][d][i] = s)

LEMMA SentAppend ==
    ASSUME Base, NEW t \in Transfers, NEW d \in Devices, NEW s \in Statuses,
           sent' = [sent EXCEPT ![t][d] = Append(@, s)]
    PROVE  /\ sent'[t][d] = Append(sent[t][d], s)
           /\ \A u \in Transfers, e \in Devices :
                 ~(u = t /\ e = d) => sent'[u][e] = sent[u][e]
  BY DEF Base, TypeOK

LEMMA SentGrown ==
    ASSUME Base, NEW t \in Transfers, NEW d \in Devices, NEW s \in Statuses,
           sent'[t][d] = Append(sent[t][d], s),
           \A u \in Transfers, e \in Devices :
              ~(u = t /\ e = d) => sent'[u][e] = sent[u][e]
    PROVE  Grown(t, d, s)
<1>1. sent[t][d] \in Seq(Statuses)
  BY DEF Base, TypeOK
<1>2. /\ \A i \in DOMAIN sent[t][d] : sent'[t][d][i] = sent[t][d][i]
      /\ \A i \in DOMAIN sent'[t][d] :
            i \in DOMAIN sent[t][d] \/ (i = Len(sent[t][d]) + 1 /\ sent'[t][d][i] = s)
  BY <1>1, AppendFacts
<1> QED
  BY <1>2 DEF Grown

\* A notice of a status the device has not heard of is queued on its socket.
LEMMA NoticeSend ==
    ASSUME Base, NoticeInv, NEW r \in Requests, Telling(r),
           NEW t \in Transfers, t = req[r].t,
           NEW d \in Devices, NEW s \in Statuses, s = req[r].wrote, Untold(t, d, s),
           Grown(t, d, s),
           UNCHANGED transfer
    PROVE  /\ \A u \in Transfers, e \in Devices : HeardOK(u, e)'
           /\ \A u \in Transfers, e \in Devices, w \in Statuses :
                 Untold(u, e, w) /\ ~(u = t /\ e = d /\ w = s) => Untold(u, e, w)'
<1>1. \A u \in Transfers, e \in Devices :
         ~(u = t /\ e = d) => sent'[u][e] = sent[u][e]
  BY ZenonT(60) DEF Grown
<1>2. /\ \A i \in DOMAIN sent[t][d] : sent'[t][d][i] = sent[t][d][i]
      /\ \A i \in DOMAIN sent'[t][d] :
            i \in DOMAIN sent[t][d] \/ (i = Len(sent[t][d]) + 1 /\ sent'[t][d][i] = s)
  BY DEF Grown
<1>3. ASSUME NEW u \in Transfers, NEW e \in Devices PROVE HeardOK(u, e)'
  <2>0. HeardOK(u, e)
    BY Zenon DEF NoticeInv
  <2>1. CASE u = t /\ e = d
    <3>1. MayFollow(s, transfer[t].status)
      BY Zenon DEF NoticeInv, TellOK
    <3>2. /\ \A i \in DOMAIN sent[t][d] : MayFollow(sent[t][d][i], transfer[t].status)
          /\ \A i, j \in DOMAIN sent[t][d] : i # j => sent[t][d][i] # sent[t][d][j]
      BY <2>0, <2>1, ZenonT(60) DEF HeardOK
    <3>3. ASSUME NEW i \in DOMAIN sent'[t][d]
          PROVE  MayFollow(sent'[t][d][i], transfer[t].status)
      <4>1. CASE i \in DOMAIN sent[t][d]
        <5>1. sent'[t][d][i] = sent[t][d][i]
          BY <1>2, <4>1, Zenon
        <5> QED
          BY <3>2, <4>1, <5>1, Zenon
      <4>2. CASE i \notin DOMAIN sent[t][d]
        <5>1. sent'[t][d][i] = s
          BY <1>2, <3>3, <4>2, Zenon
        <5> QED
          BY <3>1, <5>1, Zenon
      <4> QED
        BY <4>1, <4>2, Zenon
    <3>4. Avoids(sent[t][d], s)
      BY Zenon DEF Untold, Avoids
    <3>5. Longer(sent[t][d], sent'[t][d], Len(sent[t][d]) + 1, s)
      BY <1>2, Zenon DEF Longer
    <3>6. Differ(sent[t][d])
      BY <3>2, Zenon DEF Differ
    <3>7. Differ(sent'[t][d])
      BY <3>4, <3>5, <3>6, LongerDiffers, ZenonT(60)
    <3>8. transfer' = transfer
      OBVIOUS
    <3>9. \A i \in DOMAIN sent'[t][d] : MayFollow(sent'[t][d][i], transfer'[t].status)
      BY <3>3, <3>8, Zenon
    <3>10. HeardOK(t, d)'
      BY <3>7, <3>9, ZenonT(60) DEF HeardOK, Differ
    <3> QED
      BY <2>1, <3>10, Zenon
  <2>2. CASE ~(u = t /\ e = d)
    <3>1. sent'[u][e] = sent[u][e]
      BY <1>1, <2>2
    <3> QED
      BY <2>0, <3>1, Zenon DEF HeardOK
  <2> QED
    BY <2>1, <2>2
<1>4. ASSUME NEW u \in Transfers, NEW e \in Devices, NEW w \in Statuses,
             Untold(u, e, w), ~(u = t /\ e = d /\ w = s)
      PROVE  Untold(u, e, w)'
  <2>1. CASE u = t /\ e = d
    BY <1>2, <1>4, <2>1, ZenonT(60) DEF Untold
  <2>2. CASE ~(u = t /\ e = d)
    <3>1. sent'[u][e] = sent[u][e]
      BY <1>1, <2>2
    <3> QED
      BY <1>4, <3>1, Zenon DEF Untold
  <2> QED
    BY <2>1, <2>2
<1> QED
  BY <1>3, <1>4, Zenon

LEMMA NoticeTellStep ==
    ASSUME Base, NoticeInv, NEW r \in Requests, TellStep(r),
           \A q \in Requests \ {r} : req'[q] = req[q]
    PROVE  NoticeInv'
<1>1. PICK t \in Transfers : t = req[r].t
  BY ZenonT(60) DEF TellStep, Base, HandlerOK, Telling
<1>2. PICK s \in Statuses : s = req[r].wrote
  BY DEF Base, TypeOK, Handlers
<1>3. PICK d : /\ Notify(r, d)
               /\ req[r].pc = "tell sender" => d = transfer[t].sender
               /\ req[r].pc = "tell recipient" => d = transfer[t].recipient
  BY <1>1, Zenon DEF TellStep
<1>4. /\ transfer[t].sender \in Devices /\ transfer[t].recipient \in Devices
      /\ transfer[t].sender # transfer[t].recipient
  BY <1>1, Zenon DEF TellStep, Base, HandlerOK, RowOK, Telling
<1>5. /\ Telling(r) /\ UNCHANGED transfer
      /\ Telling(r)' => /\ req[r].pc = "tell sender" /\ req'[r].pc = "tell recipient"
                        /\ req'[r].t = t /\ req'[r].wrote = s
  BY <1>1, <1>2, Zenon DEF TellStep, Telling
<1>6. CASE UNCHANGED sent
  <2>1. ASSUME NEW q \in Requests, Telling(q)'
        PROVE  /\ Telling(q) /\ req'[q].t = req[q].t /\ req'[q].wrote = req[q].wrote
               /\ req[q].pc = "tell recipient" => req'[q].pc = "tell recipient"
    <3>1. CASE q = r
      BY <1>1, <1>2, <1>5, <2>1, <3>1, ZenonT(60)
    <3>2. CASE q # r
      BY <2>1, <3>2, Zenon DEF Telling
    <3> QED
      BY <3>1, <3>2, Zenon
  <2> QED
    BY <1>5, <1>6, <2>1, NoticeStill, ZenonT(60)
<1>7. ASSUME d \in Devices, Grown(t, d, s) PROVE NoticeInv'
  <2>0. d \in Devices
    BY <1>7
  <2>1. Untold(t, d, s) /\ Untold(t, transfer[t].recipient, s)
    <3>1. TellOK(r)
      BY DEF NoticeInv
    <3>2. req[r].pc \in {"tell sender", "tell recipient"}
      BY Zenon DEF TellStep
    <3> QED
      BY <1>1, <1>2, <1>3, <1>5, <2>0, <3>1, <3>2, ZenonT(60) DEF TellOK
  <2>2. Grown(t, d, s)
    BY <1>7, ZenonT(60)
  <2>3. /\ \A u \in Transfers, e \in Devices : HeardOK(u, e)'
        /\ \A u \in Transfers, e \in Devices, w \in Statuses :
              Untold(u, e, w) /\ ~(u = t /\ e = d /\ w = s) => Untold(u, e, w)'
    <3>1. Telling(r) /\ UNCHANGED transfer /\ t = req[r].t /\ s = req[r].wrote
      BY <1>1, <1>2, <1>5, Zenon
    <3>2. Untold(t, d, s)
      BY <2>1, Zenon
    <3>3. \A u \in Transfers, e \in Devices : HeardOK(u, e)'
      BY <2>0, <2>2, <3>1, <3>2, NoticeSend, ZenonT(60)
    <3>4. \A u \in Transfers, e \in Devices, w \in Statuses :
             Untold(u, e, w) /\ ~(u = t /\ e = d /\ w = s) => Untold(u, e, w)'
      BY <2>0, <2>2, <3>1, <3>2, NoticeSend, SMTT(30)
    <3> QED
      BY <3>3, <3>4
  <2>4. TellOK(r)'
    <3> SUFFICES ASSUME Telling(r)' PROVE TellOK(r)'
      BY Zenon DEF TellOK
    <3>1. /\ req'[r].pc = "tell recipient" /\ req'[r].t = t /\ req'[r].wrote = s
          /\ d = transfer[t].sender
      BY <1>3, <1>5, ZenonT(60)
    <3>2. PICK e \in Devices : e = transfer[t].recipient
      BY <1>4
    <3>3. Untold(t, e, s)'
      BY <1>4, <2>1, <2>3, <3>1, <3>2, ZenonT(60)
    <3>4. MayFollow(s, transfer[t].status)
      BY <1>1, <1>2, <1>5, Zenon DEF NoticeInv, TellOK
    <3> QED
      BY <1>5, <3>1, <3>2, <3>3, <3>4, ZenonT(60) DEF TellOK, Untold
  <2>5. ASSUME NEW q \in Requests \ {r} PROVE TellOK(q)'
    <3> SUFFICES ASSUME Telling(q)' PROVE TellOK(q)'
      BY Zenon DEF TellOK
    <3>1. req'[q] = req[q] /\ Telling(q) /\ TellOK(q)
      BY Zenon DEF Telling, NoticeInv
    <3>2. PICK u \in Transfers, w \in Statuses : u = req[q].t /\ w = req[q].wrote
      BY <3>1, Zenon DEF Base, HandlerOK, TypeOK, Handlers, Telling
    <3>3. ~(u = t /\ w = s)
      BY <1>1, <1>2, <1>5, <3>1, <3>2, ZenonT(60) DEF NoticeInv, OneTeller
    <3>4. \A e \in Devices : Untold(u, e, w) => Untold(u, e, w)'
      BY <2>3, <3>3
    <3>5. PICK p \in Devices : p = transfer[u].recipient
      BY <3>1, <3>2, Zenon DEF Base, HandlerOK, RowOK, Telling
    <3>6. /\ MayFollow(w, transfer[u].status)
          /\ req[q].pc # "tell recipient" => \A e \in Devices : Untold(u, e, w)
          /\ Untold(u, p, w)
      BY <3>1, <3>2, <3>5, Zenon DEF TellOK
    <3>7. /\ req'[q].pc # "tell recipient" => \A e \in Devices : Untold(u, e, w)'
          /\ Untold(u, p, w)'
      BY <3>1, <3>4, <3>6, ZenonT(60)
    <3> QED
      <4>1. /\ req'[q].t = u /\ req'[q].wrote = w /\ transfer'[u].recipient = p
            /\ MayFollow(w, transfer'[u].status)
        BY <1>5, <3>1, <3>2, <3>5, <3>6, ZenonT(60)
      <4> QED
        BY <3>7, <4>1, Zenon DEF TellOK, Untold
  <2>6. OneTeller'
    <3>1. ASSUME NEW q \in Requests, Telling(q)'
          PROVE  Telling(q) /\ req'[q].t = req[q].t /\ req'[q].wrote = req[q].wrote
      <4>1. CASE q = r
        BY <1>1, <1>2, <1>5, <3>1, <4>1, Zenon
      <4>2. CASE q # r
        BY <3>1, <4>2, Zenon DEF Telling
      <4> QED
        BY <4>1, <4>2
    <3>2. OneTeller
      BY ZenonT(60) DEF NoticeInv
    <3>3. ASSUME NEW p \in Requests, NEW q \in Requests, p # q, Telling(p)', Telling(q)',
                 req'[p].t = req'[q].t
          PROVE  req'[p].wrote # req'[q].wrote
      <4>1. /\ Telling(p) /\ req'[p].t = req[p].t /\ req'[p].wrote = req[p].wrote
            /\ Telling(q) /\ req'[q].t = req[q].t /\ req'[q].wrote = req[q].wrote
        BY <3>1, <3>3, ZenonT(60)
      <4>2. req[p].wrote # req[q].wrote
        BY <3>2, <3>3, <4>1, Zenon DEF OneTeller
      <4> QED
        BY <4>1, <4>2, Zenon
    <3> QED
      BY <3>3, Zenon DEF OneTeller
  <2>7. \A q \in Requests : TellOK(q)'
    BY <2>4, <2>5
  <2> QED
    BY <2>3, <2>6, <2>7, Zenon DEF NoticeInv
<1>8. CASE d \in Listeners /\ sent' = [sent EXCEPT ![req[r].t][d] = Append(@, req[r].wrote)]
  <2>1. d \in Devices /\ sent' = [sent EXCEPT ![t][d] = Append(@, s)]
    BY <1>1, <1>2, <1>8, ScenarioAssumption, Zenon
  <2>2. Grown(t, d, s)
    BY <2>1, SentAppend, SentGrown, Zenon
  <2> QED
    BY <1>7, <2>1, <2>2, Zenon
<1> QED
  BY <1>3, <1>6, <1>8, Zenon DEF Notify

LEMMA NoticeMark ==
    ASSUME Base, NoticeInv, NEW t \in Transfers, MarkNegotiating(t)
    PROVE  NoticeInv'
<1>1. /\ transfer[t].status \in ActiveStatuses /\ transfer' = Updated(t, "negotiating")
      /\ UNCHANGED sent /\ UNCHANGED req
  BY DEF MarkNegotiating, ActiveStatuses
<1>2. "negotiating" \in Statuses /\ "negotiating" \notin {"none", "offered"}
  BY DEF Statuses, ActiveStatuses
<1>3. /\ \A u \in Transfers, d \in Devices : HeardOK(u, d)'
      /\ \A q \in Requests : TellOK(q)'
  BY <1>1, <1>2, NoticeUpdate, Zenon
<1>4. OneTeller'
  BY <1>1, Zenon DEF NoticeInv, OneTeller, Telling
<1> QED
  BY <1>3, <1>4, Zenon DEF NoticeInv

LEMMA NoticeHandler ==
    ASSUME Base, Base', NoticeInv, NEW r \in Requests, HandlerStep(r)
    PROVE  NoticeInv'
<1>0. \A q \in Requests \ {r} : req'[q] = req[q]
  BY DEF HandlerStep
<1>1. CASE QuietStep(r) \/ ReleaseStep(r)
  <2>1. UNCHANGED <<transfer, sent>>
    BY <1>1, Zenon DEF QuietStep, ReleaseStep
  <2>2. ASSUME NEW q \in Requests, Telling(q)'
        PROVE  /\ Telling(q) /\ req'[q].t = req[q].t /\ req'[q].wrote = req[q].wrote
               /\ req[q].pc = "tell recipient" => req'[q].pc = "tell recipient"
    <3>1. CASE q = r
      BY <1>1, <2>2, <3>1, Zenon DEF QuietStep, ReleaseStep, Telling
    <3>2. CASE q # r
      BY <1>0, <2>2, <3>2, ZenonT(60) DEF Telling
    <3> QED
      BY <3>1, <3>2, Zenon
  <2> QED
    BY <2>1, <2>2, NoticeStill, Zenon
<1>2. CASE InsertStep(r)
  BY <1>0, <1>2, NoticeInsertStep, Zenon
<1>3. CASE TellStep(r)
  BY <1>0, <1>3, NoticeTellStep, Zenon
<1>4. ASSUME NEW s \in Statuses, UpdateStep(r, s) PROVE NoticeInv'
  BY <1>0, <1>4, NoticeUpdateStep, Zenon
<1> QED
  BY <1>1, <1>2, <1>3, <1>4, Zenon DEF HandlerStep

LEMMA NoticeNext == Base /\ Base' /\ NoticeInv /\ [Next]_vars => NoticeInv'
<1> SUFFICES ASSUME Base, Base', NoticeInv, [Next]_vars PROVE NoticeInv'
  OBVIOUS
<1>1. ASSUME NEW r \in Requests, Arrive(r) \/ Step(r) \/ DbTimeout(r) PROVE NoticeInv'
  BY <1>1, HandlerShape, NoticeHandler, Zenon
<1>2. ASSUME NEW t \in Transfers, MarkNegotiating(t) PROVE NoticeInv'
  BY <1>2, NoticeMark
<1>3. CASE Restart \/ Tick \/ UNCHANGED vars \/ \E d \in Devices : Deactivate(d) \/ Activate(d)
  <2>1. /\ UNCHANGED <<transfer, sent>>
        /\ \A q \in Requests : req'[q] = req[q] \/ req'[q].pc = "idle"
    BY <1>3, Environment
  <2>2. ASSUME NEW q \in Requests, Telling(q)'
        PROVE  /\ Telling(q) /\ req'[q].t = req[q].t /\ req'[q].wrote = req[q].wrote
               /\ req[q].pc = "tell recipient" => req'[q].pc = "tell recipient"
    BY <2>1, <2>2, Zenon DEF Telling
  <2> QED
    BY <2>1, <2>2, NoticeStill, ZenonT(60)
<1> QED
  BY <1>1, <1>2, <1>3, Zenon DEF Next

LEMMA NoticeInit == Init => NoticeInv
<1> SUFFICES ASSUME Init PROVE NoticeInv
  OBVIOUS
<1>1. \A r \in Requests : ~Telling(r)
  BY Zenon DEF Init, NoHandler, Telling
<1>2. \A t \in Transfers, d \in Devices : DOMAIN sent[t][d] = {}
  BY DEF Init
<1> QED
  BY <1>1, <1>2, Zenon DEF NoticeInv, TellOK, OneTeller, HeardOK

LEMMA NoticeAlways == Spec => [](Base /\ NoticeInv)
<1>1. Base /\ NoticeInv /\ [Next]_vars => (Base /\ NoticeInv)'
  BY BaseNext, NoticeNext
<1> QED
  BY BaseInit, NoticeInit, <1>1, PTL DEF Spec

\* However the handlers that race to end a transfer interleave, a device is
\* told of at most one outcome, the one the row records, and of nothing twice.
THEOREM NoticeTheorem == Spec => []NoticeOnce
<1>1. NoticeInv => NoticeOnce
  <2> SUFFICES ASSUME NoticeInv, NEW t \in Transfers, NEW d \in Devices
               PROVE  /\ \A i, j \in DOMAIN sent[t][d] : i # j => sent[t][d][i] # sent[t][d][j]
                      /\ \A i \in DOMAIN sent[t][d] :
                            sent[t][d][i] \in TerminalStatuses => sent[t][d][i] = transfer[t].status
    BY DEF NoticeOnce
  <2>1. HeardOK(t, d)
    BY DEF NoticeInv
  <2> QED
    BY <2>1, FollowOutcome, ZenonT(60) DEF HeardOK
<1> QED
  BY <1>1, NoticeAlways, PTL

-----------------------------------------------------------------------------
(* TransferControl implements TransferLifecycle. *)

St == [t \in Transfers |-> transfer[t].status]

LEMMA StMove ==
    ASSUME Base, NEW t \in Transfers, NEW s \in Lifecycle!ValidTargets(transfer[t].status),
           transfer'[t].status = s,
           \A u \in Transfers \ {t} : transfer'[u] = transfer[u],
           UNCHANGED sent
    PROVE  Lifecycle!Next
<1>1. St' = [St EXCEPT ![t] = s]
  BY Zenon DEF St
<1>2. St[t] = transfer[t].status
  BY DEF St
<1>3. Lifecycle!Move(t)
  BY <1>1, <1>2, Zenon DEF Lifecycle!Move, St
<1> QED
  BY <1>3 DEF Lifecycle!Next

LEMMA RefineUpdate ==
    ASSUME Base, NEW t \in Transfers, NEW s \in Statuses, transfer' = Updated(t, s),
           s \in Lifecycle!ValidTargets(transfer[t].status), UNCHANGED sent
    PROVE  Lifecycle!Next
<1>1. TypeOK
  BY Zenon DEF Base
<1>2. transfer'[t].status = s /\ \A u \in Transfers \ {t} : transfer'[u] = transfer[u]
  BY <1>1, UpdatedFacts
<1> QED
  BY <1>2, StMove

LEMMA RefineTell ==
    ASSUME Base, NoticeInv, NEW r \in Requests, TellStep(r)
    PROVE  [Lifecycle!Next]_Lifecycle!vars
<1>1. PICK t \in Transfers : t = req[r].t
  BY Zenon DEF TellStep, Base, HandlerOK, Telling
<1>2. PICK d : /\ Notify(r, d)
               /\ req[r].pc = "tell sender" => d = transfer[t].sender
               /\ req[r].pc = "tell recipient" => d = transfer[t].recipient
  BY <1>1, ZenonT(60) DEF TellStep
<1>3. UNCHANGED transfer /\ Telling(r) /\ req[r].pc \in {"tell sender", "tell recipient"}
  BY Zenon DEF TellStep, Telling
<1>4. CASE UNCHANGED sent
  BY <1>3, <1>4, Zenon DEF Lifecycle!vars
<1>5. CASE d \in Listeners /\ sent' = [sent EXCEPT ![req[r].t][d] = Append(@, req[r].wrote)]
  <2>1. d \in Devices
    BY <1>5, ScenarioAssumption
  <2>2. MayFollow(req[r].wrote, transfer[t].status) /\ Untold(t, d, req[r].wrote)
    <3>1. TellOK(r)
      BY DEF NoticeInv
    <3> QED
      BY <1>1, <1>2, <1>3, <2>1, <3>1, ZenonT(60) DEF TellOK
  <2>3. PICK past : past = req[r].wrote
    OBVIOUS
  <2>4. past \in Lifecycle!Outcomes \cup {"offered", "accepted"}
    BY <2>2, <2>3 DEF MayFollow, Lifecycle!MayFollow
  <2>5. Lifecycle!MayFollow(past, St[t])
    BY <2>2, <2>3, Zenon DEF MayFollow, St
  <2>6. \A i \in DOMAIN sent[t][d] : sent[t][d][i] # past
    BY <2>2, <2>3 DEF Untold
  <2>7. sent' = [sent EXCEPT ![t][d] = Append(@, past)] /\ St' = St
    BY <1>1, <1>3, <1>5, <2>3, Zenon DEF St
  <2>8. Lifecycle!Tell(t, d)
    BY <2>4, <2>5, <2>6, <2>7, Zenon DEF Lifecycle!Tell, St
  <2> QED
    BY <2>1, <2>8, ZenonT(60) DEF Lifecycle!Next
<1> QED
  BY <1>2, <1>4, <1>5, Zenon DEF Notify

LEMMA RefineHandler ==
    ASSUME Base, NoticeInv, NEW r \in Requests, HandlerStep(r)
    PROVE  [Lifecycle!Next]_Lifecycle!vars
<1>1. CASE QuietStep(r) \/ ReleaseStep(r)
  BY <1>1, Zenon DEF QuietStep, ReleaseStep, Lifecycle!vars
<1>2. CASE InsertStep(r)
  <2>1. PICK t \in Transfers : t = req[r].t
    BY <1>2, ZenonT(30) DEF InsertStep, Base, HandlerOK
  <2>2. /\ transfer[t].status = "none" /\ transfer'[t].status = "offered" /\ UNCHANGED sent
        /\ \A u \in Transfers \ {t} : transfer'[u] = transfer[u]
    BY <1>2, <2>1, RowsInserted, Zenon DEF InsertStep, Base, HandlerOK, Creating
  <2>3. "offered" \in Lifecycle!ValidTargets(transfer[t].status)
    BY <2>2 DEF Lifecycle!ValidTargets
  <2> QED
    BY <2>2, <2>3, StMove, Zenon
<1>3. CASE TellStep(r)
  BY <1>3, RefineTell, Zenon
<1>4. ASSUME NEW s \in Statuses, UpdateStep(r, s) PROVE Lifecycle!Next
  <2>1. /\ req[r].t \in Transfers /\ Moves(transfer[req[r].t].status, s)
        /\ transfer' = Updated(req[r].t, s) /\ UNCHANGED sent
    BY <1>4, Zenon DEF UpdateStep
  <2>2. s \in Lifecycle!ValidTargets(transfer[req[r].t].status)
    BY <2>1, FollowNew, Zenon
  <2> QED
    BY <2>1, <2>2, RefineUpdate, Zenon
<1> QED
  BY <1>1, <1>2, <1>3, <1>4, Zenon DEF HandlerStep

LEMMA RefineNext == Base /\ NoticeInv /\ [Next]_vars => [Lifecycle!Next]_Lifecycle!vars
<1> SUFFICES ASSUME Base, NoticeInv, [Next]_vars PROVE [Lifecycle!Next]_Lifecycle!vars
  OBVIOUS
<1>1. ASSUME NEW r \in Requests, Arrive(r) \/ Step(r) \/ DbTimeout(r)
      PROVE  [Lifecycle!Next]_Lifecycle!vars
  BY <1>1, HandlerShape, RefineHandler, ZenonT(60)
<1>2. ASSUME NEW t \in Transfers, MarkNegotiating(t) PROVE Lifecycle!Next
  <2>1. /\ transfer[t].status = "accepted" /\ transfer' = Updated(t, "negotiating")
        /\ UNCHANGED sent /\ "negotiating" \in Statuses
    BY <1>2 DEF MarkNegotiating, Statuses, ActiveStatuses
  <2>2. "negotiating" \in Lifecycle!ValidTargets(transfer[t].status)
    BY <2>1 DEF Lifecycle!ValidTargets
  <2> QED
    BY <2>1, <2>2, RefineUpdate, Zenon
<1>3. CASE Restart \/ Tick \/ UNCHANGED vars \/ \E d \in Devices : Deactivate(d) \/ Activate(d)
  <2>1. UNCHANGED <<transfer, sent>>
    BY <1>3, Environment, Zenon
  <2> QED
    BY <2>1 DEF Lifecycle!vars
<1> QED
  BY <1>1, <1>2, <1>3, Zenon DEF Next

LEMMA RefineInit == Init => Lifecycle!Init
  BY DEF Init, NoRow, Lifecycle!Init

\* Every behaviour of the handlers, with their timeouts and restarts, is one of
\* the lifecycle of _VALID_TRANSITIONS and its notices.
THEOREM LifecycleTheorem == Spec => LifecycleSpec
  BY RefineInit, RefineNext, NoticeAlways, PTL DEF Spec, LifecycleSpec, Lifecycle!Spec

-----------------------------------------------------------------------------

\* The row constraint on accepted_at is never the reason a cancellation or an
\* acceptance fails.
THEOREM AcceptanceTheorem == Spec => []AcceptanceRecorded
<1>1. Init => AcceptanceRecorded
  BY DEF Init, NoRow, AcceptanceRecorded
<1>2. ASSUME Base, AcceptanceRecorded, NEW t \in Transfers, NEW s \in Statuses,
             transfer' = Updated(t, s),
             s \in {"accepted", "cancelled", "rejected", "expired"} \/ transfer[t].accepted_at
      PROVE  AcceptanceRecorded'
  <2>1. TypeOK
    BY <1>2, Zenon DEF Base
  <2>2. /\ transfer'[t].status = s
        /\ transfer'[t].accepted_at = (transfer[t].accepted_at \/ s \in {"accepted", "cancelled"})
        /\ \A u \in Transfers \ {t} : transfer'[u] = transfer[u]
    BY <1>2, <2>1, UpdatedFacts
  <2> QED
    BY <1>2, <2>2, Zenon DEF AcceptanceRecorded
<1>3. Base /\ AcceptanceRecorded /\ [Next]_vars => AcceptanceRecorded'
  <2> SUFFICES ASSUME Base, AcceptanceRecorded, [Next]_vars PROVE AcceptanceRecorded'
    OBVIOUS
  <2>0. ASSUME UNCHANGED transfer PROVE AcceptanceRecorded'
    BY <2>0, Zenon DEF AcceptanceRecorded
  <2>1. ASSUME NEW r \in Requests, HandlerStep(r) PROVE AcceptanceRecorded'
    <3>1. CASE QuietStep(r) \/ ReleaseStep(r) \/ TellStep(r)
      BY <2>0, <3>1, Zenon DEF QuietStep, ReleaseStep, TellStep
    <3>2. CASE InsertStep(r)
      BY <3>2, RowsInserted, Zenon DEF InsertStep, AcceptanceRecorded
    <3>3. ASSUME NEW s \in Statuses, UpdateStep(r, s) PROVE AcceptanceRecorded'
      <4>1. /\ req[r].t \in Transfers /\ transfer' = Updated(req[r].t, s)
            /\ s \in {"accepted", "cancelled", "rejected", "expired"}
        BY <3>3, Zenon DEF UpdateStep, Moves
      <4> QED
        BY <1>2, <4>1, SMTT(30)
    <3> QED
      BY <2>1, <3>1, <3>2, <3>3, Zenon DEF HandlerStep
  <2>2. ASSUME NEW r \in Requests, Arrive(r) \/ Step(r) \/ DbTimeout(r) PROVE AcceptanceRecorded'
    BY <2>1, <2>2, HandlerShape
  <2>3. ASSUME NEW t \in Transfers, MarkNegotiating(t) PROVE AcceptanceRecorded'
    <3>1. /\ transfer[t].accepted_at /\ transfer' = Updated(t, "negotiating")
          /\ "negotiating" \in Statuses
      BY <2>3, Zenon DEF MarkNegotiating, AcceptanceRecorded, Statuses, ActiveStatuses
    <3> QED
      BY <1>2, <3>1, Zenon
  <2>4. CASE Restart \/ Tick \/ UNCHANGED vars \/ \E d \in Devices : Deactivate(d) \/ Activate(d)
    BY <2>0, <2>4, Environment
  <2> QED
    BY <2>2, <2>3, <2>4 DEF Next
<1>4. Base /\ AcceptanceRecorded /\ [Next]_vars => (Base /\ AcceptanceRecorded)'
  BY <1>3, BaseNext
<1> QED
  BY <1>1, <1>4, BaseInit, PTL DEF Spec

=============================================================================
