-------------------------- MODULE SignalingProofs --------------------------
(***************************************************************************)
(* Proofs about Signaling, for any sets of devices, transfers, handlers    *)
(* and sockets and any limits: the composition keeps what TransferControl  *)
(* shows, the budgets add up, and a live transfer forwards each single-use *)
(* message of a device once.                                               *)
(***************************************************************************)
EXTENDS Signaling, TransferControlProofs

-----------------------------------------------------------------------------
(* The inductive invariant. *)

SocketPCs == {"closed", "open", "read", "resume", "negotiate", "charge", "send"}

SocketRecords == [pc: SocketPCs, dev: Devices \cup {None}, t: Transfers \cup {None},
                  kind: SignalKinds \cup {None}, seen: Statuses]

Entries == [held: BOOLEAN, updated_at: Nat, total: Nat,
            counts: [Devices -> [SignalKinds -> Nat]]]

SigTypeOK ==
    /\ usage \in [Transfers -> Entries]
    /\ acct \in Nat
    /\ sock \in [Sockets -> SocketRecords]
    /\ forwarded \in [Transfers -> [Devices -> [SignalKinds -> Nat]]]
    /\ restarts \in Nat

\* A status a socket read earlier: a row is never removed and an outcome stays.
Saw(t, seen) ==
    /\ seen # "none" => transfer[t].status # "none"
    /\ seen \in TerminalStatuses => transfer[t].status \in TerminalStatuses

\* What the coroutine of a socket knows at each await.
SocketOK(s) ==
    /\ sock[s].pc # "closed" => sock[s].dev \in Devices
    /\ sock[s].pc \notin {"closed", "open"} => sock[s].t \in Transfers /\ sock[s].kind \in SignalKinds
    /\ sock[s].pc = "resume" => Saw(sock[s].t, sock[s].seen)
    /\ sock[s].pc \in {"negotiate", "charge", "send"} => transfer[sock[s].t].status # "none"

\* A handler that is about to release a budget ended its transfer.
ReleaseOK(r) == req[r].pc = "release" => transfer[req[r].t].status \in TerminalStatuses

\* No row is live for longer than the lifetime.
LifeOK(t) == transfer[t].status # "none" => transfer[t].expires_at <= now + Lifetime

\* An entry is younger than its row, so that the retention time outlasts it.
EntryOK(t) ==
    IF usage[t].held
    THEN transfer[t].status # "none" /\ transfer[t].expires_at <= usage[t].updated_at + Lifetime
    ELSE usage[t] = NoUsage

SigBase ==
    /\ Base
    /\ SigTypeOK
    /\ \A s \in Sockets : SocketOK(s)
    /\ \A r \in Requests : ReleaseOK(r)
    /\ \A t \in Transfers : LifeOK(t) /\ EntryOK(t)

\* A transfer that is live, or may become so.
Alive(t) == transfer[t].status = "none" \/ t \in LiveAt(now)

Sending(s, t, d, k) ==
    sock[s].pc = "send" /\ sock[s].t = t /\ sock[s].dev = d /\ sock[s].kind = k

\* A single-use message that a socket is about to forward, or has forwarded,
\* is on the budget.
OnceOK(t, d, k) ==
    /\ \A s \in Sockets : Sending(s, t, d, k) =>
          usage[t].counts[d][k] >= 1 /\ forwarded[t][d][k] = 0
    /\ \A s, q \in Sockets : Sending(s, t, d, k) /\ Sending(q, t, d, k) => s = q
    /\ forwarded[t][d][k] >= 1 => usage[t].counts[d][k] >= 1
    /\ forwarded[t][d][k] <= 1

OnceInv ==
    restarts = 0 =>
      \A t \in Transfers, d \in Devices, k \in SingleUseKinds : Alive(t) => OnceOK(t, d, k)

BudgetInv == BudgetExact /\ \A t \in Transfers : IsFiniteSet(SentFor(t))

-----------------------------------------------------------------------------
(* Every step of the composition is one of TransferControl's, or leaves its  *)
(* state alone.                                                              *)

LEMMA SocketControl ==
    ASSUME NEW s \in Sockets, SocketOK(s),
           \/ Open(s) \/ Hangup(s) \/ Receive(s) \/ ReadTransfer(s) \/ ResumeWith(s)
           \/ Negotiate(s) \/ ChargeAfter(s) \/ Forward(s) \/ SocketDbTimeout(s)
    PROVE  UNCHANGED vars \/ \E t \in Transfers : MarkNegotiating(t)
<1>1. CASE Open(s) \/ Hangup(s) \/ Receive(s) \/ ReadTransfer(s)
  BY <1>1, Zenon DEF Open, Hangup, Receive, ReadTransfer
<1>2. CASE ResumeWith(s) \/ ChargeAfter(s) \/ Forward(s)
  BY <1>2, Zenon DEF ResumeWith, ChargeAfter, Forward
<1>3. CASE Negotiate(s)
  BY <1>3, Zenon DEF Negotiate, SocketOK
<1>4. CASE SocketDbTimeout(s)
  BY <1>4, Zenon DEF SocketDbTimeout, SocketOK
<1> QED
  BY <1>1, <1>2, <1>3, <1>4

LEMMA HandlerControl ==
    ASSUME NEW r \in Requests, Handler(r) \/ ReleaseBudget(r) \/ Tell(r)
    PROVE  Arrive(r) \/ Step(r) \/ DbTimeout(r)
  BY Zenon DEF Handler, ReleaseBudget, Tell, Step

-----------------------------------------------------------------------------
(* What a step of TransferControl does to a row. *)

RowMoves(t) ==
    /\ transfer[t].status # "none" =>
          transfer'[t].status # "none" /\ transfer'[t].expires_at = transfer[t].expires_at
    /\ transfer[t].status \in TerminalStatuses => transfer'[t].status \in TerminalStatuses
    /\ transfer[t].status = "none" /\ transfer'[t].status # "none" =>
          transfer'[t].expires_at <= now + Lifetime

LEMMA UpdateMoves ==
    ASSUME Base, NEW t \in Transfers, NEW s \in Statuses, transfer' = Updated(t, s),
           transfer[t].status \in ActiveStatuses, s # "none"
    PROVE  \A u \in Transfers : RowMoves(u)
<1>1. TypeOK
  BY DEF Base
<1>2. /\ transfer'[t].status = s /\ transfer'[t].expires_at = transfer[t].expires_at
      /\ \A u \in Transfers \ {t} : transfer'[u] = transfer[u]
  BY <1>1, UpdatedFacts
<1>3. transfer[t].status \notin TerminalStatuses /\ transfer[t].status # "none"
  BY DEF ActiveStatuses, TerminalStatuses
<1> QED
  BY <1>2, <1>3, Zenon DEF RowMoves

LEMMA SameRowMoves == ASSUME UNCHANGED transfer PROVE \A u \in Transfers : RowMoves(u)
  BY Zenon DEF RowMoves

LEMMA HandlerMoves ==
    ASSUME Base, NEW r \in Requests, HandlerStep(r)
    PROVE  now' = now /\ \A u \in Transfers : RowMoves(u)
<1>0. now' = now
  BY DEF HandlerStep
<1>1. CASE QuietStep(r) \/ ReleaseStep(r) \/ TellStep(r)
  BY <1>0, <1>1, SameRowMoves, Zenon DEF QuietStep, ReleaseStep, TellStep
<1>2. CASE InsertStep(r)
  <2> DEFINE t == req[r].t
  <2>1. req[r].pc = "insert" /\ transfer' = Inserted(r)
    BY <1>2, Zenon DEF InsertStep
  <2>2. /\ transfer'[t].expires_at = req[r].at + Lifetime
        /\ \A u \in Transfers \ {t} : transfer'[u] = transfer[u]
    BY <2>1, RowsInserted, Zenon
  <2>3. transfer[t].status = "none" /\ req[r].at <= now
    BY <2>1, Zenon DEF Base, HandlerOK, Creating
  <2>4. req[r].at + Lifetime <= now + Lifetime
    BY <2>3, ClockAssumption DEF Base, TypeOK, Handlers
  <2>5. RowMoves(t)
    BY <2>2, <2>3, <2>4, Zenon DEF RowMoves, TerminalStatuses
  <2>6. \A u \in Transfers \ {t} : RowMoves(u)
    BY <2>2, Zenon DEF RowMoves
  <2> QED
    BY <1>0, <2>5, <2>6
<1>3. ASSUME NEW s \in Statuses, UpdateStep(r, s) PROVE \A u \in Transfers : RowMoves(u)
  <2>1. /\ req[r].t \in Transfers /\ transfer' = Updated(req[r].t, s)
        /\ Moves(transfer[req[r].t].status, s)
    BY <1>3, Zenon DEF UpdateStep
  <2>2. transfer[req[r].t].status \in ActiveStatuses /\ s # "none"
    BY <2>1 DEF Moves, ActiveStatuses
  <2> QED
    BY <2>1, <2>2, UpdateMoves, Zenon
<1> QED
  BY <1>0, <1>1, <1>2, <1>3, Zenon DEF HandlerStep

LEMMA RowsMove ==
    ASSUME Base, [Next]_vars
    PROVE  now \in Nat /\ now <= now' /\ \A u \in Transfers : RowMoves(u)
<1>0. now \in Nat
  BY DEF Base, TypeOK
<1>1. ASSUME NEW r \in Requests, Arrive(r) \/ Step(r) \/ DbTimeout(r)
      PROVE  now' = now /\ \A u \in Transfers : RowMoves(u)
  BY <1>1, HandlerShape, HandlerMoves, Zenon
<1>2. ASSUME NEW t \in Transfers, MarkNegotiating(t)
      PROVE  now' = now /\ \A u \in Transfers : RowMoves(u)
  <2>1. /\ transfer[t].status \in ActiveStatuses /\ transfer' = Updated(t, "negotiating")
        /\ "negotiating" \in Statuses /\ now' = now
    BY <1>2 DEF MarkNegotiating, ActiveStatuses, Statuses
  <2> QED
    BY <2>1, UpdateMoves
<1>3. CASE Restart \/ Tick \/ UNCHANGED vars \/ \E d \in Devices : Deactivate(d) \/ Activate(d)
  <2>1. \A u \in Transfers : RowMoves(u)
    BY <1>3, Environment, SameRowMoves, Zenon
  <2>2. now <= now'
    BY <1>0, <1>3 DEF Restart, Tick, vars, Deactivate, Activate
  <2> QED
    BY <1>0, <2>1, <2>2, Zenon
<1> QED
  BY <1>0, <1>1, <1>2, <1>3 DEF Next

LEMMA LifeKept ==
    ASSUME Base, Base', NEW t \in Transfers, LifeOK(t), RowMoves(t), now <= now'
    PROVE  LifeOK(t)'
<1>1. /\ now \in Nat /\ now' \in Nat /\ Lifetime \in Nat
      /\ transfer[t].expires_at \in Nat /\ transfer'[t].expires_at \in Nat
  BY ClockAssumption DEF Base, TypeOK, Rows
<1> QED
  BY <1>1 DEF LifeOK, RowMoves

\* An outcome is what a handler on its way to "release" has written.
LEMMA ReleaseKept ==
    ASSUME Base, [Next]_vars, \A r \in Requests : ReleaseOK(r)
    PROVE  \A r \in Requests : ReleaseOK(r)'
<1>0. \A u \in Transfers : RowMoves(u)
  BY RowsMove
<1>1. ASSUME NEW q \in Requests, req'[q] = req[q] \/ req'[q].pc # "release" PROVE ReleaseOK(q)'
  <2>1. req[q].pc = "release" => req[q].t \in Transfers
    BY DEF Base, HandlerOK
  <2> QED
    BY <1>0, <1>1, <2>1, ZenonT(60) DEF ReleaseOK, RowMoves
<1>2. ASSUME NEW r \in Requests, HandlerStep(r) PROVE \A q \in Requests : ReleaseOK(q)'
  <2>0. \A q \in Requests \ {r} : req'[q] = req[q]
    BY <1>2 DEF HandlerStep
  <2>1. CASE QuietStep(r) \/ ReleaseStep(r) \/ TellStep(r) \/ InsertStep(r)
    <3>1. req'[r].pc # "release"
      BY <2>1, Zenon DEF QuietStep, ReleaseStep, TellStep, InsertStep, AnnouncesOrNot, Telling
    <3> QED
      BY <1>1, <2>0, <3>1, Zenon
  <2>2. ASSUME NEW s \in Statuses, UpdateStep(r, s) PROVE ReleaseOK(r)'
    <3> DEFINE t == req[r].t
    <3>1. /\ t \in Transfers /\ transfer' = Updated(t, s) /\ Moves(transfer[t].status, s) /\ TypeOK
          /\ req'[r].pc = "release" => s # "accepted" /\ req'[r].t = t
      BY <2>2, Zenon DEF UpdateStep, AnnouncesOrNot, AfterWrite, Base
    <3>2. transfer'[t].status = s
      BY <3>1, UpdatedFacts, Zenon
    <3>3. s # "accepted" => s \in TerminalStatuses
      BY <3>1 DEF Moves, TerminalStatuses
    <3> QED
      BY <3>1, <3>2, <3>3, Zenon DEF ReleaseOK
  <2> QED
    BY <1>1, <1>2, <2>0, <2>1, <2>2, ZenonT(60) DEF HandlerStep
<1>3. ASSUME NEW r \in Requests, Arrive(r) \/ Step(r) \/ DbTimeout(r)
      PROVE  \A q \in Requests : ReleaseOK(q)'
  BY <1>2, <1>3, HandlerShape, Zenon
<1>4. ASSUME NEW t \in Transfers, MarkNegotiating(t) PROVE \A q \in Requests : ReleaseOK(q)'
  BY <1>1, <1>4 DEF MarkNegotiating
<1>5. CASE Restart \/ Tick \/ UNCHANGED vars \/ \E d \in Devices : Deactivate(d) \/ Activate(d)
  <2>1. \A q \in Requests : req'[q] = req[q] \/ req'[q].pc # "release"
    BY <1>5, Environment
  <2> QED
    BY <1>1, <2>1
<1> QED
  BY <1>3, <1>4, <1>5 DEF Next

LEMMA ControlStep ==
    ASSUME \A s \in Sockets : SocketOK(s), [SigNext]_allVars
    PROVE  [Next]_vars
<1>1. ASSUME NEW r \in Requests, Handler(r) \/ ReleaseBudget(r) \/ Tell(r) PROVE Next
  BY <1>1, HandlerControl, Zenon DEF Next
<1>2. ASSUME NEW s \in Sockets,
             \/ Open(s) \/ Hangup(s) \/ Receive(s) \/ ReadTransfer(s) \/ ResumeWith(s)
             \/ Negotiate(s) \/ ChargeAfter(s) \/ Forward(s) \/ SocketDbTimeout(s)
      PROVE  [Next]_vars
  BY <1>2, SocketControl, Zenon DEF Next
<1>3. CASE RestartAll
  BY <1>3, Zenon DEF RestartAll, Next
<1>4. CASE UNCHANGED allVars
  BY <1>4 DEF allVars
<1>5. CASE (\E d \in Devices : Deactivate(d) \/ Activate(d)) \/ Tick
  BY <1>5, Zenon DEF Next
<1> QED
  BY <1>1, <1>2, <1>3, <1>4, <1>5, ZenonT(60) DEF SigNext

-----------------------------------------------------------------------------
(* Sockets. *)

LEMMA SocketSet ==
    ASSUME SigTypeOK, NEW s \in Sockets, NEW x \in SocketRecords, sock' = [sock EXCEPT ![s] = x]
    PROVE  /\ sock' \in [Sockets -> SocketRecords]
           /\ sock'[s] = x
           /\ \A q \in Sockets \ {s} : sock'[q] = sock[q]
  BY Zenon DEF SigTypeOK

LEMMA ClosedType ==
    /\ ClosedSocket \in SocketRecords /\ ClosedSocket.pc = "closed"
    /\ \A d \in Devices : LET x == [ClosedSocket EXCEPT !.pc = "open", !.dev = d]
                          IN  x \in SocketRecords /\ x.pc = "open" /\ x.dev = d
  BY Zenon DEF ClosedSocket, SocketRecords, SocketPCs, Statuses

LEMMA CloseFacts ==
    ASSUME SigTypeOK, NEW s \in Sockets, CloseSocket(s)
    PROVE  /\ sock' \in [Sockets -> SocketRecords]
           /\ sock'[s].pc = "closed"
           /\ \A q \in Sockets \ {s} : sock'[q] = sock[q]
  BY SocketSet, ClosedType, Zenon DEF CloseSocket

LEMMA OpenFacts ==
    ASSUME SigTypeOK, NEW s \in Sockets, NEW d \in Devices,
           sock' = [sock EXCEPT ![s] = [ClosedSocket EXCEPT !.pc = "open", !.dev = d]]
    PROVE  /\ sock' \in [Sockets -> SocketRecords]
           /\ sock'[s].pc = "open" /\ sock'[s].dev = d
           /\ \A q \in Sockets \ {s} : sock'[q] = sock[q]
<1> DEFINE x == [ClosedSocket EXCEPT !.pc = "open", !.dev = d]
<1>1. x \in SocketRecords /\ x.pc = "open" /\ x.dev = d
  BY ClosedType, Zenon
<1> HIDE DEF x
<1>2. sock' = [sock EXCEPT ![s] = x]
  BY DEF x
<1> QED
  BY <1>1, <1>2, SocketSet, Zenon

LEMMA SocketGotoFacts ==
    ASSUME SigTypeOK, NEW s \in Sockets, NEW pc \in SocketPCs, SocketGoto(s, pc)
    PROVE  /\ sock' \in [Sockets -> SocketRecords]
           /\ sock'[s].pc = pc
           /\ sock'[s].dev = sock[s].dev
           /\ sock'[s].t = sock[s].t
           /\ sock'[s].kind = sock[s].kind
           /\ \A q \in Sockets \ {s} : sock'[q] = sock[q]
<1>0. sock \in [Sockets -> SocketRecords]
  BY DEF SigTypeOK
<1>1. sock' \in [Sockets -> SocketRecords]
  BY <1>0, ZenonT(30) DEF SocketGoto, SocketRecords
<1>2. sock'[s].pc = pc
  BY <1>0, Zenon DEF SocketGoto, SocketRecords
<1>3. sock'[s].dev = sock[s].dev /\ sock'[s].t = sock[s].t
  BY <1>0, Zenon DEF SocketGoto, SocketRecords
<1>4. sock'[s].kind = sock[s].kind
  BY <1>0, Zenon DEF SocketGoto, SocketRecords
<1>5. \A q \in Sockets \ {s} : sock'[q] = sock[q]
  BY <1>0, Zenon DEF SocketGoto, SocketRecords
<1> QED
  BY <1>1, <1>2, <1>3, <1>4, <1>5, Zenon

TakesIn(s, t, k) == sock' = [sock EXCEPT ![s].pc = "read", ![s].t = t, ![s].kind = k]

LEMMA ReceiveFacts ==
    ASSUME SigTypeOK, NEW s \in Sockets, NEW t \in Transfers, NEW k \in SignalKinds,
           TakesIn(s, t, k)
    PROVE  /\ sock' \in [Sockets -> SocketRecords]
           /\ sock'[s].pc = "read"
           /\ sock'[s].dev = sock[s].dev
           /\ sock'[s].t = t
           /\ sock'[s].kind = k
           /\ \A q \in Sockets \ {s} : sock'[q] = sock[q]
<1>0. sock \in [Sockets -> SocketRecords] /\ "read" \in SocketPCs
  BY DEF SigTypeOK, SocketPCs
<1>1. sock' \in [Sockets -> SocketRecords]
  BY <1>0, ZenonT(30) DEF TakesIn, SocketRecords
<1>2. sock'[s].pc = "read" /\ sock'[s].dev = sock[s].dev
  BY <1>0, Zenon DEF TakesIn, SocketRecords
<1>3. sock'[s].t = t /\ sock'[s].kind = k
  BY <1>0, Zenon DEF TakesIn, SocketRecords
<1>4. \A q \in Sockets \ {s} : sock'[q] = sock[q]
  BY <1>0, Zenon DEF TakesIn, SocketRecords
<1> QED
  BY <1>1, <1>2, <1>3, <1>4, Zenon

LEMMA ReadFacts ==
    ASSUME SigTypeOK, NEW s \in Sockets, NEW seen \in Statuses,
           sock' = [sock EXCEPT ![s].pc = "resume", ![s].seen = seen]
    PROVE  /\ sock' \in [Sockets -> SocketRecords]
           /\ sock'[s].pc = "resume"
           /\ sock'[s].dev = sock[s].dev
           /\ sock'[s].t = sock[s].t
           /\ sock'[s].kind = sock[s].kind
           /\ sock'[s].seen = seen
           /\ \A q \in Sockets \ {s} : sock'[q] = sock[q]
<1>0. sock \in [Sockets -> SocketRecords] /\ "resume" \in SocketPCs
  BY DEF SigTypeOK, SocketPCs
<1>1. sock' \in [Sockets -> SocketRecords]
  BY <1>0, ZenonT(30) DEF SocketRecords
<1>2. sock'[s].pc = "resume" /\ sock'[s].dev = sock[s].dev
  BY <1>0, Zenon DEF SocketRecords
<1>3. sock'[s].t = sock[s].t /\ sock'[s].kind = sock[s].kind
  BY <1>0, Zenon DEF SocketRecords
<1>4. sock'[s].seen = seen
  BY <1>0, Zenon DEF SocketRecords
<1>5. \A q \in Sockets \ {s} : sock'[q] = sock[q]
  BY <1>0, Zenon DEF SocketRecords
<1> QED
  BY <1>1, <1>2, <1>3, <1>4, <1>5, Zenon

\* What a socket knows stays true when rows move forward.
LEMMA SocketKept ==
    ASSUME NEW q, SocketOK(q), sock'[q] = sock[q], \A u \in Transfers : RowMoves(u)
    PROVE  SocketOK(q)'
<1>1. ASSUME NEW t \in Transfers, NEW seen, Saw(t, seen) PROVE Saw(t, seen)'
  BY <1>1, Zenon DEF Saw, RowMoves
<1>2. sock[q].pc = "resume" => Saw(sock[q].t, sock[q].seen)'
  BY <1>1, Zenon DEF SocketOK
<1>3. sock[q].pc \in {"negotiate", "charge", "send"} => transfer'[sock[q].t].status # "none"
  BY Zenon DEF SocketOK, RowMoves
<1> QED
  BY <1>2, <1>3, Zenon DEF SocketOK, Saw

-----------------------------------------------------------------------------
(* Budgets: a release and a charge. *)

LEMMA NoUsageType ==
    /\ NoUsage \in Entries /\ ~NoUsage.held /\ NoUsage.total = 0
    /\ \A d \in Devices, k \in SignalKinds : NoUsage.counts[d][k] = 0
<1>1. ZeroCounts \in [Devices -> [SignalKinds -> Nat]]
  BY DEF ZeroCounts
<1>2. \A d \in Devices, k \in SignalKinds : ZeroCounts[d][k] = 0
  BY DEF ZeroCounts
<1> QED
  BY <1>1, <1>2 DEF NoUsage, Entries

LEMMA FreesFacts ==
    ASSUME SigTypeOK, NEW ts \in SUBSET Transfers, ReleaseUsage(ts)
    PROVE  /\ usage' \in [Transfers -> Entries]
           /\ \A t \in Transfers : usage'[t] = IF t \in ts THEN NoUsage ELSE usage[t]
  BY NoUsageType, Zenon DEF SigTypeOK, ReleaseUsage

LEMMA ChargedFinite ==
    ASSUME SigTypeOK, BudgetInv, NEW ts \in SUBSET Transfers
    PROVE  /\ IsFiniteSet(ChargedTo(ts)) /\ Cardinality(ChargedTo(ts)) \in Nat
           /\ ChargedTo(ts) \subseteq ChargedTo(Transfers)
<1>1. \A t \in Transfers : usage[t].total \in Nat /\ usage[t].total <= MaxPerTransfer
  BY DEF SigTypeOK, Entries, BudgetInv, BudgetExact
<1>2. \A t \in Transfers : 1..usage[t].total \subseteq 1..MaxPerTransfer
  BY <1>1, BudgetAssumption
<1>3. ChargedTo(Transfers) \subseteq Transfers \X (1..MaxPerTransfer)
  BY <1>2 DEF ChargedTo
<1>4. IsFiniteSet(Transfers \X (1..MaxPerTransfer))
  <2>1. IsFiniteSet(1..MaxPerTransfer)
    BY FS_Interval, BudgetAssumption
  <2> QED
    BY <2>1, FS_Product, FiniteAssumption, Zenon
<1>5. ChargedTo(ts) \subseteq ChargedTo(Transfers)
  BY DEF ChargedTo
<1>6. IsFiniteSet(ChargedTo(Transfers))
  BY <1>3, <1>4, FS_Subset, Zenon
<1> QED
  BY <1>5, <1>6, FS_Subset, FS_CardinalityType, Zenon

LEMMA FreesBudget ==
    ASSUME SigTypeOK, BudgetInv, NEW ts \in SUBSET Transfers, ReleaseUsage(ts)
    PROVE  BudgetInv' /\ acct' \in Nat
<1> DEFINE A == ChargedTo(Transfers)
           B == ChargedTo(ts)
<1>1. /\ IsFiniteSet(A) /\ IsFiniteSet(B) /\ B \subseteq A
      /\ Cardinality(A) \in Nat /\ Cardinality(B) \in Nat
  BY ChargedFinite
<1>2. \A t \in Transfers : usage'[t] = IF t \in ts THEN NoUsage ELSE usage[t]
  BY FreesFacts
<1>3. ChargedTo(Transfers)' = A \ B
  <2>1. \A t \in ts : 1..usage'[t].total = {}
    BY <1>2, NoUsageType
  <2>2. \A t \in Transfers \ ts : usage'[t].total = usage[t].total
    BY <1>2
  <2> QED
    BY <2>1, <2>2 DEF ChargedTo
<1>4. /\ Cardinality(A \ B) = Cardinality(A) - Cardinality(A \cap B)
      /\ A \cap B = B
  BY <1>1, FS_Difference, ZenonT(60)
<1>5. acct = Cardinality(A) /\ acct <= MaxPerAccount
  BY DEF BudgetInv, BudgetExact
<1>6. acct' = IF acct > Cardinality(B) THEN acct - Cardinality(B) ELSE 0
  BY DEF ReleaseUsage
<1>7. Cardinality(B) <= Cardinality(A)
  BY <1>1, FS_Subset
<1>8. acct' = Cardinality(A) - Cardinality(B) /\ acct' \in Nat /\ acct' <= MaxPerAccount
  <2>1. Cardinality(A) \in Nat /\ Cardinality(B) \in Nat /\ MaxPerAccount \in Nat
    BY <1>1, BudgetAssumption, ZenonT(60)
  <2> HIDE DEF A, B
  <2>2. acct \in Nat /\ Cardinality(B) <= acct
    BY <1>5, <1>7, <2>1, ZenonT(60)
  <2>3. /\ (IF acct > Cardinality(B) THEN acct - Cardinality(B) ELSE 0) = acct - Cardinality(B)
        /\ acct - Cardinality(B) \in Nat /\ acct - Cardinality(B) <= MaxPerAccount
    BY <1>5, <2>1, <2>2, TakenAway, ZenonT(60)
  <2> QED
    BY <1>5, <1>6, <2>3, ZenonT(60)
<1>9. acct' = Cardinality(ChargedTo(Transfers)')
  BY <1>3, <1>4, <1>8, Zenon
<1>10. ASSUME NEW t \in Transfers
       PROVE  /\ usage'[t].total <= MaxPerTransfer
              /\ usage'[t].total = Cardinality(SentFor(t)')
              /\ IsFiniteSet(SentFor(t)')
  <2>1. CASE t \in ts
    <3>1. usage'[t].total = 0 /\ \A d \in Devices, k \in SignalKinds : usage'[t].counts[d][k] = 0
      BY <1>2, <2>1, NoUsageType
    <3>2. SentFor(t)' = {}
      BY <3>1 DEF SentFor
    <3> QED
      <4>1. IsFiniteSet({}) /\ Cardinality({}) = 0
        BY FS_EmptySet, Zenon
      <4>2. 0 <= MaxPerTransfer
        BY BudgetAssumption
      <4> QED
        BY <3>1, <3>2, <4>1, <4>2, ZenonT(60)
  <2>2. CASE t \notin ts
    <3>1. SentFor(t)' = SentFor(t)
      BY <1>2, <2>2 DEF SentFor
    <3> QED
      BY <1>2, <2>2, <3>1, Zenon DEF BudgetInv, BudgetExact
  <2> QED
    BY <2>1, <2>2
<1> HIDE DEF A, B
<1> QED
  BY <1>8, <1>9, <1>10, Zenon DEF BudgetInv, BudgetExact

\* The entry a charge works on counts what the stored one does.
LEMMA EntryFacts ==
    ASSUME SigTypeOK, now \in Nat, NEW t \in Transfers, EntryOK(t)
    PROVE  /\ Entry(t) \in Entries /\ Entry(t).held
           /\ Entry(t).counts = usage[t].counts
           /\ Entry(t).total = usage[t].total
           /\ Entry(t).updated_at \in {usage[t].updated_at, now}
           /\ Entry(t).updated_at # now => usage[t].held
<1>1. usage[t] \in Entries
  BY DEF SigTypeOK
<1>2. CASE usage[t].held
  BY <1>1, <1>2 DEF Entry
<1>3. CASE ~usage[t].held
  <2>1. usage[t] = NoUsage
    BY <1>3 DEF EntryOK
  <2>2. Entry(t) = [NoUsage EXCEPT !.held = TRUE, !.updated_at = now]
    BY <1>3 DEF Entry
  <2> DEFINE x == [NoUsage EXCEPT !.held = TRUE, !.updated_at = now]
  <2>3. x \in Entries /\ x.held /\ x.counts = NoUsage.counts /\ x.total = NoUsage.total
        /\ x.updated_at = now
    BY NoUsageType, Zenon DEF Entries
  <2> QED
    BY <2>1, <2>2, <2>3, Zenon
<1> QED
  BY <1>2, <1>3

\* z is the entry of transfer t with one more message of kind k from device d.
OneMore(z, t, d, k) ==
    /\ z \in Entries /\ z.held /\ z.updated_at = now
    /\ z.total = usage[t].total + 1
    /\ z.counts[d][k] = usage[t].counts[d][k] + 1
    /\ \A e \in Devices, l \in SignalKinds :
          e # d \/ l # k => z.counts[e][l] = usage[t].counts[e][l]

LEMMA ChargedFacts ==
    ASSUME SigTypeOK, now \in Nat, NEW t \in Transfers, EntryOK(t),
           NEW d \in Devices, NEW k \in SignalKinds, NEW z, z = ChargedEntry(t, d, k)
    PROVE  OneMore(z, t, d, k)
<1> DEFINE y == Entry(t)
           c == [y.counts EXCEPT ![d][k] = @ + 1]
           x == [y EXCEPT !.counts = c, !.total = @ + 1, !.updated_at = now]
<1>1. y \in Entries /\ y.held /\ y.counts = usage[t].counts /\ y.total = usage[t].total
  BY EntryFacts
<1> HIDE DEF y
<1>2. /\ y.counts \in [Devices -> [SignalKinds -> Nat]] /\ y.total \in Nat
      /\ y.held \in BOOLEAN
  BY <1>1 DEF Entries
<1>3. /\ c \in [Devices -> [SignalKinds -> Nat]]
      /\ c[d][k] = y.counts[d][k] + 1
      /\ \A e \in Devices, l \in SignalKinds : e # d \/ l # k => c[e][l] = y.counts[e][l]
  BY <1>2
<1>4. z = x
  BY DEF ChargedEntry, y
<1> HIDE DEF c
<1>5. /\ x \in Entries /\ x.held /\ x.updated_at = now
      /\ x.total = y.total + 1 /\ x.counts = c
  <2>1. y.total + 1 \in Nat
    BY <1>2
  <2> QED
    BY <1>1, <1>2, <1>3, <2>1, ZenonT(60) DEF Entries
<1> HIDE DEF x
<1> QED
  BY <1>1, <1>3, <1>4, <1>5, ZenonT(60) DEF OneMore

LEMMA SameBudget ==
    ASSUME BudgetInv, acct' = acct,
           \A t \in Transfers :
               usage'[t].total = usage[t].total /\ usage'[t].counts = usage[t].counts
    PROVE  BudgetInv'
<1>1. ChargedTo(Transfers)' = ChargedTo(Transfers)
  BY DEF ChargedTo
<1>2. \A t \in Transfers : SentFor(t)' = SentFor(t)
  BY DEF SentFor
<1> QED
  BY <1>1, <1>2 DEF BudgetInv, BudgetExact

LEMMA ChargeBudget ==
    ASSUME SigTypeOK, now \in Nat, BudgetInv, NEW t \in Transfers, EntryOK(t),
           NEW d \in Devices, NEW k \in SignalKinds, Affordable(t, d, k),
           usage' = [usage EXCEPT ![t] = ChargedEntry(t, d, k)], acct' = acct + 1
    PROVE  BudgetInv' /\ acct' \in Nat
<1>1. /\ usage'[t].total = usage[t].total + 1
      /\ usage'[t].counts[d][k] = usage[t].counts[d][k] + 1
      /\ \A e \in Devices, l \in SignalKinds :
            e # d \/ l # k => usage'[t].counts[e][l] = usage[t].counts[e][l]
      /\ \A u \in Transfers \ {t} : usage'[u] = usage[u]
  <2>1. usage'[t] = ChargedEntry(t, d, k) /\ \A u \in Transfers \ {t} : usage'[u] = usage[u]
    BY Zenon DEF SigTypeOK
  <2> QED
    <3>1. OneMore(usage'[t], t, d, k)
      BY <2>1, ChargedFacts, ZenonT(60)
    <3> QED
      BY <2>1, <3>1, ZenonT(60) DEF OneMore
<1>2. usage[t].total < MaxPerTransfer /\ acct < MaxPerAccount
  BY EntryFacts DEF Affordable
<1>3. usage[t] \in Entries /\ usage[t].total \in Nat /\ acct \in Nat
  BY DEF SigTypeOK, Entries
<1>4. usage[t].counts[d][k] \in Nat
  BY <1>3 DEF Entries
<1>5. /\ ChargedTo(Transfers)' = ChargedTo(Transfers) \cup {<<t, usage[t].total + 1>>}
      /\ <<t, usage[t].total + 1>> \notin ChargedTo(Transfers)
  <2>1. 1..usage'[t].total = (1..usage[t].total) \cup {usage[t].total + 1}
    BY <1>1, <1>3, CountedOn, ZenonT(60)
  <2>2. usage[t].total + 1 \notin 1..usage[t].total
    BY <1>3, CountedOn, ZenonT(60)
  <2>3. \A u \in Transfers \ {t} : usage'[u].total = usage[u].total
    BY <1>1
  <2>4. ChargedTo(Transfers)' = ChargedTo(Transfers) \cup {<<t, usage[t].total + 1>>}
    BY <2>1, <2>3 DEF ChargedTo
  <2>5. <<t, usage[t].total + 1>> \notin ChargedTo(Transfers)
    BY <2>2 DEF ChargedTo
  <2> QED
    BY <2>4, <2>5, Zenon
<1>6. Cardinality(ChargedTo(Transfers)') = Cardinality(ChargedTo(Transfers)) + 1
  <2>1. IsFiniteSet(ChargedTo(Transfers))
    BY ChargedFinite
  <2> QED
    BY <1>5, <2>1, FS_AddElement, Zenon
<1>7. acct' = Cardinality(ChargedTo(Transfers)') /\ acct' <= MaxPerAccount /\ acct' \in Nat
  <2>1. acct = Cardinality(ChargedTo(Transfers)) /\ MaxPerAccount \in Nat
    BY BudgetAssumption, ZenonT(60) DEF BudgetInv, BudgetExact
  <2> QED
    BY <1>2, <1>3, <1>6, <2>1, StillWithin, ZenonT(60)
<1>8. /\ SentFor(t)' = SentFor(t) \cup {<<<<d, k>>, usage[t].counts[d][k] + 1>>}
      /\ <<<<d, k>>, usage[t].counts[d][k] + 1>> \notin SentFor(t)
  <2>1. 1..usage'[t].counts[d][k] = (1..usage[t].counts[d][k]) \cup {usage[t].counts[d][k] + 1}
    BY <1>1, <1>4, CountedOn, ZenonT(60)
  <2>2. usage[t].counts[d][k] + 1 \notin 1..usage[t].counts[d][k]
    BY <1>4, CountedOn, ZenonT(60)
  <2>3. SentFor(t)' = SentFor(t) \cup {<<<<d, k>>, usage[t].counts[d][k] + 1>>}
    <3> DEFINE old(e, l) == {<<e, l>>} \X (1..usage[t].counts[e][l])
               new(e, l) == {<<e, l>>} \X (1..usage'[t].counts[e][l])
    <3>1. new(d, k) = old(d, k) \cup {<<<<d, k>>, usage[t].counts[d][k] + 1>>}
      BY <2>1
    <3>2. \A e \in Devices, l \in SignalKinds : e # d \/ l # k => new(e, l) = old(e, l)
      BY <1>1
    <3>3. /\ SentFor(t) = UNION {old(e, l) : e \in Devices, l \in SignalKinds}
          /\ SentFor(t)' = UNION {new(e, l) : e \in Devices, l \in SignalKinds}
      BY DEF SentFor
    <3> HIDE DEF old, new
    <3> QED
      BY <3>1, <3>2, <3>3
  <2>4. <<<<d, k>>, usage[t].counts[d][k] + 1>> \notin SentFor(t)
    BY <2>2 DEF SentFor
  <2> QED
    BY <2>3, <2>4, ZenonT(60)
<1>9. /\ IsFiniteSet(SentFor(t)) /\ usage[t].total = Cardinality(SentFor(t))
      /\ usage[t].total <= MaxPerTransfer
  BY ZenonT(60) DEF BudgetInv, BudgetExact
<1>10. /\ IsFiniteSet(SentFor(t)') /\ usage'[t].total = Cardinality(SentFor(t)')
       /\ usage'[t].total <= MaxPerTransfer
  <2>1. /\ IsFiniteSet(SentFor(t)')
        /\ Cardinality(SentFor(t)') = Cardinality(SentFor(t)) + 1
    BY <1>8, <1>9, FS_AddElement, ZenonT(60)
  <2>2. usage'[t].total = Cardinality(SentFor(t)')
    BY <1>1, <1>9, <2>1, ZenonT(60)
  <2>3. usage'[t].total <= MaxPerTransfer
    <3>1. MaxPerTransfer \in Nat
      BY BudgetAssumption, Zenon
    <3> QED
      BY <1>1, <1>2, <1>3, <3>1, StillWithin, ZenonT(60)
  <2> QED
    BY <2>1, <2>2, <2>3, Zenon
<1>11. ASSUME NEW u \in Transfers \ {t}
       PROVE  /\ IsFiniteSet(SentFor(u)') /\ usage'[u].total = Cardinality(SentFor(u)')
              /\ usage'[u].total <= MaxPerTransfer
  <2>1. SentFor(u)' = SentFor(u)
    BY <1>1 DEF SentFor
  <2> QED
    BY <1>1, <2>1, ZenonT(60) DEF BudgetInv, BudgetExact
<1> QED
  BY <1>7, <1>10, <1>11, ZenonT(60) DEF BudgetInv, BudgetExact

-----------------------------------------------------------------------------
(* Steps that send nothing new and touch no live transfer's budget. *)

SigInv == SigBase /\ OnceInv /\ BudgetInv

UsageCalm ==
    /\ usage' \in [Transfers -> Entries] /\ acct' \in Nat
    /\ \A t \in Transfers : EntryOK(t)'
    /\ BudgetInv'
    /\ \A t \in Transfers : Alive(t) => usage'[t].counts = usage[t].counts

SocketCalm ==
    /\ sock' \in [Sockets -> SocketRecords]
    /\ \A s \in Sockets : SocketOK(s)'
    /\ \A s \in Sockets : sock'[s].pc = "send" => sock'[s] = sock[s]

\* A transfer that is over stays over.
LEMMA AliveBefore ==
    ASSUME Base, Base', NEW t \in Transfers, RowMoves(t), now <= now', Alive(t)'
    PROVE  Alive(t)
<1>1. /\ now \in Nat /\ now' \in Nat /\ transfer[t].status \in Statuses
      /\ transfer[t].expires_at \in Nat
  BY DEF Base, TypeOK, Rows
<1>2. CASE transfer'[t].status = "none"
  BY <1>2, Zenon DEF Alive, RowMoves
<1>3. CASE transfer'[t].status \in ActiveStatuses /\ transfer'[t].expires_at > now'
  <2>1. transfer'[t].status \notin TerminalStatuses
    BY <1>3, Zenon DEF ActiveStatuses, TerminalStatuses
  <2>2. transfer[t].status \notin TerminalStatuses
    BY <2>1 DEF RowMoves
  <2>3. transfer[t].status = "none" \/ transfer[t].status \in ActiveStatuses
    BY <1>1, <2>2, Zenon DEF Statuses
  <2>4. transfer[t].status # "none" => transfer[t].expires_at > now
    BY <1>1, <1>3 DEF RowMoves
  <2> QED
    BY <2>3, <2>4, Zenon DEF Alive, LiveAt
<1> QED
  BY <1>2, <1>3, Zenon DEF Alive, LiveAt

LEMMA EntryKept ==
    ASSUME NEW t \in Transfers, EntryOK(t), RowMoves(t), usage'[t] = usage[t]
    PROVE  EntryOK(t)'
  BY Zenon DEF EntryOK, RowMoves, NoUsage, ZeroCounts

LEMMA SameUsage ==
    ASSUME SigInv, \A u \in Transfers : RowMoves(u), UNCHANGED <<usage, acct>>
    PROVE  UsageCalm
<1>1. usage' \in [Transfers -> Entries] /\ acct' \in Nat
  BY DEF SigInv, SigBase, SigTypeOK
<1>2. \A t \in Transfers : EntryOK(t)'
  BY EntryKept, Zenon DEF SigInv, SigBase
<1>3. BudgetInv'
  BY SameBudget DEF SigInv
<1> QED
  BY <1>1, <1>2, <1>3, Zenon DEF UsageCalm

LEMMA FreedUsage ==
    ASSUME SigInv, \A u \in Transfers : RowMoves(u), NEW ts \in SUBSET Transfers,
           ReleaseUsage(ts), \A t \in ts : ~Alive(t)
    PROVE  UsageCalm
<1>0. SigTypeOK /\ BudgetInv
  BY DEF SigInv, SigBase
<1>1. /\ usage' \in [Transfers -> Entries]
      /\ \A t \in Transfers : usage'[t] = IF t \in ts THEN NoUsage ELSE usage[t]
  BY <1>0, FreesFacts, Zenon
<1>2. BudgetInv' /\ acct' \in Nat
  BY <1>0, FreesBudget
<1>3. ASSUME NEW t \in Transfers PROVE EntryOK(t)'
  <2>1. CASE t \in ts
    <3>1. usage'[t] = NoUsage /\ NoUsage' = NoUsage /\ ~NoUsage.held
      BY <1>1, <2>1, NoUsageType, Zenon DEF NoUsage, ZeroCounts
    <3> QED
      BY <3>1, Zenon DEF EntryOK
  <2>2. CASE t \notin ts
    BY <1>1, <2>2, EntryKept, Zenon DEF SigInv, SigBase
  <2> QED
    BY <2>1, <2>2
<1> QED
  BY <1>1, <1>2, <1>3, Zenon DEF UsageCalm

\* The retention time is longer than the lifetime: what is pruned is over.
LEMMA StaleIsOver ==
    ASSUME SigBase, NEW t \in Stale
    PROVE  ~Alive(t)
<1>1. t \in Transfers /\ usage[t].held /\ usage[t].updated_at + Retention <= now
  BY DEF Stale
<1>2. transfer[t].status # "none" /\ transfer[t].expires_at <= usage[t].updated_at + Lifetime
  BY <1>1 DEF SigBase, EntryOK
<1>3. /\ usage[t].updated_at \in Nat /\ now \in Nat /\ transfer[t].expires_at \in Nat
      /\ Lifetime \in Nat
  BY <1>1, ClockAssumption, ZenonT(60) DEF SigBase, SigTypeOK, Entries, Base, TypeOK, Rows
<1>4. transfer[t].expires_at <= now
  BY <1>1, <1>2, <1>3, RetentionAssumption
<1>5. ~(transfer[t].expires_at > now)
  BY <1>3, <1>4, NotAfter, ZenonT(60)
<1> QED
  BY <1>2, <1>5, ZenonT(60) DEF Alive, LiveAt

LEMMA PrunedUsage ==
    ASSUME SigInv, \A u \in Transfers : RowMoves(u), Prune
    PROVE  UsageCalm
<1>1. Stale \in SUBSET Transfers /\ \A t \in Stale : ~Alive(t)
  BY StaleIsOver, Zenon DEF Stale, SigInv
<1> QED
  BY <1>1, FreedUsage, ZenonT(60) DEF Prune

LEMMA CalmStepOnce ==
    ASSUME SigInv, Base', \A u \in Transfers : RowMoves(u), now <= now',
           \A r \in Requests : ReleaseOK(r)',
           UsageCalm, SocketCalm, UNCHANGED <<forwarded, restarts>>
    PROVE  SigInv'
<1>0. SigBase /\ Base
  BY DEF SigInv, SigBase
<1>1. SigTypeOK'
  BY DEF SigInv, SigBase, SigTypeOK, UsageCalm, SocketCalm
<1>2. \A t \in Transfers : LifeOK(t)'
  BY <1>0, LifeKept, Zenon DEF SigBase
<1>3. SigBase'
  BY <1>1, <1>2, Zenon DEF SigBase, UsageCalm, SocketCalm
<1>4. OnceInv'
  <2> SUFFICES ASSUME restarts = 0, NEW t \in Transfers, NEW d \in Devices,
                      NEW k \in SingleUseKinds, Alive(t)'
               PROVE  OnceOK(t, d, k)'
    BY DEF OnceInv
  <2>1. Alive(t)
    BY <1>0, AliveBefore, Zenon
  <2>2. OnceOK(t, d, k) /\ usage'[t].counts = usage[t].counts
    BY <2>1 DEF SigInv, OnceInv, UsageCalm
  <2>3. \A s \in Sockets : Sending(s, t, d, k)' => Sending(s, t, d, k)
    BY DEF SocketCalm, Sending
  <2> QED
    BY <2>2, <2>3, Zenon DEF OnceOK
<1> QED
  BY <1>3, <1>4, Zenon DEF SigInv, UsageCalm

-----------------------------------------------------------------------------
(* The steps of the sockets. *)

\* One socket moves to an await where it is not sending.
LEMMA OneSocket ==
    ASSUME SigInv, \A u \in Transfers : RowMoves(u), NEW s \in Sockets,
           sock' \in [Sockets -> SocketRecords],
           \A q \in Sockets \ {s} : sock'[q] = sock[q],
           sock'[s].pc # "send", SocketOK(s)'
    PROVE  SocketCalm
<1>1. \A q \in Sockets : SocketOK(q)'
  BY SocketKept DEF SigInv, SigBase
<1> QED
  BY <1>1 DEF SocketCalm

LEMMA SameSockets ==
    ASSUME SigInv, \A u \in Transfers : RowMoves(u), UNCHANGED sock
    PROVE  SocketCalm
<1>1. \A q \in Sockets : SocketOK(q)'
  BY SocketKept DEF SigInv, SigBase
<1> QED
  BY <1>1 DEF SocketCalm, SigInv, SigBase, SigTypeOK

LEMMA ClosedCalm ==
    ASSUME SigInv, \A u \in Transfers : RowMoves(u), NEW s \in Sockets, CloseSocket(s)
    PROVE  SocketCalm
<1>1. /\ sock' \in [Sockets -> SocketRecords] /\ sock'[s].pc = "closed"
      /\ \A q \in Sockets \ {s} : sock'[q] = sock[q]
  BY CloseFacts DEF SigInv, SigBase
<1>2. SocketOK(s)'
  BY <1>1, Zenon DEF SocketOK
<1> QED
  BY <1>1, <1>2, OneSocket, ZenonT(60)

LEMMA NextCalm ==
    ASSUME SigInv, \A u \in Transfers : RowMoves(u), NEW s \in Sockets, NEW d \in Devices,
           sock' = [sock EXCEPT ![s] = [ClosedSocket EXCEPT !.pc = "open", !.dev = d]]
    PROVE  SocketCalm
<1>1. /\ sock' \in [Sockets -> SocketRecords] /\ sock'[s].pc = "open" /\ sock'[s].dev = d
      /\ \A q \in Sockets \ {s} : sock'[q] = sock[q]
  BY OpenFacts, Zenon DEF SigInv, SigBase
<1>2. SocketOK(s)'
  BY <1>1, Zenon DEF SocketOK
<1> QED
  BY <1>1, <1>2, OneSocket, Zenon

LEMMA ReceiveCalm ==
    ASSUME SigInv, \A u \in Transfers : RowMoves(u), NEW s \in Sockets, Receive(s)
    PROVE  SocketCalm
<1>1. PICK t \in Transfers, k \in Kinds : TakesIn(s, t, k)
  BY Zenon DEF Receive, TakesIn
<1>2. k \in SignalKinds /\ SigTypeOK
  BY KindsAssumption DEF SigInv, SigBase
<1>3. /\ sock' \in [Sockets -> SocketRecords] /\ sock'[s].pc = "read"
      /\ sock'[s].dev = sock[s].dev /\ sock'[s].t = t /\ sock'[s].kind = k
      /\ \A q \in Sockets \ {s} : sock'[q] = sock[q]
  BY <1>1, <1>2, ReceiveFacts, ZenonT(60)
<1>4. sock[s].dev \in Devices
  BY DEF SigInv, SigBase, SocketOK, Receive
<1>5. SocketOK(s)'
  BY <1>2, <1>3, <1>4, ZenonT(60) DEF SocketOK
<1> QED
  BY <1>3, <1>5, OneSocket, ZenonT(60)

LEMMA ReadCalm ==
    ASSUME SigInv, \A u \in Transfers : RowMoves(u), NEW s \in Sockets, ReadTransfer(s)
    PROVE  SocketCalm
<1> DEFINE t == sock[s].t
           seen == transfer[t].status
<1>1. /\ t \in Transfers /\ sock[s].dev \in Devices /\ sock[s].kind \in SignalKinds
  BY DEF SigInv, SigBase, SocketOK, ReadTransfer
<1>2. seen \in Statuses /\ SigTypeOK
  BY <1>1, Zenon DEF SigInv, SigBase, Base, TypeOK, Rows
<1>3. sock' = [sock EXCEPT ![s].pc = "resume", ![s].seen = seen] /\ UNCHANGED transfer
  BY DEF ReadTransfer, vars
<1>4. /\ seen # "none" => transfer'[t].status # "none"
      /\ seen \in TerminalStatuses => transfer'[t].status \in TerminalStatuses
  BY <1>3
<1> HIDE DEF seen
<1>5. /\ sock' \in [Sockets -> SocketRecords] /\ sock'[s].pc = "resume"
      /\ sock'[s].dev = sock[s].dev /\ sock'[s].t = t /\ sock'[s].kind = sock[s].kind
      /\ sock'[s].seen = seen
      /\ \A q \in Sockets \ {s} : sock'[q] = sock[q]
  BY <1>2, <1>3, ReadFacts, ZenonT(60)
<1>6. SocketOK(s)'
  BY <1>1, <1>4, <1>5, ZenonT(60) DEF SocketOK, Saw
<1> QED
  BY <1>5, <1>6, OneSocket, ZenonT(60)

LEMMA GotoCalm ==
    ASSUME SigInv, \A u \in Transfers : RowMoves(u), NEW s \in Sockets,
           NEW pc \in {"negotiate", "charge"}, SocketGoto(s, pc),
           sock[s].pc \notin {"closed", "open"}, transfer[sock[s].t].status # "none"
    PROVE  SocketCalm
<1>1. pc \in SocketPCs /\ SigTypeOK
  BY DEF SocketPCs, SigInv, SigBase
<1>2. /\ sock' \in [Sockets -> SocketRecords] /\ sock'[s].pc = pc
      /\ sock'[s].dev = sock[s].dev /\ sock'[s].t = sock[s].t /\ sock'[s].kind = sock[s].kind
      /\ \A q \in Sockets \ {s} : sock'[q] = sock[q]
  BY <1>1, SocketGotoFacts, Zenon
<1>3. /\ sock[s].t \in Transfers /\ sock[s].dev \in Devices /\ sock[s].kind \in SignalKinds
  BY Zenon DEF SigInv, SigBase, SocketOK
<1>4. transfer'[sock[s].t].status # "none"
  BY <1>3 DEF RowMoves
<1>5. SocketOK(s)'
  BY <1>2, <1>3, <1>4, ZenonT(60) DEF SocketOK
<1>6. sock'[s].pc # "send"
  BY <1>2, Zenon
<1> QED
  BY <1>2, <1>5, <1>6, OneSocket, ZenonT(60)

LEMMA EntrySet ==
    ASSUME SigInv, \A u \in Transfers : RowMoves(u), NEW t \in Transfers,
           transfer[t].status # "none",
           NEW x \in Entries, x.held, x.updated_at = now \/ x.updated_at = usage[t].updated_at,
           x.updated_at # now => usage[t].held,
           usage' = [usage EXCEPT ![t] = x]
    PROVE  /\ usage' \in [Transfers -> Entries]
           /\ usage'[t] = x
           /\ \A u \in Transfers \ {t} : usage'[u] = usage[u]
           /\ \A u \in Transfers : EntryOK(u)'
<1>0. SigTypeOK /\ LifeOK(t) /\ EntryOK(t) /\ RowMoves(t)
  BY DEF SigInv, SigBase
<1>1. /\ usage' \in [Transfers -> Entries] /\ usage'[t] = x
      /\ \A u \in Transfers \ {t} : usage'[u] = usage[u]
  BY <1>0, Zenon DEF SigTypeOK
<1>2. transfer'[t].status # "none" /\ transfer'[t].expires_at = transfer[t].expires_at
  BY <1>0, ZenonT(60) DEF RowMoves
<1>3. transfer[t].expires_at <= x.updated_at + Lifetime
  BY <1>0 DEF LifeOK, EntryOK
<1>4. EntryOK(t)'
  BY <1>1, <1>2, <1>3, ZenonT(60) DEF EntryOK
<1>5. \A u \in Transfers \ {t} : EntryOK(u)'
  BY <1>1, EntryKept, Zenon DEF SigInv, SigBase
<1> QED
  BY <1>1, <1>4, <1>5, ZenonT(60)

\* The charge is refused: the entry stays, and the socket closes.
LEMMA RefusedCharge ==
    ASSUME SigInv, \A u \in Transfers : RowMoves(u), NEW t \in Transfers,
           transfer[t].status # "none", usage' = [usage EXCEPT ![t] = Entry(t)], acct' = acct
    PROVE  UsageCalm
<1> DEFINE x == Entry(t)
<1>1. SigTypeOK /\ EntryOK(t) /\ now \in Nat /\ BudgetInv /\ acct \in Nat
  BY Zenon DEF SigInv, SigBase, Base, TypeOK, SigTypeOK
<1>2. /\ x \in Entries /\ x.held /\ x.counts = usage[t].counts /\ x.total = usage[t].total
      /\ x.updated_at = now \/ x.updated_at = usage[t].updated_at
      /\ x.updated_at # now => usage[t].held
  BY <1>1, EntryFacts, Zenon
<1>3. usage' = [usage EXCEPT ![t] = x]
  OBVIOUS
<1> HIDE DEF x
<1>4. /\ usage' \in [Transfers -> Entries] /\ usage'[t] = x
      /\ \A u \in Transfers \ {t} : usage'[u] = usage[u]
      /\ \A u \in Transfers : EntryOK(u)'
  BY <1>2, <1>3, EntrySet, ZenonT(60)
<1>5. \A u \in Transfers : usage'[u].total = usage[u].total /\ usage'[u].counts = usage[u].counts
  BY <1>2, <1>4, ZenonT(60)
<1>6. BudgetInv'
  BY <1>1, <1>5, SameBudget, ZenonT(60)
<1> QED
  BY <1>1, <1>4, <1>5, <1>6, ZenonT(60) DEF UsageCalm

\* A charge that is taken: nobody was sending, or had sent, the message of
\* this kind for a live transfer.
LEMMA TakenCharge ==
    ASSUME SigInv, Base', \A u \in Transfers : RowMoves(u), now <= now',
           \A r \in Requests : ReleaseOK(r)', NEW s \in Sockets,
           NEW t \in Transfers, NEW d \in Devices, NEW k \in SignalKinds,
           sock[s].t = t, sock[s].dev = d, sock[s].kind = k, sock[s].pc # "send",
           transfer[t].status # "none", Affordable(t, d, k),
           usage' = [usage EXCEPT ![t] = ChargedEntry(t, d, k)],
           acct' = acct + 1, SocketGoto(s, "send"), UNCHANGED <<forwarded, restarts>>
    PROVE  SigInv'
<1> DEFINE x == ChargedEntry(t, d, k)
<1>1. SigTypeOK /\ EntryOK(t) /\ now \in Nat /\ BudgetInv /\ Base
  BY ZenonT(60) DEF SigInv, SigBase, Base, TypeOK
<1>2. /\ x \in Entries /\ x.held /\ x.updated_at = now
      /\ x.counts[d][k] = usage[t].counts[d][k] + 1
      /\ \A e \in Devices, l \in SignalKinds :
            e # d \/ l # k => x.counts[e][l] = usage[t].counts[e][l]
  <2>1. x = ChargedEntry(t, d, k)
    OBVIOUS
  <2> HIDE DEF x
  <2>2. OneMore(x, t, d, k)
    BY <1>1, <2>1, ChargedFacts, ZenonT(60)
  <2> QED
    BY <2>2, ZenonT(60) DEF OneMore
<1>3. usage' = [usage EXCEPT ![t] = x]
  OBVIOUS
<1>4. BudgetInv' /\ acct' \in Nat
  BY <1>1, ChargeBudget, Zenon
<1>5. "send" \in SocketPCs
  BY Zenon DEF SocketPCs
<1> HIDE DEF x
<1>6. /\ usage' \in [Transfers -> Entries] /\ usage'[t] = x
      /\ \A u \in Transfers \ {t} : usage'[u] = usage[u]
      /\ \A u \in Transfers : EntryOK(u)'
  BY <1>2, <1>3, EntrySet, ZenonT(60)
<1>7. /\ sock' \in [Sockets -> SocketRecords] /\ sock'[s].pc = "send"
      /\ sock'[s].dev = d /\ sock'[s].t = t /\ sock'[s].kind = k
      /\ \A q \in Sockets \ {s} : sock'[q] = sock[q]
  BY <1>1, <1>5, SocketGotoFacts, ZenonT(60)
<1>8. \A q \in Sockets : SocketOK(q)'
  <2>1. transfer'[t].status # "none"
    BY DEF RowMoves
  <2>2. SocketOK(s)'
    BY <1>7, <2>1, ZenonT(60) DEF SocketOK
  <2>3. \A q \in Sockets \ {s} : SocketOK(q)'
    BY <1>7, SocketKept, Zenon DEF SigInv, SigBase
  <2> QED
    BY <2>2, <2>3, ZenonT(60)
<1>9. SigBase'
  <2>1. SigTypeOK'
    BY <1>1, <1>4, <1>6, <1>7, ZenonT(60) DEF SigTypeOK
  <2>2. \A u \in Transfers : LifeOK(u)'
    BY <1>1, LifeKept, Zenon DEF SigInv, SigBase
  <2> QED
    BY <1>6, <1>8, <2>1, <2>2, ZenonT(60) DEF SigBase
<1>10. OnceInv'
  <2> SUFFICES ASSUME restarts = 0, NEW u \in Transfers, NEW e \in Devices,
                      NEW l \in SingleUseKinds, Alive(u)'
               PROVE  OnceOK(u, e, l)'
    BY Zenon DEF OnceInv
  <2>1. Alive(u) /\ OnceOK(u, e, l) /\ l \in SignalKinds
    BY <1>1, AliveBefore, Zenon DEF SigInv, OnceInv, SignalKinds
  <2>2. CASE u = t /\ e = d /\ l = k
    <3>1. usage[t].counts[d][k] = 0
      <4>1. usage[t].counts[d][k] < 1
        BY <1>1, <2>2, EntryFacts, ZenonT(60) DEF Affordable, Maximum
      <4>2. usage[t].counts[d][k] \in Nat
        BY <1>1 DEF SigTypeOK, Entries
      <4> QED
        BY <4>1, <4>2, LessThanOne, ZenonT(60)
    <3>2. forwarded[t][d][k] \in Nat
      BY <1>1 DEF SigTypeOK
    <3>3. forwarded[t][d][k] = 0 /\ \A q \in Sockets : ~Sending(q, t, d, k)
      <4>1. OnceOK(t, d, k)
        BY <2>1, <2>2, ZenonT(60)
      <4>2. ~(usage[t].counts[d][k] >= 1)
        BY <3>1, OneIsMore, ZenonT(60)
      <4>3. ~(forwarded[t][d][k] >= 1) /\ \A q \in Sockets : ~Sending(q, t, d, k)
        BY <4>1, <4>2, Zenon DEF OnceOK
      <4> QED
        BY <3>2, <4>3, LessThanOne, ZenonT(60)
    <3>4. \A q \in Sockets : Sending(q, t, d, k)' => q = s
      BY <1>7, <3>3, ZenonT(60) DEF Sending
    <3>5. usage'[t].counts[d][k] = 1
      BY <1>2, <1>6, <3>1, OneIsMore, ZenonT(60)
    <3> QED
      <4>1. 0 <= 1 /\ 1 >= 1
        BY OneIsMore, Zenon
      <4>2. forwarded'[t][d][k] = 0 /\ forwarded'[t][d][k] <= 1
        BY <3>3, <4>1, Zenon
      <4>3. usage'[t].counts[d][k] >= 1
        BY <3>5, <4>1, Zenon
      <4>4. OnceOK(t, d, k)'
        BY <3>4, <4>2, <4>3, ZenonT(60) DEF OnceOK
      <4> QED
        BY <2>2, <4>4, ZenonT(60)
  <2>3. CASE ~(u = t /\ e = d /\ l = k)
    <3>1. usage'[u].counts[e][l] = usage[u].counts[e][l]
      <4>1. CASE u # t
        <5>1. usage'[u] = usage[u]
          BY <1>6, <4>1, ZenonT(60)
        <5> QED
          BY <5>1, ZenonT(60)
      <4>2. CASE u = t /\ (e # d \/ l # k)
        <5>1. x.counts[e][l] = usage[t].counts[e][l] /\ usage'[t] = x
          BY <1>2, <1>6, <2>1, <4>2, ZenonT(60)
        <5> QED
          BY <4>2, <5>1, ZenonT(60)
      <4> QED
        BY <2>3, <4>1, <4>2, ZenonT(60)
    <3>2. \A q \in Sockets : Sending(q, u, e, l)' => Sending(q, u, e, l)
      BY <1>7, <2>3, Zenon DEF Sending
    <3> QED
      BY <2>1, <3>1, <3>2, ZenonT(60) DEF OnceOK
  <2> QED
    BY <2>2, <2>3, ZenonT(60)
<1> QED
  BY <1>4, <1>9, <1>10, ZenonT(60) DEF SigInv

HandedOver(t, d, k) ==
    forwarded' = [forwarded EXCEPT ![t][d][k] =
                     IF k \in SingleUseKinds /\ @ < 2 THEN @ + 1 ELSE @]

\* The message goes out: it was on the budget and no other is under way.
LEMMA Forwarded ==
    ASSUME SigInv, Base', \A u \in Transfers : RowMoves(u), now <= now',
           \A r \in Requests : ReleaseOK(r)', UsageCalm, NEW s \in Sockets,
           NEW t \in Transfers, NEW d \in Devices, NEW k \in SignalKinds,
           sock[s].pc = "send", sock[s].t = t, sock[s].dev = d, sock[s].kind = k,
           NextMessage(s), UNCHANGED restarts, HandedOver(t, d, k)
    PROVE  SigInv'
<1>1. SigTypeOK /\ Base
  BY DEF SigInv, SigBase
<1>2. sock' = [sock EXCEPT ![s] = [ClosedSocket EXCEPT !.pc = "open", !.dev = d]]
  BY DEF NextMessage
<1>3. SocketCalm
  BY <1>2, NextCalm, ZenonT(60)
<1>4. sock'[s].pc = "open" /\ \A q \in Sockets \ {s} : sock'[q] = sock[q]
  BY <1>1, <1>2, OpenFacts, ZenonT(60)
<1> DEFINE y == forwarded[t][d][k]
           z == IF k \in SingleUseKinds /\ y < 2 THEN y + 1 ELSE y
<1>5. y \in Nat /\ z \in Nat /\ forwarded \in [Transfers -> [Devices -> [SignalKinds -> Nat]]]
  BY <1>1 DEF SigTypeOK
<1>6. forwarded' = [forwarded EXCEPT ![t][d][k] = z]
  BY ZenonT(60) DEF HandedOver
<1> HIDE DEF z
<1>7. /\ forwarded' \in [Transfers -> [Devices -> [SignalKinds -> Nat]]]
      /\ forwarded'[t][d][k] = z
      /\ \A u \in Transfers, e \in Devices, l \in SignalKinds :
            u # t \/ e # d \/ l # k => forwarded'[u][e][l] = forwarded[u][e][l]
  BY <1>5, <1>6
<1>8. SigBase'
  <2>1. SigTypeOK'
    BY <1>1, <1>3, <1>7, ZenonT(60) DEF SigTypeOK, UsageCalm, SocketCalm
  <2>2. \A u \in Transfers : LifeOK(u)'
    BY <1>1, LifeKept, ZenonT(60) DEF SigInv, SigBase
  <2> QED
    BY <1>3, <2>1, <2>2, ZenonT(60) DEF SigBase, UsageCalm, SocketCalm
<1>9. OnceInv'
  <2> SUFFICES ASSUME restarts = 0, NEW u \in Transfers, NEW e \in Devices,
                      NEW l \in SingleUseKinds, Alive(u)'
               PROVE  OnceOK(u, e, l)'
    BY Zenon DEF OnceInv
  <2>1. Alive(u)
    BY <1>1, AliveBefore, ZenonT(60)
  <2>2. OnceOK(u, e, l) /\ usage'[u].counts = usage[u].counts /\ l \in SignalKinds
    BY <2>1 DEF SigInv, OnceInv, UsageCalm, SignalKinds
  <2>3. \A q \in Sockets : Sending(q, u, e, l)' => Sending(q, u, e, l) /\ q # s
    BY <1>4, ZenonT(60) DEF Sending
  <2>4. CASE u = t /\ e = d /\ l = k
    <3>1. Sending(s, u, e, l)
      BY <2>4 DEF Sending
    <3>2. usage[u].counts[e][l] >= 1 /\ forwarded[u][e][l] = 0
      BY <2>2, <3>1, ZenonT(60) DEF OnceOK
    <3>3. \A q \in Sockets : ~Sending(q, u, e, l)'
      BY <2>2, <2>3, <3>1, ZenonT(60) DEF OnceOK
    <3>4. forwarded'[u][e][l] = 1
      <4>1. y = 0 /\ forwarded'[u][e][l] = z /\ k \in SingleUseKinds
        BY <1>7, <2>4, <3>2, ZenonT(60)
      <4>2. z = 1
        BY <4>1, OneIsMore, ZenonT(60) DEF z
      <4> QED
        BY <4>1, <4>2, ZenonT(60)
    <3>5. forwarded'[u][e][l] <= 1 /\ usage'[u].counts[e][l] >= 1
      BY <2>2, <3>2, <3>4, OneIsMore, ZenonT(60)
    <3> QED
      BY <3>3, <3>5, ZenonT(60) DEF OnceOK
  <2>5. CASE ~(u = t /\ e = d /\ l = k)
    <3>1. forwarded'[u][e][l] = forwarded[u][e][l]
      BY <1>7, <2>2, <2>5, ZenonT(60)
    <3> QED
      BY <2>2, <2>3, <3>1, ZenonT(60) DEF OnceOK
  <2> QED
    BY <2>4, <2>5, Zenon
<1> QED
  BY <1>8, <1>9, ZenonT(60) DEF SigInv, UsageCalm

\* A budget is dropped with a row that was read as ended or is past its time.
LEMMA EndedIsOver ==
    ASSUME SigInv, NEW s \in Sockets, sock[s].pc = "resume", sock[s].seen # "none",
           sock[s].seen \notin ActiveStatuses \/ transfer[sock[s].t].expires_at <= now
    PROVE  sock[s].t \in Transfers /\ ~Alive(sock[s].t)
<1> DEFINE t == sock[s].t
<1>1. t \in Transfers /\ Saw(t, sock[s].seen)
  BY Zenon DEF SigInv, SigBase, SocketOK
<1>2. sock[s].seen \in Statuses /\ now \in Nat /\ transfer[t].expires_at \in Nat
  BY <1>1, ZenonT(60) DEF SigInv, SigBase, SigTypeOK, SocketRecords, Base, TypeOK, Rows
<1>3. transfer[t].status # "none"
  BY <1>1, Zenon DEF Saw
<1>4. CASE sock[s].seen \notin ActiveStatuses
  <2>1. transfer[t].status \in TerminalStatuses
    BY <1>1, <1>2, <1>4, ZenonT(60) DEF Saw, Statuses
  <2> QED
    BY <1>1, <2>1, ZenonT(60) DEF Alive, LiveAt, TerminalStatuses, ActiveStatuses
<1>5. CASE transfer[t].expires_at <= now
  <2>1. ~(transfer[t].expires_at > now)
    BY <1>2, <1>5, NotAfter, ZenonT(60)
  <2> QED
    BY <1>1, <1>3, <2>1, ZenonT(60) DEF Alive, LiveAt
<1> QED
  BY <1>4, <1>5, Zenon

LEMMA ChargeStep ==
    ASSUME SigInv, Base', \A u \in Transfers : RowMoves(u), now <= now',
           \A r \in Requests : ReleaseOK(r)', NEW s \in Sockets,
           sock[s].pc \in {"resume", "charge"}, transfer[sock[s].t].status # "none",
           Charge(s), UNCHANGED <<forwarded, restarts>>
    PROVE  SigInv'
<1>0. /\ sock[s].t \in Transfers /\ sock[s].dev \in Devices /\ sock[s].kind \in SignalKinds
      /\ sock[s].pc # "send"
  BY Zenon DEF SigInv, SigBase, SocketOK
<1>1. PICK t \in Transfers, d \in Devices, k \in SignalKinds :
         t = sock[s].t /\ d = sock[s].dev /\ k = sock[s].kind
  BY <1>0
<1>2. CASE Affordable(t, d, k)
  <2>1. /\ usage' = [usage EXCEPT ![t] = ChargedEntry(t, d, k)]
        /\ acct' = acct + 1 /\ SocketGoto(s, "send")
    BY <1>1, <1>2, ZenonT(60) DEF Charge
  <2> QED
    BY <1>0, <1>1, <1>2, <2>1, TakenCharge, ZenonT(60)
<1>3. CASE ~Affordable(t, d, k)
  <2>1. usage' = [usage EXCEPT ![t] = Entry(t)] /\ acct' = acct /\ CloseSocket(s)
    BY <1>1, <1>3, Zenon DEF Charge
  <2>2. UsageCalm
    BY <1>1, <2>1, RefusedCharge, ZenonT(60)
  <2>3. SocketCalm
    BY <2>1, ClosedCalm, Zenon
  <2> QED
    BY <2>2, <2>3, CalmStepOnce, ZenonT(60)
<1> QED
  BY <1>2, <1>3, Zenon

LEMMA ResumeStep ==
    ASSUME SigInv, Base', \A u \in Transfers : RowMoves(u), now <= now',
           \A r \in Requests : ReleaseOK(r)', NEW s \in Sockets, ResumeWith(s)
    PROVE  SigInv'
<1>0. sock[s].pc = "resume" /\ UNCHANGED <<forwarded, restarts>> /\ sock[s].seen \in Statuses
  BY DEF ResumeWith, SigInv, SigBase, SigTypeOK, SocketRecords
<1>1. sock[s].t \in Transfers /\ Saw(sock[s].t, sock[s].seen)
  BY <1>0, Zenon DEF SigInv, SigBase, SocketOK
<1>2. ASSUME CloseSocket(s), UNCHANGED <<usage, acct>> PROVE SigInv'
  BY <1>0, <1>2, SameUsage, ClosedCalm, CalmStepOnce, ZenonT(60)
<1>3. CASE sock[s].seen = "none"
  BY <1>0, <1>2, <1>3, ZenonT(60) DEF ResumeWith
<1>4. CASE /\ sock[s].seen # "none"
           /\ sock[s].seen \notin ActiveStatuses \/ transfer[sock[s].t].expires_at <= now
  <2>1. CloseSocket(s) /\ ReleaseUsage({sock[s].t})
    <3>1. ~(sock[s].seen \in ActiveStatuses /\ transfer[sock[s].t].expires_at > now)
      <4>1. now \in Nat /\ transfer[sock[s].t].expires_at \in Nat
        BY <1>1, ZenonT(60) DEF SigInv, SigBase, Base, TypeOK, Rows
      <4> QED
        BY <1>4, <4>1
    <3> QED
      BY <1>4, <3>1, ZenonT(60) DEF ResumeWith
  <2>2. ~Alive(sock[s].t)
    BY <1>0, <1>4, EndedIsOver, ZenonT(60)
  <2>3. UsageCalm
    BY <1>1, <2>1, <2>2, FreedUsage, ZenonT(60)
  <2> QED
    BY <1>0, <2>1, <2>3, ClosedCalm, CalmStepOnce, ZenonT(60)
<1>5. CASE sock[s].seen \in ActiveStatuses /\ ~(transfer[sock[s].t].expires_at <= now)
  <2>0. transfer[sock[s].t].expires_at > now
    BY <1>1, <1>5 DEF SigInv, SigBase, Base, TypeOK, Rows
  <2>1. \/ CloseSocket(s) /\ UNCHANGED <<usage, acct>>
        \/ SocketGoto(s, "negotiate") /\ UNCHANGED <<usage, acct>>
        \/ Charge(s)
    BY <1>5, <2>0, ZenonT(60) DEF ResumeWith, ActiveStatuses
  <2>2. transfer[sock[s].t].status # "none"
    BY <1>1, <1>5, ZenonT(60) DEF Saw, ActiveStatuses
  <2>3. CASE SocketGoto(s, "negotiate") /\ UNCHANGED <<usage, acct>>
    <3>1. SocketCalm
      BY <1>0, <2>2, <2>3, GotoCalm, ZenonT(60)
    <3> QED
      BY <1>0, <2>3, <3>1, SameUsage, CalmStepOnce, ZenonT(60)
  <2>4. CASE Charge(s)
    BY <1>0, <2>2, <2>4, ChargeStep, ZenonT(60)
  <2> QED
    BY <1>2, <2>1, <2>3, <2>4, ZenonT(60)
<1> QED
  BY <1>3, <1>4, <1>5, ZenonT(60)

LEMMA SocketStep ==
    ASSUME SigInv, Base', \A u \in Transfers : RowMoves(u), now <= now',
           \A r \in Requests : ReleaseOK(r)', NEW s \in Sockets,
           \/ Open(s) \/ Hangup(s) \/ Receive(s) \/ ReadTransfer(s) \/ ResumeWith(s)
           \/ Negotiate(s) \/ ChargeAfter(s) \/ Forward(s) \/ SocketDbTimeout(s)
    PROVE  SigInv'
<1>0. active \subseteq Devices /\ SocketOK(s)
  BY DEF SigInv, SigBase, Base, TypeOK
<1>1. ASSUME UNCHANGED <<usage, acct, forwarded, restarts>>, SocketCalm PROVE SigInv'
  BY <1>1, SameUsage, CalmStepOnce, ZenonT(60)
<1>2. CASE Open(s)
  <2>1. SocketCalm
    BY <1>0, <1>2, NextCalm, ZenonT(60) DEF Open
  <2> QED
    BY <1>1, <1>2, <2>1, ZenonT(60) DEF Open
<1>3. CASE Hangup(s) \/ SocketDbTimeout(s)
  <2>1. CloseSocket(s) /\ UNCHANGED <<usage, acct, forwarded, restarts>>
    BY <1>3, Zenon DEF Hangup, SocketDbTimeout
  <2> QED
    BY <1>1, <2>1, ClosedCalm, Zenon
<1>4. CASE Receive(s)
  <2>1. Prune /\ UNCHANGED <<forwarded, restarts>>
    BY <1>4, Zenon DEF Receive
  <2> QED
    BY <1>4, <2>1, ReceiveCalm, PrunedUsage, CalmStepOnce, ZenonT(60)
<1>5. CASE ReadTransfer(s)
  <2>1. UNCHANGED <<usage, acct, forwarded, restarts>>
    BY <1>5, Zenon DEF ReadTransfer
  <2> QED
    BY <1>1, <1>5, <2>1, ReadCalm, ZenonT(60)
<1>6. CASE ResumeWith(s)
  BY <1>6, ResumeStep, ZenonT(60)
<1>7. CASE Negotiate(s)
  <2>1. /\ SocketGoto(s, "charge") \/ CloseSocket(s)
        /\ UNCHANGED <<usage, acct, forwarded, restarts>> /\ sock[s].pc = "negotiate"
    BY <1>7, Zenon DEF Negotiate
  <2>2. transfer[sock[s].t].status # "none"
    BY <1>0, <2>1, ZenonT(60) DEF SocketOK
  <2>3. SocketCalm
    BY <2>1, <2>2, GotoCalm, ClosedCalm, ZenonT(60)
  <2> QED
    BY <1>1, <2>1, <2>3, ZenonT(60)
<1>8. CASE ChargeAfter(s)
  <2>1. sock[s].pc = "charge" /\ Charge(s) /\ UNCHANGED <<forwarded, restarts>>
    BY <1>8, Zenon DEF ChargeAfter
  <2>2. transfer[sock[s].t].status # "none"
    BY <1>0, <2>1, ZenonT(60) DEF SocketOK
  <2> QED
    BY <2>1, <2>2, ChargeStep, ZenonT(60)
<1>9. CASE Forward(s)
  <2>1. sock[s].pc = "send" /\ Prune /\ UNCHANGED restarts
    BY <1>9, Zenon DEF Forward
  <2>2. UsageCalm
    BY <2>1, PrunedUsage, ZenonT(60)
  <2>3. CASE CloseSocket(s) /\ UNCHANGED forwarded
    BY <2>1, <2>2, <2>3, ClosedCalm, CalmStepOnce, ZenonT(60)
  <2>4. CASE /\ NextMessage(s)
             /\ forwarded' = [forwarded EXCEPT ![sock[s].t][sock[s].dev][sock[s].kind] =
                                IF sock[s].kind \in SingleUseKinds /\ @ < 2 THEN @ + 1 ELSE @]
    <3>1. PICK t \in Transfers, d \in Devices, k \in SignalKinds :
             t = sock[s].t /\ d = sock[s].dev /\ k = sock[s].kind
      BY <1>0, <2>1, ZenonT(60) DEF SocketOK
    <3>2. HandedOver(t, d, k)
      BY <2>4, <3>1, ZenonT(60) DEF HandedOver
    <3> QED
      BY <2>1, <2>2, <2>4, <3>1, <3>2, Forwarded, ZenonT(60)
  <2> QED
    BY <1>9, <2>3, <2>4, ZenonT(60) DEF Forward
<1> QED
  BY <1>2, <1>3, <1>4, <1>5, <1>6, <1>7, <1>8, <1>9, ZenonT(60)

-----------------------------------------------------------------------------
(* The whole composition. *)

LEMMA SigHandler ==
    ASSUME SigInv, Base', \A u \in Transfers : RowMoves(u), now <= now',
           \A q \in Requests : ReleaseOK(q)', NEW r \in Requests,
           Handler(r) \/ ReleaseBudget(r) \/ Tell(r)
    PROVE  SigInv'
<1>1. CASE Handler(r)
  <2>1. UNCHANGED <<usage, acct, sock, forwarded, restarts>>
    BY <1>1 DEF Handler, sigVars
  <2> QED
    BY <2>1, SameUsage, SameSockets, CalmStepOnce, ZenonT(60)
<1>2. CASE ReleaseBudget(r)
  <2>1. /\ req[r].pc = "release" /\ ReleaseUsage({req[r].t})
        /\ UNCHANGED <<sock, forwarded, restarts>>
    BY <1>2, Zenon DEF ReleaseBudget, Release
  <2>2. req[r].t \in Transfers /\ transfer[req[r].t].status \in TerminalStatuses
    BY <2>1, ZenonT(60) DEF SigInv, SigBase, ReleaseOK, Base, HandlerOK
  <2>3. ~Alive(req[r].t)
    BY <2>2, ZenonT(60) DEF Alive, LiveAt, TerminalStatuses, ActiveStatuses
  <2>4. UsageCalm
    BY <2>1, <2>2, <2>3, FreedUsage, ZenonT(60)
  <2> QED
    BY <2>1, <2>4, SameSockets, CalmStepOnce, ZenonT(60)
<1>3. CASE Tell(r)
  <2>1. Prune /\ UNCHANGED <<sock, forwarded, restarts>>
    BY <1>3, ZenonT(60) DEF Tell
  <2> QED
    BY <2>1, PrunedUsage, SameSockets, CalmStepOnce, ZenonT(60)
<1> QED
  BY <1>1, <1>2, <1>3, ZenonT(60)

LEMMA EmptyBudgets ==
    ASSUME \A t \in Transfers : usage[t] = NoUsage, acct = 0
    PROVE  BudgetInv
<1>1. \A t \in Transfers : usage[t].total = 0 /\ 1..usage[t].total = {}
  BY NoUsageType, NoneCounted, ZenonT(60)
<1>2. \A t \in Transfers, d \in Devices, k \in SignalKinds : 1..usage[t].counts[d][k] = {}
  BY NoUsageType, NoneCounted, ZenonT(60)
<1>3. ChargedTo(Transfers) = {}
  BY <1>1, Zenon DEF ChargedTo
<1>4. \A t \in Transfers : SentFor(t) = {}
  BY <1>2 DEF SentFor
<1>5. IsFiniteSet({}) /\ Cardinality({}) = 0
  BY FS_EmptySet, Zenon
<1>6. 0 <= MaxPerTransfer /\ 0 <= MaxPerAccount
  BY BudgetAssumption
<1> QED
  BY <1>1, <1>3, <1>4, <1>5, <1>6, ZenonT(60) DEF BudgetInv, BudgetExact

LEMMA SigInit1 == SigInit => SigInv
<1> SUFFICES ASSUME SigInit PROVE SigInv
  OBVIOUS
<1>1. Base
  BY BaseInit, Zenon DEF SigInit
<1>2. SigTypeOK
  <2>1. usage \in [Transfers -> Entries] /\ sock \in [Sockets -> SocketRecords]
    BY NoUsageType, ClosedType, ZenonT(60) DEF SigInit
  <2>2. forwarded \in [Transfers -> [Devices -> [SignalKinds -> Nat]]]
    BY DEF SigInit, ZeroCounts
  <2> QED
    BY <2>1, <2>2, Zenon DEF SigInit, SigTypeOK
<1>3. \A s \in Sockets : sock[s].pc = "closed"
  BY ClosedType, Zenon DEF SigInit
<1>4. \A s \in Sockets : SocketOK(s)
  BY <1>3, ZenonT(60) DEF SocketOK
<1>5. \A r \in Requests : ReleaseOK(r)
  BY DEF SigInit, Init, NoHandler, ReleaseOK
<1>6. \A t \in Transfers : LifeOK(t) /\ EntryOK(t)
  <2>1. \A t \in Transfers : transfer[t].status = "none" /\ usage[t] = NoUsage
    BY DEF SigInit, Init, NoRow
  <2> QED
    BY <2>1, NoUsageType, ZenonT(60) DEF LifeOK, EntryOK
<1>7. BudgetInv
  BY EmptyBudgets, ZenonT(60) DEF SigInit
<1>8. OnceInv
  <2>1. \A t \in Transfers, d \in Devices, k \in SignalKinds : forwarded[t][d][k] = 0
    BY DEF SigInit, ZeroCounts
  <2> QED
    BY <1>3, <2>1, OneIsMore, ZenonT(60) DEF OnceInv, OnceOK, Sending, SignalKinds
<1> QED
  BY <1>1, <1>2, <1>4, <1>5, <1>6, <1>7, <1>8, ZenonT(60) DEF SigInv, SigBase

LEMMA SigRestart ==
    ASSUME SigInv, Base', \A u \in Transfers : RowMoves(u), now <= now',
           \A r \in Requests : ReleaseOK(r)', RestartAll
    PROVE  SigInv'
<1>0. SigTypeOK /\ Base
  BY DEF SigInv, SigBase
<1>1. /\ usage' \in [Transfers -> Entries] /\ sock' \in [Sockets -> SocketRecords]
      /\ \A t \in Transfers : usage'[t] = NoUsage
      /\ \A s \in Sockets : sock'[s].pc = "closed"
  BY NoUsageType, ClosedType, ZenonT(60) DEF RestartAll
<1>2. acct' = 0 /\ restarts' \in Nat /\ restarts' # 0 /\ forwarded' = forwarded
  BY <1>0 DEF RestartAll, SigTypeOK
<1>3. SigTypeOK'
  BY <1>0, <1>1, <1>2, Zenon DEF SigTypeOK
<1>4. \A s \in Sockets : SocketOK(s)'
  BY <1>1, ZenonT(60) DEF SocketOK
<1>5. \A t \in Transfers : LifeOK(t)'
  BY <1>0, LifeKept, Zenon DEF SigInv, SigBase
<1>6. \A t \in Transfers : EntryOK(t)'
  <2>1. NoUsage' = NoUsage /\ ~NoUsage.held
    BY NoUsageType DEF NoUsage, ZeroCounts
  <2> QED
    BY <1>1, <2>1, ZenonT(60) DEF EntryOK
<1>7. BudgetInv'
  <2>1. NoUsage' = NoUsage
    BY DEF NoUsage, ZeroCounts
  <2>2. \A t \in Transfers : usage'[t].total = 0 /\ 1..usage'[t].total = {}
    <3>1. \A t \in Transfers : usage'[t].total = 0
      BY <1>1, NoUsageType, ZenonT(60)
    <3> QED
      BY <3>1
  <2>3. \A t \in Transfers, d \in Devices, k \in SignalKinds : 1..usage'[t].counts[d][k] = {}
    BY <1>1, NoUsageType
  <2>4. ChargedTo(Transfers)' = {}
    BY <2>2, ZenonT(60) DEF ChargedTo
  <2>5. \A t \in Transfers : SentFor(t)' = {}
    BY <2>3 DEF SentFor
  <2>6. IsFiniteSet({}) /\ Cardinality({}) = 0
    BY FS_EmptySet, Zenon
  <2>7. 0 <= MaxPerTransfer /\ 0 <= MaxPerAccount
    BY BudgetAssumption
  <2> QED
    BY <1>2, <2>2, <2>4, <2>5, <2>6, <2>7, ZenonT(60) DEF BudgetInv, BudgetExact
<1>8. OnceInv'
  BY <1>2 DEF OnceInv
<1> QED
  BY <1>3, <1>4, <1>5, <1>6, <1>7, <1>8, ZenonT(60) DEF SigInv, SigBase

LEMMA SigNextInv == SigInv /\ [SigNext]_allVars => SigInv'
<1> SUFFICES ASSUME SigInv, [SigNext]_allVars PROVE SigInv'
  OBVIOUS
<1>0. [Next]_vars /\ Base
  BY ControlStep DEF SigInv, SigBase
<1>1. Base' /\ now <= now' /\ \A u \in Transfers : RowMoves(u)
  BY <1>0, BaseNext, RowsMove, ZenonT(60)
<1>2. \A r \in Requests : ReleaseOK(r)'
  BY <1>0, ReleaseKept, ZenonT(60) DEF SigInv, SigBase
<1>3. ASSUME UNCHANGED <<usage, acct, sock, forwarded, restarts>> PROVE SigInv'
  BY <1>1, <1>2, <1>3, SameUsage, SameSockets, CalmStepOnce, ZenonT(60)
<1>4. ASSUME NEW r \in Requests, Handler(r) \/ ReleaseBudget(r) \/ Tell(r) PROVE SigInv'
  BY <1>1, <1>2, <1>4, SigHandler, ZenonT(60)
<1>5. ASSUME NEW s \in Sockets,
             \/ Open(s) \/ Hangup(s) \/ Receive(s) \/ ReadTransfer(s) \/ ResumeWith(s)
             \/ Negotiate(s) \/ ChargeAfter(s) \/ Forward(s) \/ SocketDbTimeout(s)
      PROVE  SigInv'
  BY <1>1, <1>2, <1>5, SocketStep, ZenonT(60)
<1>6. CASE RestartAll
  BY <1>1, <1>2, <1>6, SigRestart, ZenonT(60)
<1>7. CASE UNCHANGED sigVars
  BY <1>3, <1>7, Zenon DEF sigVars
<1>8. CASE UNCHANGED allVars
  BY <1>7, <1>8, Zenon DEF allVars
<1> QED
  BY <1>4, <1>5, <1>6, <1>7, <1>8, ZenonT(60) DEF SigNext

LEMMA SigAlways == SigSpec => []SigInv
  BY SigInit1, SigNextInv, PTL DEF SigSpec

\* The sockets, the budgets and the handlers composed do to the rows, the
\* handlers and the notices only what TransferControl allows: everything
\* proved of it holds of the composition.
THEOREM ControlTheorem == SigSpec => ControlSpec
<1>1. SigInit => Init
  BY DEF SigInit
<1>2. SigInv /\ [SigNext]_allVars => [Next]_vars
  BY ControlStep DEF SigInv, SigBase
<1> QED
  BY <1>1, <1>2, SigAlways, PTL DEF SigSpec, ControlSpec, Spec

\* PresenceManager's totals never drift: through every charge, refusal,
\* release, prune and restart the account's total is the number of messages
\* its transfers were charged for, and neither limit is passed.
THEOREM BudgetTheorem == SigSpec => []BudgetExact
<1>1. SigInv => BudgetExact
  BY ZenonT(60) DEF SigInv, BudgetInv
<1> QED
  BY <1>1, SigAlways, PTL

\* Within one life of the server a device's offer, answer and handshake is
\* forwarded at most once for a live transfer, whatever sockets, prunes and
\* releases interleave.
THEOREM SingleUseTheorem == SigSpec => []SingleUseWhileLive
<1>1. SigInv => SingleUseWhileLive
  <2> SUFFICES ASSUME SigInv, restarts = 0, NEW t \in LiveAt(now), NEW d \in Devices,
                      NEW k \in SingleUseKinds
               PROVE  forwarded[t][d][k] <= 1
    BY DEF SingleUseWhileLive
  <2>1. t \in Transfers /\ Alive(t)
    BY DEF Alive, LiveAt
  <2> QED
    BY <2>1, ZenonT(60) DEF SigInv, OnceInv, OnceOK
<1> QED
  BY <1>1, SigAlways, PTL

=============================================================================
