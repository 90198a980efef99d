--------------------------- MODULE SessionsProofs ---------------------------
(***************************************************************************)
(* Proofs about Sessions, for any number of sessions, tickets and requests *)
(* and any lifetimes, and about SignIn, for any sets of addresses,         *)
(* spellings, users and concurrent requests.  The two share no variable.   *)
(***************************************************************************)
EXTENDS Sessions, SignIn, FiniteSetTheorems, TLAPS

LEMMA NotLater == \A n \in Nat : n <= n
OBVIOUS

RowSet ==
    [state : {"none", "live", "revoked", "deleted"}, idle : Nat, absolute : Nat,
     ended : Nat, csrf : Nat, root : Nat]

PassSet ==
    [state : {"none", "issued", "consumed", "deleted"}, session : Ids \cup {Nobody},
     expires : Nat]

Places ==
    {"idle", "insert", "commit", "touch", "act", "replace", "buy", "lookup", "admit"}

Ops == Operations \cup {"none", "create", "socket"}

\* The request brings a ticket.
Brings == {"lookup", "admit"}

RequestSet ==
    [at : Places,
     op : Ops,
     s : Ids \cup {Nobody}, k : Tickets \cup {Nobody}, token : Nat, rec : RowSet]

\* The tables, the requests and the counters have the shape of the code's.
SType ==
    /\ now \in Nat
    /\ device \in {"active", "out"}
    /\ session \in [Ids -> RowSet]
    /\ ticket \in [Tickets -> PassSet]
    /\ worker \in [Workers -> RequestSet]
    /\ given \in [Ids -> Nat]
    /\ heirs \in [Ids -> Nat]
    /\ sockets \in [Tickets -> Nat]

\* What a request holds at each place, and what a ticket stands for.
Local ==
    /\ \A w \in Workers :
        /\ worker[w].at \in {"touch", "act", "replace", "buy"} => worker[w].s \in Ids
        /\ worker[w].at \in Brings => worker[w].s \in Ids /\ worker[w].k \in Tickets
        /\ worker[w].at \in {"commit", "insert"} => worker[w].rec.state = "live"
    /\ \A k \in Tickets :
        /\ ticket[k].state = "none" => ticket[k].session = Nobody
        /\ ticket[k].state = "issued" => ticket[k].session \in Ids

InOrder(r) == r.idle <= r.absolute /\ r.absolute <= r.root

\* Deadlines are in order in the rows and in the rows requests carry; a session
\* that was replaced is over, and one that has no row yet was never replaced.
Line ==
    /\ \A s \in Ids :
        /\ InOrder(session[s])
        /\ heirs[s] <= 1
        /\ heirs[s] = 1 => session[s].state \in {"revoked", "deleted"}
    /\ \A w \in Workers : InOrder(worker[w].rec)

\* A ticket that let a socket pass, or is about to, is used up, and no two
\* requests bring the same one.
Spent ==
    /\ \A k \in Tickets :
        /\ sockets[k] <= 1
        /\ sockets[k] = 1 => ticket[k].state \notin {"none", "issued"}
    /\ \A w \in Workers : worker[w].at \in Brings =>
        /\ ticket[worker[w].k].state \notin {"none", "issued"}
        /\ sockets[worker[w].k] = 0
        /\ \A v \in Workers :
             v # w /\ worker[v].at \in Brings => worker[v].k # worker[w].k

SInv == SType /\ Local /\ Line /\ Spent

-----------------------------------------------------------------------------
(* Rows *)

LEMMA Bounds ==
    /\ IdleLife \in Nat /\ AbsoluteLife \in Nat /\ TicketLife \in Nat
    /\ Retention \in Nat /\ MaxTime \in Nat
BY SessionBounds

LEMMA LeastFacts ==
    ASSUME NEW a \in Nat, NEW b \in Nat
    PROVE Least(a, b) \in Nat /\ Least(a, b) <= a /\ Least(a, b) <= b
BY DEF Least

LEMMA RowFacts ==
    ASSUME NEW state \in {"none", "live", "revoked", "deleted"},
           NEW idle \in Nat, NEW absolute \in Nat, NEW root \in Nat
    PROVE /\ Row(state, idle, absolute, root) \in RowSet
          /\ Row(state, idle, absolute, root).state = state
          /\ Row(state, idle, absolute, root).idle = idle
          /\ Row(state, idle, absolute, root).absolute = absolute
          /\ Row(state, idle, absolute, root).root = root
BY DEF Row, RowSet

LEMMA NoRowFacts ==
    /\ NoRow \in RowSet /\ NoRow.state = "none" /\ InOrder(NoRow)
    /\ DeletedRow \in RowSet /\ DeletedRow.state = "deleted" /\ InOrder(DeletedRow)
BY RowFacts DEF NoRow, DeletedRow, InOrder

LEMMA RevokedFacts ==
    ASSUME now \in Nat
    PROVE RevokedRow \in RowSet /\ RevokedRow.state = "revoked" /\ InOrder(RevokedRow)
<1>1. /\ Row("revoked", 0, 0, 0) \in RowSet /\ Row("revoked", 0, 0, 0).state = "revoked"
      /\ InOrder(Row("revoked", 0, 0, 0))
  BY RowFacts DEF InOrder
<1> QED BY <1>1 DEF RevokedRow, RowSet, InOrder

LEMMA KeptFacts ==
    ASSUME NEW op, NEW r \in RowSet, InOrder(r)
    PROVE Kept(op, r) \in RowSet /\ InOrder(Kept(op, r))
<1>1. r.csrf \in Nat
  BY DEF RowSet
<1>2. [NoRow EXCEPT !.csrf = r.csrf] \in RowSet /\ InOrder([NoRow EXCEPT !.csrf = r.csrf])
  BY <1>1, NoRowFacts DEF RowSet, InOrder
<1> QED BY <1>2 DEF Kept

LEMMA TouchedFacts ==
    ASSUME now \in Nat, NEW r \in RowSet
    PROVE /\ Touched(r) \in RowSet
          /\ Touched(r).state = r.state
          /\ InOrder(r) => InOrder(Touched(r))
<1>1. now + IdleLife \in Nat
  BY Bounds
<1>2. r.absolute \in Nat
  BY DEF RowSet
<1>3. Least(now + IdleLife, r.absolute) \in Nat /\ Least(now + IdleLife, r.absolute) <= r.absolute
  BY <1>1, <1>2, LeastFacts, Zenon
<1> QED BY <1>3 DEF Touched, RowSet, InOrder

LEMMA ReplacedFacts ==
    ASSUME NEW r \in RowSet, NEW secret \in Nat
    PROVE /\ Replaced(r, secret) \in RowSet
          /\ Replaced(r, secret).state = r.state
          /\ InOrder(r) => InOrder(Replaced(r, secret))
BY DEF Replaced, RowSet, InOrder

LEMMA PreparedFacts ==
    ASSUME now \in Nat, NEW absolute \in Nat
    PROVE /\ Prepared(absolute) \in RowSet
          /\ Prepared(absolute).state = "live"
          /\ Prepared(absolute).absolute = absolute
          /\ InOrder(Prepared(absolute))
<1>1. Least(now + IdleLife, absolute) \in Nat /\ Least(now + IdleLife, absolute) <= absolute
  BY Bounds, LeastFacts
<1> QED BY <1>1, RowFacts DEF Prepared, InOrder

LEMMA HeirFacts ==
    ASSUME now \in Nat, NEW rec \in RowSet, InOrder(rec),
           NEW heir, heir = [Prepared(Inherited(rec)) EXCEPT !.root = rec.root]
    PROVE heir \in RowSet /\ heir.state = "live" /\ InOrder(heir)
<1>1. rec.absolute \in Nat /\ rec.root \in Nat
  BY DEF RowSet
<1>2. /\ Prepared(rec.absolute) \in RowSet
      /\ Prepared(rec.absolute).state = "live"
      /\ Prepared(rec.absolute).absolute = rec.absolute
      /\ InOrder(Prepared(rec.absolute))
  BY <1>1, PreparedFacts
<1> QED BY <1>1, <1>2 DEF Inherited, RowSet, InOrder

-----------------------------------------------------------------------------
(* Requests *)

LEMMA RequestFacts ==
    ASSUME NEW at \in Places, NEW op \in Ops,
           NEW s \in Ids \cup {Nobody}, NEW token \in Nat, NEW rec \in RowSet
    PROVE /\ Request(at, op, s, token, rec) \in RequestSet
          /\ Request(at, op, s, token, rec).at = at
          /\ Request(at, op, s, token, rec).s = s
          /\ Request(at, op, s, token, rec).op = op
          /\ Request(at, op, s, token, rec).rec = rec
BY DEF Request, RequestSet

LEMMA ActFacts ==
    ASSUME NEW op \in Ops, NEW s \in Ids, NEW rec \in RowSet
    PROVE /\ Request("act", op, s, 0, rec) \in RequestSet
          /\ Request("act", op, s, 0, rec).at = "act"
          /\ Request("act", op, s, 0, rec).s = s
          /\ Request("act", op, s, 0, rec).rec = rec
BY DEF Request, RequestSet, Places, Ops

LEMMA InsertFacts ==
    ASSUME NEW rec \in RowSet
    PROVE /\ Request("insert", "create", Nobody, 0, rec) \in RequestSet
          /\ Request("insert", "create", Nobody, 0, rec).at = "insert"
          /\ Request("insert", "create", Nobody, 0, rec).rec = rec
BY DEF Request, RequestSet, Places, Ops

LEMMA IdleFacts == Idle \in RequestSet /\ Idle.at = "idle" /\ Idle.rec = NoRow
BY RequestFacts, NoRowFacts DEF Idle, Places, Ops


\* A request that goes on to `x' and changes nothing else.
LEMMA GoesOn ==
    ASSUME SInv, NEW w \in Workers, NEW x \in RequestSet, Goes(w, x),
           UNCHANGED <<now, device, session, ticket, given, heirs, sockets>>,
           x.at \notin Brings, InOrder(x.rec),
           x.at \in {"touch", "act", "replace", "buy"} => x.s \in Ids,
           x.at \in {"commit", "insert"} => x.rec.state = "live"
    PROVE SInv'
<1>1. SType'
  BY DEF SInv, SType, Goes
<1>2. Local'
  BY DEF SInv, SType, Local, Goes
<1>3. Line'
  BY DEF SInv, SType, Line, Goes
<1>4. Spent'
  BY DEF SInv, SType, Spent, Goes
<1> QED BY <1>1, <1>2, <1>3, <1>4 DEF SInv

\* A request that is over, whatever it does to the rest.
LEMMA RequestOver ==
    ASSUME SInv, NEW w \in Workers, Refuse(w)
    PROVE /\ worker' \in [Workers -> RequestSet]
          /\ \A v \in Workers : v # w => worker'[v] = worker[v]
          /\ worker'[w].at = "idle" /\ InOrder(worker'[w].rec)
BY IdleFacts, NoRowFacts DEF SInv, SType, Refuse, Goes

LEMMA IdleBrings == "idle" \notin Brings
BY DEF Brings

LEMMA RefuseInv ==
    ASSUME SInv, NEW w \in Workers, Refuse(w),
           UNCHANGED <<now, device, session, ticket, given, heirs, sockets>>
    PROVE SInv'
BY GoesOn, IdleFacts, NoRowFacts, IdleBrings DEF Refuse

LEMMA InsertsInv ==
    ASSUME SInv, NEW w \in Workers,
           NEW r \in RowSet, InOrder(r), r.state = "live", Inserts(w, r),
           UNCHANGED <<now, device, session, ticket, given, heirs, sockets>>
    PROVE SInv'
<1>1. CASE device # "active"
  BY <1>1, RefuseInv DEF Inserts
<1>2. CASE device = "active"
  <2> DEFINE x == Request("commit", "create", Nobody, 0, r)
  <2>1. x \in RequestSet /\ x.at = "commit" /\ x.rec = r
    BY RequestFacts DEF Places, Ops, Operations
  <2>2. Goes(w, x)
    BY <1>2 DEF Inserts
  <2> HIDE DEF x
  <2> QED BY <2>1, <2>2, GoesOn DEF Brings
<1> QED BY <1>1, <1>2

-----------------------------------------------------------------------------
(* Steps *)

LEMMA LoginInv ==
    ASSUME SInv, NEW w \in Workers, Login(w)
    PROVE SInv'
<1>1. now + AbsoluteLife \in Nat
  BY Bounds DEF SInv, SType
<1>2. /\ Prepared(now + AbsoluteLife) \in RowSet
      /\ Prepared(now + AbsoluteLife).state = "live"
      /\ InOrder(Prepared(now + AbsoluteLife))
  BY <1>1, PreparedFacts DEF SInv, SType
<1> QED BY <1>2, InsertsInv DEF Login

LEMMA InsertHeirInv ==
    ASSUME SInv, NEW w \in Workers, InsertHeir(w)
    PROVE SInv'
<1>1. /\ worker[w].rec \in RowSet /\ worker[w].rec.state = "live" /\ InOrder(worker[w].rec)
  BY DEF SInv, SType, Local, Line, RequestSet, InsertHeir
<1> QED BY <1>1, InsertsInv DEF InsertHeir

LEMMA AbandonInv ==
    ASSUME SInv, NEW w \in Workers, Abandon(w)
    PROVE SInv'
BY RefuseInv DEF Abandon

LEMMA CommitInv ==
    ASSUME SInv, NEW w \in Workers, Commit(w)
    PROVE SInv'
<1>1. PICK s \in Ids : session[s].state = "none" /\ session' = [session EXCEPT ![s] = worker[w].rec]
  BY Zenon DEF Commit
<1>2. Refuse(w) /\ UNCHANGED <<now, device, ticket, given, heirs, sockets>>
  BY DEF Commit
<1>3. worker[w].rec \in RowSet /\ worker[w].rec.state = "live" /\ InOrder(worker[w].rec)
  BY DEF SInv, SType, Local, Line, RequestSet, Commit
<1>4. /\ worker' \in [Workers -> RequestSet]
      /\ \A v \in Workers : v # w => worker'[v] = worker[v]
      /\ worker'[w].at = "idle" /\ InOrder(worker'[w].rec)
  BY <1>2, RequestOver
<1>5. SType'
  BY <1>1, <1>2, <1>3, <1>4 DEF SInv, SType
<1>6. Local'
  BY <1>2, <1>4, IdleBrings DEF SInv, SType, Local
<1>7. Line'
  BY <1>1, <1>2, <1>3, <1>4 DEF SInv, SType, Line
<1>8. Spent'
  BY <1>2, <1>4, IdleBrings DEF SInv, SType, Spent
<1> QED BY <1>5, <1>6, <1>7, <1>8 DEF SInv

LEMMA FindInv ==
    ASSUME SInv, NEW w \in Workers, Find(w)
    PROVE SInv'
<1>1. PICK s \in Ids, op \in Operations :
        \E token \in 0 .. given[s] : Goes(w, Request("touch", op, s, token, Kept(op, session[s])))
  BY DEF Find
<1>5. PICK token \in 0 .. given[s] : Goes(w, Request("touch", op, s, token, Kept(op, session[s])))
  BY <1>1
<1> DEFINE x == Request("touch", op, s, token, Kept(op, session[s]))
<1>2. token \in Nat /\ session[s] \in RowSet /\ InOrder(session[s])
  BY DEF SInv, SType, Line
<1>6. Kept(op, session[s]) \in RowSet /\ InOrder(Kept(op, session[s]))
  BY <1>2, KeptFacts
<1>3. x \in RequestSet /\ x.at = "touch" /\ x.s = s /\ x.rec = Kept(op, session[s])
  BY <1>2, <1>6, RequestFacts DEF Places, Ops
<1>4. Goes(w, x) /\ UNCHANGED <<now, device, session, ticket, given, heirs, sockets>>
  BY <1>5 DEF Find
<1> HIDE DEF x
<1> QED BY <1>3, <1>4, <1>6, GoesOn DEF Brings

\* Only one row changes, to one in order that is as live as before or revoked.
LEMMA RowChanges ==
    ASSUME SInv, NEW s \in Ids, NEW r \in RowSet, InOrder(r),
           r.state = session[s].state \/ r.state = "revoked",
           session' = [session EXCEPT ![s] = r] \/ session' = session
    PROVE /\ session' \in [Ids -> RowSet]
          /\ \A i \in Ids : /\ InOrder(session'[i])
                            /\ session'[i].state \in {session[i].state, "revoked"}
BY DEF SInv, SType, Line

LEMMA TouchInv ==
    ASSUME SInv, NEW w \in Workers, Touch(w)
    PROVE SInv'
<1> DEFINE s == worker[w].s
           r == IF Touchable(session[s]) THEN Touched(session[s]) ELSE worker[w].rec
           x == Request("act", worker[w].op, s, 0, IF worker[w].op = "rotate" THEN r ELSE NoRow)
<1>1. s \in Ids /\ session[s] \in RowSet /\ InOrder(session[s]) /\ worker[w] \in RequestSet
  BY DEF Touch, SInv, SType, Local, Line
<1>2. worker[w].rec \in RowSet /\ InOrder(worker[w].rec)
  BY <1>1 DEF SInv, Line, RequestSet
<1>3. now \in Nat
  BY DEF SInv, SType
<1>4. /\ Touched(session[s]) \in RowSet
      /\ Touched(session[s]).state = session[s].state
      /\ InOrder(Touched(session[s]))
  BY <1>1, <1>3, TouchedFacts
<1>5. r \in RowSet /\ InOrder(r)
  BY <1>2, <1>4
<1>6. session' = [session EXCEPT ![s] = Touched(session[s])] \/ session' = session
  BY DEF Touch
<1>7. UNCHANGED <<now, device, ticket, given, heirs, sockets>>
  BY DEF Touch
<1>8. /\ session' \in [Ids -> RowSet]
      /\ \A i \in Ids : /\ InOrder(session'[i])
                        /\ session'[i].state \in {session[i].state, "revoked"}
  BY <1>1, <1>4, <1>6, RowChanges
<1>9. x \in RequestSet /\ x.at = "act" /\ x.s = s /\ InOrder(x.rec)
  <2> DEFINE y == IF worker[w].op = "rotate" THEN r ELSE NoRow
  <2>1. y \in RowSet /\ InOrder(y)
    BY <1>5, NoRowFacts
  <2> HIDE DEF y, r
  <2>2. worker[w].op \in Ops
    BY <1>1 DEF RequestSet
  <2>3. \A op \in Ops, t \in Ids, rec \in RowSet :
          /\ Request("act", op, t, 0, rec) \in RequestSet
          /\ Request("act", op, t, 0, rec).at = "act"
          /\ Request("act", op, t, 0, rec).s = t
          /\ Request("act", op, t, 0, rec).rec = rec
    BY ActFacts
  <2>4. /\ Request("act", worker[w].op, s, 0, y) \in RequestSet
        /\ Request("act", worker[w].op, s, 0, y).at = "act"
        /\ Request("act", worker[w].op, s, 0, y).s = s
        /\ Request("act", worker[w].op, s, 0, y).rec = y
    BY <1>1, <2>1, <2>2, <2>3
  <2> QED BY <2>1, <2>4, Zenon DEF y
<1>10. Goes(w, x) \/ Refuse(w)
  BY DEF Touch
<1> HIDE DEF x, r
<1>11. /\ worker' \in [Workers -> RequestSet]
       /\ \A v \in Workers : v # w => worker'[v] = worker[v]
       /\ InOrder(worker'[w].rec)
       /\ worker'[w].at = "idle" \/ (worker'[w].at = "act" /\ worker'[w].s \in Ids)
  <2>1. CASE Refuse(w)
    BY <2>1, RequestOver
  <2>2. CASE Goes(w, x)
    BY <2>2, <1>1, <1>9 DEF Goes, SInv, SType
  <2> QED BY <1>10, <2>1, <2>2
<1> HIDE DEF s
<1>16. worker'[w].at \notin Brings
  BY <1>11 DEF Brings
<1>12. SType'
  BY <1>7, <1>8, <1>11 DEF SInv, SType
<1>13. Local'
  BY <1>7, <1>11, <1>16 DEF SInv, SType, Local
<1>14. Line'
  BY <1>7, <1>8, <1>11 DEF SInv, SType, Line
<1>15. Spent'
  BY <1>7, <1>11, <1>16 DEF SInv, SType, Spent
<1> QED BY <1>12, <1>13, <1>14, <1>15 DEF SInv

\* A request that passed its last check.
LEMMA PassesFacts ==
    ASSUME SInv, NEW w \in Workers, NEW at \in Places
    PROVE LET x == [worker[w] EXCEPT !.at = at]
          IN  /\ x \in RequestSet /\ x.at = at /\ x.s = worker[w].s /\ x.k = worker[w].k
              /\ InOrder(x.rec)
<1>1. worker[w] \in RequestSet /\ InOrder(worker[w].rec)
  BY DEF SInv, SType, Line
<1> QED BY <1>1, Zenon DEF RequestSet

LEMMA CurrentSessionInv ==
    ASSUME SInv, NEW w \in Workers, CurrentSession(w)
    PROVE SInv'
<1> DEFINE x == [worker[w] EXCEPT !.at = "replace"]
<1>1. /\ UNCHANGED <<now, device, session, ticket, given, heirs, sockets>>
      /\ Goes(w, x) \/ Refuse(w)
  BY DEF CurrentSession, Passes
<1>2. worker[w].s \in Ids
  BY DEF CurrentSession, Acts, SInv, Local
<1>3. x \in RequestSet /\ x.at = "replace" /\ x.s = worker[w].s /\ InOrder(x.rec)
  BY PassesFacts DEF Places
<1> HIDE DEF x
<1>4. "replace" \notin Brings
  BY DEF Brings
<1> QED BY <1>1, <1>2, <1>3, <1>4, GoesOn, RefuseInv

LEMMA ReplaceSecretInv ==
    ASSUME SInv, NEW w \in Workers, ReplaceSecret(w)
    PROVE SInv'
<1> DEFINE s == worker[w].s
<1>1. s \in Ids /\ session[s] \in RowSet /\ InOrder(session[s]) /\ NewSecret(s) \in Nat
  BY DEF ReplaceSecret, SInv, SType, Local, Line, NewSecret
<1>2. /\ Replaced(session[s], NewSecret(s)) \in RowSet
      /\ Replaced(session[s], NewSecret(s)).state = session[s].state
      /\ InOrder(Replaced(session[s], NewSecret(s)))
  BY <1>1, ReplacedFacts
<1>3. /\ session' = [session EXCEPT ![s] = Replaced(session[s], NewSecret(s))] \/ session' = session
      /\ given' = [given EXCEPT ![s] = NewSecret(s)] \/ given' = given
      /\ UNCHANGED <<now, device, ticket, heirs, sockets>>
      /\ Refuse(w)
  BY DEF ReplaceSecret
<1> HIDE DEF s
<1>4. /\ session' \in [Ids -> RowSet]
      /\ \A i \in Ids : /\ InOrder(session'[i])
                        /\ session'[i].state \in {session[i].state, "revoked"}
  BY <1>1, <1>2, <1>3, RowChanges
<1>5. given' \in [Ids -> Nat]
  BY <1>1, <1>3 DEF SInv, SType
<1>6. /\ worker' \in [Workers -> RequestSet]
      /\ \A v \in Workers : v # w => worker'[v] = worker[v]
      /\ worker'[w].at = "idle" /\ InOrder(worker'[w].rec)
  BY <1>3, RequestOver
<1>7. SType'
  BY <1>3, <1>4, <1>5, <1>6, Zenon DEF SInv, SType
<1>8. Local'
  BY <1>3, <1>6, IdleBrings DEF SInv, SType, Local
<1>9. Line'
  BY <1>3, <1>4, <1>6 DEF SInv, SType, Line
<1>10. Spent'
  BY <1>3, <1>6, IdleBrings DEF SInv, SType, Spent
<1> QED BY <1>7, <1>8, <1>9, <1>10 DEF SInv

LEMMA IssueTicketInv ==
    ASSUME SInv, NEW w \in Workers, IssueTicket(w)
    PROVE SInv'
<1> DEFINE until == now + TicketLife
           x == [worker[w] EXCEPT !.at = "buy", !.token = until]
<1>1. /\ UNCHANGED <<now, device, session, ticket, given, heirs, sockets>>
      /\ Goes(w, x) \/ Refuse(w)
  BY DEF IssueTicket
<1>2. worker[w].s \in Ids /\ worker[w] \in RequestSet /\ InOrder(worker[w].rec)
  BY DEF IssueTicket, Acts, SInv, SType, Local, Line
<1>3. until \in Nat
  BY Bounds DEF SInv, SType
<1> HIDE DEF until
<1>4. x \in RequestSet /\ x.at = "buy" /\ x.s = worker[w].s /\ x.rec = worker[w].rec
  BY <1>2, <1>3, Zenon DEF RequestSet, Places
<1> HIDE DEF x
<1>5. "buy" \notin Brings
  BY DEF Brings
<1> QED BY <1>1, <1>2, <1>4, <1>5, GoesOn, RefuseInv

LEMMA InsertTicketInv ==
    ASSUME SInv, NEW w \in Workers, InsertTicket(w)
    PROVE SInv'
<1> DEFINE s == worker[w].s
           new == Pass("issued", s, worker[w].token)
<1>1. s \in Ids /\ worker[w].token \in Nat
  BY DEF InsertTicket, SInv, SType, Local, RequestSet
<1>2. Refuse(w) /\ UNCHANGED <<now, device, session, given, heirs, sockets>>
  BY DEF InsertTicket
<1>3. CASE session[s].state = "deleted"
  BY <1>2, <1>3, RefuseInv DEF InsertTicket
<1>4. CASE session[s].state # "deleted"
  <2>1. PICK k \in Tickets : ticket[k].state = "none" /\ ticket' = [ticket EXCEPT ![k] = new]
    BY <1>4 DEF InsertTicket
  <2>3. new \in PassSet /\ new.state = "issued" /\ new.session = s
    BY <1>1 DEF Pass, PassSet
  <2> HIDE DEF s, new
  <2>4. /\ worker' \in [Workers -> RequestSet]
        /\ \A v \in Workers : v # w => worker'[v] = worker[v]
        /\ worker'[w].at = "idle" /\ InOrder(worker'[w].rec)
    BY <1>2, RequestOver
  <2>5. SType'
    BY <1>2, <2>1, <2>3, <2>4, Zenon DEF SInv, SType
  <2>6. Local'
    BY <1>1, <1>2, <2>1, <2>3, <2>4, IdleBrings, Zenon DEF SInv, SType, Local
  <2>7. Line'
    BY <1>2, <2>4, Zenon DEF SInv, SType, Line
  <2>8. Spent'
    BY <1>2, <2>1, <2>3, <2>4, IdleBrings DEF SInv, SType, Local, Spent
  <2> QED BY <2>5, <2>6, <2>7, <2>8 DEF SInv
<1> QED BY <1>3, <1>4

LEMMA RotateInv ==
    ASSUME SInv, NEW w \in Workers, Rotate(w)
    PROVE SInv'
<1> DEFINE s == worker[w].s
           rec == worker[w].rec
           heir == [Prepared(Inherited(rec)) EXCEPT !.root = rec.root]
           x == Request("insert", "create", Nobody, 0, heir)
<1>1. s \in Ids /\ session[s] \in RowSet /\ InOrder(session[s])
  BY DEF Rotate, Acts, SInv, SType, Local, Line
<1>2. rec \in RowSet /\ InOrder(rec) /\ now \in Nat
  BY DEF SInv, SType, Line, RequestSet
<1>3. UNCHANGED <<now, device, ticket, given, sockets>>
  BY DEF Rotate
<1>4. CASE ~(rec.absolute > now /\ Revocable(session[s]))
  BY <1>3, <1>4, RefuseInv DEF Rotate
<1>5. CASE rec.absolute > now /\ Revocable(session[s])
  <2>1. /\ session' = [session EXCEPT ![s] = RevokedRow]
        /\ heirs' = [heirs EXCEPT ![s] = heirs[s] + 1]
        /\ Goes(w, x)
    BY <1>5 DEF Rotate
  <2>2. heir \in RowSet /\ heir.state = "live" /\ InOrder(heir)
    BY <1>2, HeirFacts, Zenon
  <2> HIDE DEF heir
  <2>3. x \in RequestSet /\ x.at = "insert" /\ x.rec = heir
    BY <2>2, InsertFacts, Zenon
  <2>10. "insert" \notin Brings
    BY DEF Brings
  <2> HIDE DEF x
  <2>4. /\ RevokedRow \in RowSet
        /\ RevokedRow.state = "revoked"
        /\ InOrder(RevokedRow)
    BY <1>1, <1>2, RevokedFacts
  <2>5. heirs[s] = 0 /\ heirs \in [Ids -> Nat]
    BY <1>1, <1>5 DEF SInv, SType, Line, Revocable
  <2> HIDE DEF s, rec
  <2>6. SType'
    BY <1>1, <1>3, <2>1, <2>3, <2>4, <2>5 DEF SInv, SType, Goes
  <2>7. Local'
    BY <1>1, <1>3, <2>1, <2>2, <2>3, <2>10 DEF SInv, SType, Local, Goes
  <2>8. Line'
    <3>1. \A i \in Ids : InOrder(session'[i])
      BY <1>1, <2>1, <2>4 DEF SInv, SType, Line
    <3>2. \A i \in Ids : heirs'[i] <= 1 /\ (heirs'[i] = 1 => session'[i].state \in {"revoked", "deleted"})
      BY <1>1, <2>1, <2>4, <2>5 DEF SInv, SType, Line
    <3>3. \A v \in Workers : InOrder(worker'[v].rec)
      BY <2>1, <2>2, <2>3 DEF SInv, SType, Line, Goes
    <3> QED BY <3>1, <3>2, <3>3 DEF Line
  <2>9. Spent'
    BY <1>3, <2>1, <2>3, <2>10 DEF SInv, SType, Spent, Goes
  <2> QED BY <2>6, <2>7, <2>8, <2>9 DEF SInv
<1> QED BY <1>4, <1>5

\* A logout revokes rows and leaves the others as they are.
LEMMA LogsOutFacts ==
    ASSUME SInv, LogsOut
    PROVE /\ device' = "out" /\ session' \in [Ids -> RowSet]
          /\ \A i \in Ids : /\ InOrder(session'[i])
                            /\ session'[i] = session[i] \/ session'[i].state = "revoked"
                            /\ session'[i].state = "revoked" => session[i].state \in {"live", "revoked"}
<1>1. RevokedRow \in RowSet /\ RevokedRow.state = "revoked" /\ InOrder(RevokedRow)
  BY RevokedFacts DEF SInv, SType
<1> QED BY <1>1 DEF LogsOut, Revocable, SInv, SType, Line

LEMMA LogoutInv ==
    ASSUME SInv, NEW w \in Workers, Logout(w)
    PROVE SInv'
<1>1. LogsOut /\ Refuse(w) /\ UNCHANGED <<now, ticket, given, heirs, sockets>>
  BY DEF Logout
<1>3. /\ device' = "out" /\ session' \in [Ids -> RowSet]
      /\ \A i \in Ids : /\ InOrder(session'[i])
                        /\ session'[i].state \in {session[i].state, "revoked"}
  BY <1>1, LogsOutFacts
<1>4. /\ worker' \in [Workers -> RequestSet]
      /\ \A v \in Workers : v # w => worker'[v] = worker[v]
      /\ worker'[w].at = "idle" /\ InOrder(worker'[w].rec)
  BY <1>1, RequestOver
<1>5. SType'
  BY <1>1, <1>3, <1>4, Zenon DEF SInv, SType
<1>6. Local'
  BY <1>1, <1>4, IdleBrings DEF SInv, SType, Local
<1>7. Line'
  BY <1>1, <1>3, <1>4 DEF SInv, SType, Line
<1>8. Spent'
  BY <1>1, <1>4, IdleBrings DEF SInv, SType, Spent
<1> QED BY <1>5, <1>6, <1>7, <1>8 DEF SInv

LEMMA DeviceInv ==
    ASSUME SInv, LogoutByOther \/ EnrolAgain
    PROVE SInv'
<1>1. /\ device' \in {"active", "out"} /\ session' \in [Ids -> RowSet]
      /\ \A i \in Ids : /\ InOrder(session'[i])
                        /\ session'[i].state \in {session[i].state, "revoked"}
  <2>1. CASE LogoutByOther
    BY <2>1, LogsOutFacts DEF LogoutByOther
  <2>2. CASE EnrolAgain
    BY <2>2 DEF EnrolAgain, SInv, SType, Line
  <2> QED BY <2>1, <2>2
<1>2. UNCHANGED <<now, ticket, worker, given, heirs, sockets>>
  BY DEF LogoutByOther, EnrolAgain
<1>3. SType'
  BY <1>1, <1>2, Zenon DEF SInv, SType
<1>4. Local' /\ Spent'
  BY <1>2, Zenon DEF SInv, Local, Spent
<1>5. Line'
  BY <1>1, <1>2 DEF SInv, Line
<1> QED BY <1>3, <1>4, <1>5 DEF SInv

LEMMA ConsumeInv ==
    ASSUME SInv, NEW w \in Workers, Consume(w)
    PROVE SInv'
<1>1. PICK k \in Tickets :
        /\ Consumable(ticket[k])
        /\ ticket' = [ticket EXCEPT ![k].state = "consumed"]
        /\ Goes(w, [Request("lookup", "socket", ticket[k].session, 0, NoRow) EXCEPT !.k = k])
  BY Zenon DEF Consume
<1> DEFINE x == [Request("lookup", "socket", ticket[k].session, 0, NoRow) EXCEPT !.k = k]
<1>2. UNCHANGED <<now, device, session, given, heirs, sockets>>
  BY DEF Consume
<1>3. ticket[k].state = "issued" /\ ticket[k].session \in Ids /\ ticket[k] \in PassSet
  BY <1>1 DEF Consumable, SInv, SType, Local
<1>4. x \in RequestSet /\ x.at = "lookup" /\ x.s = ticket[k].session /\ x.k = k /\ x.rec = NoRow
  BY <1>3, NoRowFacts DEF Request, RequestSet, Places, Ops, Operations
<1>14. "lookup" \in Brings /\ "lookup" \notin {"insert", "commit", "touch", "act", "replace", "buy"}
  BY DEF Brings
<1>5. ticket' \in [Tickets -> PassSet] /\ ticket'[k].state = "consumed"
  BY <1>1, <1>3 DEF SInv, SType, PassSet
<1>6. \A j \in Tickets : j # k => ticket'[j] = ticket[j]
  BY <1>1 DEF SInv, SType
<1>7. worker' = [worker EXCEPT ![w] = x]
  BY <1>1 DEF Goes
<1> HIDE DEF x
<1>8. sockets[k] = 0
  BY <1>3 DEF SInv, SType, Spent
<1>9. SType'
  BY <1>2, <1>4, <1>5, <1>7, Zenon DEF SInv, SType
<1>10. Local'
  BY <1>2, <1>3, <1>4, <1>5, <1>6, <1>7, <1>14, Zenon DEF SInv, SType, Local
<1>11. Line'
  BY <1>2, <1>4, <1>7, NoRowFacts DEF SInv, SType, Line
<1>12. \A v \in Workers : worker[v].at \in Brings => worker[v].k \in Tickets /\ worker[v].k # k
  BY <1>3 DEF SInv, Local, Spent
<1>13. Spent'
  <2>1. \A j \in Tickets : sockets'[j] <= 1 /\ (sockets'[j] = 1 => ticket'[j].state \notin {"none", "issued"})
    BY <1>2, <1>5, <1>6, Zenon DEF SInv, SType, Spent
  <2>2. \A v \in Workers : worker'[v].at \in Brings =>
          /\ ticket'[worker'[v].k].state \notin {"none", "issued"}
          /\ sockets'[worker'[v].k] = 0
    BY <1>2, <1>4, <1>5, <1>6, <1>7, <1>8, <1>12, Zenon DEF SInv, SType, Spent
  <2>3. \A v, u \in Workers :
          worker'[v].at \in Brings /\ u # v /\ worker'[u].at \in Brings => worker'[u].k # worker'[v].k
    BY <1>4, <1>7, <1>12, Zenon DEF SInv, SType, Spent
  <2> QED BY <2>1, <2>2, <2>3 DEF Spent
<1> QED BY <1>9, <1>10, <1>11, <1>13 DEF SInv

LEMMA LookUpInv ==
    ASSUME SInv, NEW w \in Workers, LookUp(w)
    PROVE SInv'
<1> DEFINE x == [worker[w] EXCEPT !.at = "admit"]
<1>1. /\ UNCHANGED <<now, device, session, ticket, given, heirs, sockets>>
      /\ worker[w].at = "lookup" /\ (Goes(w, x) \/ Refuse(w))
  BY DEF LookUp, Passes
<1>2. CASE Refuse(w)
  BY <1>1, <1>2, RefuseInv
<1>3. CASE Goes(w, x)
  <2>1. /\ x \in RequestSet /\ x.at = "admit" /\ x.s = worker[w].s /\ x.k = worker[w].k
        /\ InOrder(x.rec)
    BY PassesFacts DEF Places
  <2> HIDE DEF x
  <2>2. /\ worker' \in [Workers -> RequestSet] /\ worker'[w] = x
        /\ \A v \in Workers : v # w => worker'[v] = worker[v]
    BY <1>3, <2>1 DEF Goes, SInv, SType
  <2>3. \A v \in Workers : /\ worker'[v].at \in Brings <=> worker[v].at \in Brings
                           /\ worker'[v].k = worker[v].k
    BY <1>1, <2>1, <2>2 DEF Brings
  <2>4. worker[w].s \in Ids /\ worker[w].k \in Tickets
    BY <1>1 DEF SInv, Local, Brings
  <2>5. SType'
    BY <1>1, <2>2, Zenon DEF SInv, SType
  <2>6. Local'
    BY <1>1, <2>1, <2>2, <2>4 DEF SInv, Local
  <2>7. Line'
    BY <1>1, <2>1, <2>2 DEF SInv, Line
  <2>8. Spent'
    BY <1>1, <2>3, Zenon DEF SInv, Spent
  <2> QED BY <2>5, <2>6, <2>7, <2>8 DEF SInv
<1> QED BY <1>1, <1>2, <1>3

LEMMA AdmitInv ==
    ASSUME SInv, NEW w \in Workers, Admit(w)
    PROVE SInv'
<1> DEFINE k == worker[w].k
<1>1. /\ k \in Tickets /\ worker[w].at \in Brings /\ Refuse(w)
      /\ UNCHANGED <<now, device, session, ticket, given, heirs>>
      /\ sockets' = [sockets EXCEPT ![k] = sockets[k] + 1]
  BY DEF Admit, SInv, Local, Brings
<1>2. sockets[k] = 0 /\ ticket[k].state \notin {"none", "issued"}
  BY <1>1 DEF SInv, Spent
<1>3. \A v \in Workers : v # w /\ worker[v].at \in Brings => worker[v].k # k /\ worker[v].k \in Tickets
  BY <1>1 DEF SInv, Spent, Local
<1> HIDE DEF k
<1>4. /\ worker' \in [Workers -> RequestSet]
      /\ \A v \in Workers : v # w => worker'[v] = worker[v]
      /\ worker'[w].at = "idle" /\ InOrder(worker'[w].rec)
  BY <1>1, RequestOver
<1>5. /\ sockets' \in [Tickets -> Nat]
      /\ \A j \in Tickets : j # k => sockets'[j] = sockets[j]
      /\ sockets'[k] <= 1
  BY <1>1, <1>2 DEF SInv, SType
<1>6. SType'
  BY <1>1, <1>4, <1>5, Zenon DEF SInv, SType
<1>7. Local'
  BY <1>1, <1>4, IdleBrings DEF SInv, SType, Local
<1>8. Line'
  BY <1>1, <1>4 DEF SInv, SType, Line
<1>9. Spent'
  <2>1. \A j \in Tickets : sockets'[j] <= 1 /\ (sockets'[j] = 1 => ticket'[j].state \notin {"none", "issued"})
    BY <1>1, <1>2, <1>5 DEF SInv, SType, Spent
  <2>2. \A v \in Workers : worker'[v].at \in Brings => v # w /\ worker'[v] = worker[v]
    BY <1>4, IdleBrings
  <2> QED BY <1>1, <1>3, <1>5, <2>1, <2>2 DEF SInv, Spent
<1> QED BY <1>6, <1>7, <1>8, <1>9 DEF SInv

\* What the clean-up may delete: finished sessions, used or expired tickets, and
\* the tickets of the sessions it deletes.
LEMMA CleanupFacts ==
    ASSUME SInv, Cleanup
    PROVE \E began \in 0 .. now, D \in SUBSET Ids :
        /\ \A s \in D : SessionDue(session[s], began)
        /\ session' = [s \in Ids |-> IF s \in D THEN DeletedRow ELSE session[s]]
        /\ ticket' \in [Tickets -> PassSet]
        /\ \A k \in Tickets :
             \/ ticket'[k] = ticket[k]
             \/ /\ ticket'[k] = DeletedPass
                /\ TicketDue(ticket[k], began) \/ ticket[k].session \in D
<1>1. PICK began \in 0 .. now : \E D \in SessionBatches(began) : \E E \in TicketBatches(D, began) :
        /\ session' = [s \in Ids |-> IF s \in D THEN DeletedRow ELSE session[s]]
        /\ ticket' = [k \in Tickets |->
               IF k \in E \/ ticket[k].session \in D THEN DeletedPass ELSE ticket[k]]
  BY DEF Cleanup
<1>2. PICK D \in SessionBatches(began) : \E E \in TicketBatches(D, began) :
        /\ session' = [s \in Ids |-> IF s \in D THEN DeletedRow ELSE session[s]]
        /\ ticket' = [k \in Tickets |->
               IF k \in E \/ ticket[k].session \in D THEN DeletedPass ELSE ticket[k]]
  BY <1>1
<1>3. PICK E \in TicketBatches(D, began) :
        /\ session' = [s \in Ids |-> IF s \in D THEN DeletedRow ELSE session[s]]
        /\ ticket' = [k \in Tickets |->
               IF k \in E \/ ticket[k].session \in D THEN DeletedPass ELSE ticket[k]]
  BY <1>2
<1>4. D \in SUBSET Ids /\ \A s \in D : SessionDue(session[s], began)
  BY Zenon DEF SessionBatches
<1>5. \A k \in E : TicketDue(ticket[k], began)
  BY Zenon DEF TicketBatches
<1>6. DeletedPass \in PassSet
  BY DEF DeletedPass, Pass, PassSet
<1>7. ticket' \in [Tickets -> PassSet]
  BY <1>3, <1>6 DEF SInv, SType
<1>8. \A k \in Tickets : k \in E \/ ticket[k].session \in D \/ ticket'[k] = ticket[k]
  BY <1>3
<1>9. \A k \in Tickets : k \in E \/ ticket[k].session \in D => ticket'[k] = DeletedPass
  BY <1>3
<1> QED BY <1>3, <1>4, <1>5, <1>7, <1>8, <1>9, Zenon

LEMMA CleanupInv ==
    ASSUME SInv, Cleanup
    PROVE SInv'
<1>1. PICK began \in 0 .. now, D \in SUBSET Ids :
        /\ \A s \in D : SessionDue(session[s], began)
        /\ session' = [s \in Ids |-> IF s \in D THEN DeletedRow ELSE session[s]]
        /\ ticket' \in [Tickets -> PassSet]
        /\ \A k \in Tickets :
             \/ ticket'[k] = ticket[k]
             \/ /\ ticket'[k] = DeletedPass
                /\ TicketDue(ticket[k], began) \/ ticket[k].session \in D
  BY CleanupFacts
<1>2. UNCHANGED <<now, device, worker, given, heirs, sockets>>
  BY DEF Cleanup
<1>3. DeletedPass.state = "deleted"
  BY DEF DeletedPass, Pass
<1>4. SType'
  BY <1>1, <1>2, NoRowFacts, Zenon DEF SInv, SType
<1>5. Local'
  BY <1>1, <1>2, <1>3 DEF SInv, SType, Local
<1>6. Line'
  BY <1>1, <1>2, NoRowFacts, Zenon DEF SInv, SType, Line
<1>7. Spent'
  BY <1>1, <1>2, <1>3, Zenon DEF SInv, SType, Local, Spent
<1> QED BY <1>4, <1>5, <1>6, <1>7 DEF SInv

LEMMA TickInv ==
    ASSUME SInv, Tick
    PROVE SInv'
<1>1. now \in Nat /\ now' = now + 1
  BY Zenon DEF Tick, SInv, SType
<1>2. UNCHANGED <<device, session, ticket, worker, given, heirs, sockets>>
  BY Zenon DEF Tick
<1>3. now' \in Nat
  BY <1>1
<1>4. SType'
  BY <1>2, <1>3, Zenon DEF SInv, SType
<1>5. Local' /\ Line' /\ Spent'
  BY <1>2, Zenon DEF SInv, Local, Line, Spent, InOrder
<1> QED
  BY <1>4, <1>5, Zenon DEF SInv

-----------------------------------------------------------------------------

LEMMA InitInv == Init => SInv
<1> SUFFICES ASSUME Init PROVE SInv
  OBVIOUS
<1>1. Pass("none", Nobody, 0) \in PassSet /\ Pass("none", Nobody, 0).state = "none"
        /\ Pass("none", Nobody, 0).session = Nobody
  BY DEF Pass, PassSet
<1>2. SType
  BY <1>1, NoRowFacts, IdleFacts DEF Init, SType
<1>3. Local
  BY <1>1, IdleFacts, IdleBrings DEF Init, Local
<1>4. Line
  BY NoRowFacts, IdleFacts DEF Init, Line
<1>5. Spent
  BY IdleFacts, IdleBrings DEF Init, Spent
<1> QED BY <1>2, <1>3, <1>4, <1>5 DEF SInv

LEMMA NextInv == SInv /\ [Next]_vars => SInv'
<1> SUFFICES ASSUME SInv, [Next]_vars PROVE SInv'
  BY ZenonT(60)
<1>1. CASE UNCHANGED vars
  BY <1>1 DEF vars, SInv, SType, Local, Line, Spent
<1>2. CASE Tick
  BY <1>2, TickInv
<1>3. CASE Cleanup
  BY <1>3, CleanupInv
<1>4. ASSUME NEW w \in Workers, Step(w) PROVE SInv'
  BY <1>4, LoginInv, CommitInv, FindInv, TouchInv, CurrentSessionInv, ReplaceSecretInv,
     IssueTicketInv, InsertTicketInv, RotateInv, InsertHeirInv, LogoutInv, ConsumeInv,
     LookUpInv, AdmitInv, AbandonInv, Zenon DEF Step
<1>5. CASE LogoutByOther \/ EnrolAgain
  BY <1>5, DeviceInv
<1> QED BY <1>1, <1>2, <1>3, <1>4, <1>5 DEF Next

LEMMA AlwaysInv == Spec => []SInv
BY InitInv, NextInv, PTL DEF Spec

\* A ticket opens at most one socket, also when a request is given up between
\* consume_for_socket and the look-up, or the row is cleaned up meanwhile.
THEOREM TicketTheorem == Spec => []TicketOnce
<1>1. SInv => TicketOnce
  BY DEF SInv, Spent, TicketOnce
<1> QED BY <1>1, AlwaysInv, PTL

\* Rotations form lines that keep within the absolute deadline of the login they
\* go back to, for every interleaving of touches, rotations and clean-ups.
THEOREM LineTheorem == Spec => []RotationLine
<1>1. SInv => RotationLine
  BY DEF SInv, Line, InOrder, RotationLine
<1> QED BY <1>1, AlwaysInv, PTL

-----------------------------------------------------------------------------
(* What a step does to a session that is over, and to the clock *)

LEMMA OverRow ==
    ASSUME SInv, Next, NEW s \in Ids, session[s].state # "none", Over(session[s])
    PROVE session'[s] = session[s] \/ session'[s].state # "live"
<1>1. ~ Usable(session[s]) /\ ~ IsCurrent(session[s])
  BY DEF SInv, SType, RowSet, Over, Usable, IsCurrent
<1>2. CASE Tick
  BY <1>2 DEF Tick
<1>3. CASE Cleanup
  BY <1>3, CleanupFacts, NoRowFacts, SMTT(30)
<1>0. RevokedRow.state = "revoked"
  BY RevokedFacts DEF SInv, SType
<1>4. ASSUME NEW w \in Workers, Step(w)
      PROVE session'[s] = session[s] \/ session'[s].state # "live"
  <2>1. CASE Commit(w)
    BY <2>1 DEF Commit, SInv, SType
  <2>2. CASE Touch(w)
    BY <1>1, <2>2 DEF Touch, Touchable, SInv, SType
  <2>3. CASE ReplaceSecret(w)
    BY <1>1, <2>3 DEF ReplaceSecret, SInv, SType
  <2>4. CASE Rotate(w)
    BY <1>0, <2>4, Zenon DEF Rotate, SInv, SType
  <2>5. CASE Logout(w)
    BY <2>5, LogsOutFacts DEF Logout
  <2>6. CASE \/ Login(w) \/ Find(w) \/ CurrentSession(w) \/ IssueTicket(w) \/ InsertTicket(w)
             \/ InsertHeir(w) \/ Consume(w) \/ LookUp(w) \/ Admit(w) \/ Abandon(w)
    BY <2>6 DEF Login, Find, CurrentSession, IssueTicket, InsertTicket, InsertHeir, Consume,
       LookUp, Admit, Abandon
  <2> QED BY <1>4, <2>1, <2>2, <2>3, <2>4, <2>5, <2>6, Zenon DEF Step
<1>5. CASE LogoutByOther
  BY <1>5, LogsOutFacts DEF LogoutByOther
<1>6. CASE EnrolAgain
  BY <1>6 DEF EnrolAgain
<1> QED BY <1>2, <1>3, <1>4, <1>5, <1>6 DEF Next

LEMMA Onwards ==
    ASSUME SInv, Next
    PROVE now' \in Nat /\ now <= now'
<1>1. CASE Tick
  BY <1>1 DEF Tick, SInv, SType
<1>2. now \in Nat
  BY Zenon DEF SInv, SType
<1>3. ASSUME NEW w \in Workers, Step(w)
      PROVE now' = now
  BY <1>3, ZenonT(60) DEF Step, Login, Commit, Find, Touch, CurrentSession, ReplaceSecret,
     IssueTicket, InsertTicket, Rotate, InsertHeir, Logout, Consume, LookUp, Admit, Abandon
<1>4. CASE Cleanup \/ LogoutByOther \/ EnrolAgain
  <2>1. now' = now
    BY <1>4, Zenon DEF Cleanup, LogoutByOther, EnrolAgain
  <2> QED BY <1>2, <2>1, NotLater, Zenon
<1> QED BY <1>1, <1>2, <1>3, <1>4, NotLater, Zenon DEF Next

\* A session that is revoked or has run out never again authenticates a request,
\* whatever authenticate(), rotate() or a clean-up had read before, and also when
\* register_for_email activates its device again.
THEOREM OverTheorem == Spec => OverStaysOver
<1>1. ASSUME SInv, [Next]_vars, NEW s \in Ids, session[s].state # "none", Over(session[s])
      PROVE Over(session[s])'
  <2>1. CASE UNCHANGED vars
    BY <1>1, <2>1 DEF vars, Over
  <2>2. CASE Next
    BY <1>1, <2>2, OverRow, Onwards DEF Over, SInv, SType, RowSet
  <2> QED BY <1>1, <2>1, <2>2
<1>2. SInv /\ [Next]_vars =>
        [\A s \in Ids : session[s].state # "none" /\ Over(session[s]) => Over(session[s])']_vars
  BY <1>1
<1> QED BY <1>2, AlwaysInv, PTL DEF Spec, OverStaysOver

-----------------------------------------------------------------------------
(* After a logout *)

Checked == {"commit", "replace", "buy", "admit"}

\* The set of rows that exist, of both tables, stays as it is.
SameRows ==
    /\ \A s \in Ids : session'[s].state = "none" <=> session[s].state = "none"
    /\ \A k \in Tickets : ticket'[k].state = "none" <=> ticket[k].state = "none"

LEMMA SameObtained ==
    ASSUME SameRows, given' = given, sockets' = sockets
    PROVE  Obtained' = Obtained
<1>1. {s \in Ids : session'[s].state # "none"} = {s \in Ids : session[s].state # "none"}
  BY DEF SameRows
<1>2. {k \in Tickets : ticket'[k].state # "none"} = {k \in Tickets : ticket[k].state # "none"}
  BY DEF SameRows
<1> QED BY <1>1, <1>2, Zenon DEF Obtained

\* A request that got nothing and did not pass a check.
LEMMA NothingGot ==
    ASSUME SInv, NEW w \in Workers, NEW x, Goes(w, x), x.at \notin Checked,
           SameRows, given' = given, sockets' = sockets
    PROVE  /\ Granted' \subseteq Granted
           /\ Obtained' # Obtained => \E v \in Granted : Granted' = Granted \ {v}
<1>1. \A v \in Workers : worker'[v] = IF v = w THEN x ELSE worker[v]
  BY DEF Goes, SInv, SType
<1>2. Granted' \subseteq Granted
  BY <1>1 DEF Granted, Checked
<1> QED BY <1>2, SameObtained

\* A request that gets what it was granted.
LEMMA OneGot ==
    ASSUME SInv, NEW w \in Workers, worker[w].at \in Checked, Refuse(w)
    PROVE  /\ Granted' \subseteq Granted
           /\ Obtained' # Obtained => \E v \in Granted : Granted' = Granted \ {v}
<1>1. \A v \in Workers : worker'[v] = IF v = w THEN Idle ELSE worker[v]
  BY DEF Refuse, Goes, SInv, SType
<1>2. w \in Granted /\ Granted' = Granted \ {w}
  BY <1>1, IdleFacts DEF Granted, Checked
<1> QED BY <1>2, Zenon

LEMMA StepAfterLogout ==
    ASSUME SInv, NEW w \in Workers, Step(w), device = "out"
    PROVE  /\ Granted' \subseteq Granted
           /\ Obtained' # Obtained => \E v \in Granted : Granted' = Granted \ {v}
<1>1. \A r : ~ Usable(r)
  BY Zenon DEF Usable
<1>2. Idle.at \notin Checked
  BY IdleFacts DEF Checked
<1>3. CASE Commit(w) \/ ReplaceSecret(w) \/ InsertTicket(w) \/ Admit(w)
  BY <1>3, OneGot, Zenon DEF Commit, ReplaceSecret, InsertTicket, Admit, Checked
<1>4. CASE \/ Login(w) \/ InsertHeir(w) \/ CurrentSession(w) \/ IssueTicket(w) \/ LookUp(w)
           \/ Abandon(w)
  <2>1. Refuse(w) /\ UNCHANGED <<session, ticket, given, sockets>>
    BY <1>1, <1>4, Zenon DEF Login, InsertHeir, Inserts, CurrentSession, IssueTicket, BuysTicket,
       LookUp, Abandon
  <2>2. SameRows
    BY <2>1, Zenon DEF SameRows
  <2> QED BY <1>2, <2>1, <2>2, NothingGot DEF Refuse
<1>5. CASE Find(w) \/ Consume(w)
  BY <1>1, <1>5, Zenon DEF Find, Consume, Consumable
<1>6. CASE Touch(w)
  <2>1. session' = session /\ UNCHANGED <<ticket, given, sockets>>
    BY <1>1, <1>6, Zenon DEF Touch, Touchable
  <2>2. SameRows
    BY <2>1, Zenon DEF SameRows
  <2>3. \E rec : Goes(w, Request("act", worker[w].op, worker[w].s, 0, rec)) \/ Refuse(w)
    BY <1>6, Zenon DEF Touch
  <2>4. PICK rec : Goes(w, Request("act", worker[w].op, worker[w].s, 0, rec)) \/ Refuse(w)
    BY <2>3
  <2>5. Request("act", worker[w].op, worker[w].s, 0, rec).at = "act"
    BY DEF Request
  <2>6. "act" \notin Checked
    BY DEF Checked
  <2> QED BY <1>2, <2>1, <2>2, <2>4, <2>5, <2>6, NothingGot DEF Refuse
<1>7. CASE Rotate(w)
  <2>1. UNCHANGED <<ticket, given, sockets>>
    BY <1>7, Zenon DEF Rotate
  <2>2. SameRows
    <3>1. RevokedRow.state = "revoked"
      BY RevokedFacts DEF SInv, SType
    <3>2. \A s \in Ids : session'[s].state = "none" <=> session[s].state = "none"
      BY <1>7, <3>1 DEF Rotate, Revocable, SInv, SType
    <3> QED BY <2>1, <3>2, Zenon DEF SameRows
  <2>3. \E rec : Goes(w, Request("insert", "create", Nobody, 0, rec)) \/ Refuse(w)
    BY <1>7, Zenon DEF Rotate
  <2>4. PICK rec : Goes(w, Request("insert", "create", Nobody, 0, rec)) \/ Refuse(w)
    BY <2>3
  <2>5. Request("insert", "create", Nobody, 0, rec).at = "insert"
    BY DEF Request
  <2>6. "insert" \notin Checked
    BY DEF Checked
  <2> QED BY <1>2, <2>1, <2>2, <2>4, <2>5, <2>6, NothingGot DEF Refuse
<1>8. CASE Logout(w)
  <2>1. Refuse(w) /\ LogsOut /\ UNCHANGED <<ticket, given, sockets>>
    BY <1>8, Zenon DEF Logout
  <2>2. SameRows
    <3>1. \A s \in Ids : session'[s].state = "none" <=> session[s].state = "none"
      BY <2>1, LogsOutFacts
    <3> QED BY <2>1, <3>1, Zenon DEF SameRows
  <2> QED BY <1>2, <2>1, <2>2, NothingGot DEF Refuse
<1> QED BY <1>3, <1>4, <1>5, <1>6, <1>7, <1>8, Zenon DEF Step

\* While the device is logged out no request passes its last check, since every
\* statement asks for an active device; what requests still get after it goes to
\* those that had passed theirs before, one thing each.
THEOREM LogoutTheorem == Spec => NothingAfterLogout
<1> DEFINE P == /\ Granted' \subseteq Granted
                /\ Obtained' # Obtained => \E w \in Granted : Granted' = Granted \ {w}
<1>1. ASSUME SInv, Next, device = "out" PROVE P
  <2>1. ASSUME worker' = worker, SameRows, given' = given, sockets' = sockets PROVE P
    <3>1. Granted' = Granted
      BY <2>1, Zenon DEF Granted
    <3> QED BY <2>1, <3>1, SameObtained
  <2>2. CASE Tick \/ EnrolAgain
    <3>1. UNCHANGED <<session, ticket, worker, given, sockets>>
      BY <2>2, Zenon DEF Tick, EnrolAgain
    <3>2. SameRows
      BY <3>1, Zenon DEF SameRows
    <3> QED BY <2>1, <3>1, <3>2
  <2>3. CASE Cleanup
    <3>1. UNCHANGED <<worker, given, sockets>>
      BY <2>3, Zenon DEF Cleanup
    <3>2. PICK began \in 0 .. now, D \in SUBSET Ids :
            /\ \A s \in D : SessionDue(session[s], began)
            /\ session' = [s \in Ids |-> IF s \in D THEN DeletedRow ELSE session[s]]
            /\ ticket' \in [Tickets -> PassSet]
            /\ \A k \in Tickets :
                 \/ ticket'[k] = ticket[k]
                 \/ /\ ticket'[k] = DeletedPass
                    /\ TicketDue(ticket[k], began) \/ ticket[k].session \in D
      BY <1>1, <2>3, CleanupFacts
    <3>3. \A s \in Ids : session'[s].state = "none" <=> session[s].state = "none"
      BY <3>2, NoRowFacts, Zenon DEF SessionDue
    <3>4. \A k \in Tickets : ticket[k].state = "none" =>
            ticket[k].session \notin Ids /\ ~ TicketDue(ticket[k], began)
      BY <1>1, NobodyAssumption DEF SInv, Local, TicketDue
    <3>5. DeletedPass.state # "none"
      BY DEF DeletedPass, Pass
    <3>6. \A k \in Tickets : ticket'[k].state = "none" <=> ticket[k].state = "none"
      BY <3>2, <3>4, <3>5, Zenon
    <3> QED BY <2>1, <3>1, <3>3, <3>6, Zenon DEF SameRows
  <2>4. CASE LogoutByOther
    <3>1. LogsOut /\ UNCHANGED <<ticket, worker, given, sockets>>
      BY <2>4, Zenon DEF LogoutByOther
    <3>2. \A s \in Ids : session'[s].state = "none" <=> session[s].state = "none"
      BY <1>1, <3>1, LogsOutFacts
    <3>3. SameRows
      BY <3>1, <3>2, Zenon DEF SameRows
    <3> QED BY <2>1, <3>1, <3>3
  <2>5. ASSUME NEW w \in Workers, Step(w) PROVE P
    BY <1>1, <2>5, StepAfterLogout, Zenon
  <2> QED BY <1>1, <2>2, <2>3, <2>4, <2>5, Zenon DEF Next
<1>2. SInv /\ [Next]_vars => [device = "out" => P]_vars
  BY <1>1
<1> QED BY <1>2, AlwaysInv, PTL DEF Spec, NothingAfterLogout

LEMMA OnlyCleanupDeletes ==
    ASSUME SInv, Next, ~ Cleanup
    PROVE /\ \A s \in Ids : session'[s].state = "deleted" => session[s].state = "deleted"
          /\ \A k \in Tickets : ticket'[k].state = "deleted" => ticket[k].state = "deleted"
<1>1. CASE Tick
  BY <1>1, Zenon DEF Tick
<1>2. ASSUME NEW w \in Workers, Step(w)
      PROVE /\ \A s \in Ids : session'[s].state = "deleted" => session[s].state = "deleted"
            /\ \A k \in Tickets : ticket'[k].state = "deleted" => ticket[k].state = "deleted"
  <2>0. RevokedRow.state = "revoked"
    BY RevokedFacts, Zenon DEF SInv, SType
  <2>1. CASE Commit(w)
    BY <2>1 DEF Commit, SInv, SType, Local
  <2>2. CASE Touch(w)
    <3>1. \A s \in Ids : Touchable(session[s]) => Touched(session[s]).state = session[s].state
      BY DEF Touched, SInv, SType, RowSet
    <3>2. worker[w].s \in Ids
      BY <2>2 DEF Touch, SInv, Local
    <3> QED BY <2>2, <3>1, <3>2 DEF Touch, SInv, SType
  <2>3. CASE ReplaceSecret(w)
    <3>1. \A s \in Ids : \A n : Replaced(session[s], n).state = session[s].state
      BY DEF Replaced, SInv, SType, RowSet
    <3> QED BY <2>3, <3>1 DEF ReplaceSecret, SInv, SType
  <2>4. CASE Rotate(w) \/ Logout(w)
    BY <2>0, <2>4 DEF Rotate, Logout, LogsOut, SInv, SType
  <2>5. CASE InsertTicket(w)
    BY <2>5 DEF InsertTicket, Pass, SInv, SType
  <2>6. CASE Consume(w)
    BY <2>6, Zenon DEF Consume, SInv, SType, PassSet
  <2>7. CASE \/ Login(w) \/ Find(w) \/ CurrentSession(w) \/ IssueTicket(w) \/ InsertHeir(w)
             \/ LookUp(w) \/ Admit(w) \/ Abandon(w)
    BY <2>7, Zenon DEF Login, Find, CurrentSession, IssueTicket, InsertHeir, LookUp, Admit, Abandon
  <2> QED BY <1>2, <2>1, <2>2, <2>3, <2>4, <2>5, <2>6, <2>7, Zenon DEF Step
<1>3. CASE LogoutByOther \/ EnrolAgain
  <2>1. ticket' = ticket
    BY <1>3, Zenon DEF LogoutByOther, EnrolAgain
  <2>2. \A s \in Ids : session'[s].state = "deleted" => session[s].state = "deleted"
    BY <1>3, LogsOutFacts DEF LogoutByOther, EnrolAgain
  <2> QED BY <2>1, <2>2, Zenon
<1> QED BY <1>1, <1>2, <1>3 DEF Next

\* cleanup_expired takes no session before its retention is over and no ticket that
\* could still be consumed, though its CURRENT_TIMESTAMP is that of its start.
THEOREM CleanupTheorem == Spec => CleanupSpares
<1> DEFINE P == /\ \A s \in Ids :
                    session[s].state # "deleted" /\ session'[s].state = "deleted" =>
                        EndOf(session[s]) + Retention <= now
                /\ \A k \in Tickets :
                    ticket[k].state = "issued" /\ ticket'[k].state = "deleted" =>
                        \/ ticket[k].expires <= now
                        \/ Over(session[ticket[k].session])
<1>1. ASSUME SInv, Cleanup PROVE P
  <2>1. PICK began \in 0 .. now, D \in SUBSET Ids :
        /\ \A s \in D : SessionDue(session[s], began)
        /\ session' = [s \in Ids |-> IF s \in D THEN DeletedRow ELSE session[s]]
        /\ ticket' \in [Tickets -> PassSet]
        /\ \A k \in Tickets :
             \/ ticket'[k] = ticket[k]
             \/ /\ ticket'[k] = DeletedPass
                /\ TicketDue(ticket[k], began) \/ ticket[k].session \in D
    BY <1>1, CleanupFacts
  <2>2. now \in Nat /\ began \in Nat /\ began <= now /\ Retention \in Nat
    BY <1>1, Bounds DEF SInv, SType
  <2>3. \A s \in D : EndOf(session[s]) \in Nat /\ EndOf(session[s]) + Retention <= began
    BY <1>1, <2>1, Zenon DEF SessionDue, EndOf, Least, SInv, SType, RowSet
  <2>4. \A s \in D : Over(session[s])
    BY <1>1, <2>1, <2>2, <2>3 DEF SessionDue, EndOf, Least, Over, SInv, SType, RowSet
  <2>5. \A s \in Ids : session[s].state # "deleted" /\ session'[s].state = "deleted" => s \in D
    BY <2>1
  <2>6. \A k \in Tickets : ticket[k].state = "issued" /\ TicketDue(ticket[k], began)
          => ticket[k].expires <= now
    BY <1>1, <2>2 DEF TicketDue, SInv, SType, PassSet
  <2>7. \A s \in D : EndOf(session[s]) + Retention <= now
    BY <2>2, <2>3
  <2> QED BY <2>1, <2>4, <2>5, <2>6, <2>7, Zenon
<1>2. ASSUME SInv, Next, ~ Cleanup PROVE P
  BY <1>2, OnlyCleanupDeletes, Zenon
<1>3. SInv /\ [Next]_vars => [P]_vars
  BY <1>1, <1>2
<1> QED BY <1>3, AlwaysInv, PTL DEF Spec, CleanupSpares

-----------------------------------------------------------------------------
(* Facts about counters *)

\* A counter that counts two things grows by one of the second.
LEMMA CountOne ==
    ASSUME NEW a \in Nat, NEW n \in Nat, NEW c \in Nat, c = a + n
    PROVE  c + 1 = a + (n + 1)
OBVIOUS

\* One of the second becomes one of the first.
LEMMA MoveOne ==
    ASSUME NEW a \in Nat, NEW n \in Nat, NEW c, c = a + (n + 1)
    PROVE  c = (a + 1) + n
OBVIOUS

LEMMA NextNat == \A n \in Nat : n + 1 \in Nat
OBVIOUS

\* A table of counters with one cell replaced.
LEMMA CellSet ==
    ASSUME NEW S, NEW T, NEW f \in [S -> [T -> Nat]], NEW s \in S, NEW u \in T,
           NEW n \in Nat, NEW g, g = [f EXCEPT ![s][u] = n]
    PROVE  /\ g \in [S -> [T -> Nat]] /\ g[s][u] = n
           /\ \A k \in S, m \in T : k # s \/ m # u => g[k][m] = f[k][m]
OBVIOUS

-----------------------------------------------------------------------------
(* SignIn: the inductive invariant *)

Looking == {"by_identity", "by_email", "insert"}

AttemptSet ==
    [at : {"idle", "gateway", "done", "mismatch", "collided"} \cup Looking, kind : Kinds,
     email : Emails \cup {NoOne}, user : Users \cup {NoOne}]

SgType ==
    /\ mail \in [Users -> Emails \cup {NoOne, Gone}]
    /\ code \subseteq Emails
    /\ account \in [Users -> Emails \cup {NoOne}]
    /\ admitted \in [Kinds -> [Emails \cup Spellings -> Nat]]
    /\ asked \in [Kinds -> [Emails -> Nat]]
    /\ attempt \in [Attempts -> AttemptSet]
    /\ events \in Nat
    /\ \A a \in Attempts :
        /\ attempt[a].at = "gateway" => attempt[a].email \in Emails
        /\ attempt[a].at \in Looking \cup {"collided"} =>
             attempt[a].email \in Emails /\ attempt[a].user \in Users

\* Requests of a kind that are charged and have not yet asked about a mailbox.
Pending(kind, e) ==
    {a \in Attempts : attempt[a].at = "gateway" /\ attempt[a].kind = kind /\ attempt[a].email = e}

\* Every count is a call of the provider or one to come.
ChargedOnce ==
    \A kind \in Kinds, e \in Emails :
        admitted[kind][e] = asked[kind][e] + Cardinality(Pending(kind, e))

\* While the directory stands still no two users share an address, accounts have
\* the address of their user, and so has every request that has proven one.
Settled ==
    /\ \A u, v \in Users : mail[u] \in Emails /\ mail[u] = mail[v] => u = v
    /\ \A u \in Users : account[u] # NoOne => account[u] = mail[u]
    /\ \A a \in Attempts :
        /\ attempt[a].at # "mismatch"
        /\ attempt[a].at \in Looking => mail[attempt[a].user] = attempt[a].email
        /\ attempt[a].at = "collided" => account[attempt[a].user] = attempt[a].email

SgInv == SgType /\ ChargedOnce /\ (events = 0 => Settled)

-----------------------------------------------------------------------------

LEMMA Parameters ==
    /\ Normal \in [Spellings -> Emails \cup {Invalid}]
    /\ MaxEvents \in Nat
    /\ Invalid \notin Emails /\ NoOne \notin Emails /\ Gone \notin Emails
    /\ NoOne \notin Users /\ IsFiniteSet(Attempts)
BY SignInAssumption

LEMMA NewAttemptFacts == NewAttempt \in AttemptSet /\ NewAttempt.at = "idle"
BY DEF NewAttempt, AttemptSet, Kinds

\* The step of request a leaves the others alone.
Alone(a) == attempt' \in [Attempts -> AttemptSet] /\ \A b \in Attempts : b # a => attempt'[b] = attempt[b]

LEMMA EndsFacts ==
    ASSUME SgType, NEW a \in Attempts, attempt' = Ends(a)
    PROVE Alone(a) /\ attempt'[a].at = "idle"
BY NewAttemptFacts DEF SgType, Alone, Ends

LEMMA KeepsFacts ==
    ASSUME SgType, NEW a \in Attempts,
           NEW at \in {"done", "mismatch", "collided"} \cup Looking, attempt' = Keeps(a, at)
    PROVE /\ Alone(a) /\ attempt'[a].at = at
          /\ attempt'[a].email = attempt[a].email /\ attempt'[a].user = attempt[a].user
<1>1. attempt[a] \in AttemptSet
  BY DEF SgType
<1>2. attempt' = [attempt EXCEPT ![a] = [attempt[a] EXCEPT !.at = at]]
  BY <1>1 DEF SgType, Keeps, AttemptSet
<1> DEFINE x == [attempt[a] EXCEPT !.at = at]
<1>3. x \in AttemptSet /\ x.at = at /\ x.email = attempt[a].email /\ x.user = attempt[a].user
  BY <1>1 DEF AttemptSet
<1> HIDE DEF x
<1>4. attempt'[a] = x /\ Alone(a)
  BY <1>2, <1>3 DEF SgType, Alone, x
<1> QED BY <1>3, <1>4

\* A request past the provider, or about to be given up there, moves on.
LEMMA LaterStep ==
    ASSUME SgInv, NEW a \in Attempts, Alone(a),
           attempt[a].at # "gateway", attempt'[a].at # "gateway",
           attempt'[a].at \in Looking \cup {"collided"} =>
             attempt'[a].email \in Emails /\ attempt'[a].user \in Users,
           UNCHANGED <<mail, code, admitted, asked, events>>,
           account' \in [Users -> Emails \cup {NoOne}],
           events = 0 => Settled'
    PROVE SgInv'
<1>1. SgType'
  BY Zenon DEF SgInv, SgType, Alone
<1>2. \A kind, e : Pending(kind, e)' = Pending(kind, e)
  BY Zenon DEF Pending, Alone
<1>3. ChargedOnce'
  BY <1>2, Zenon DEF SgInv, ChargedOnce
<1> QED BY <1>1, <1>3 DEF SgInv

LEMMA OneMorePending ==
    ASSUME SgInv, NEW a \in Attempts, NEW kind \in Kinds, NEW e \in Emails, Alone(a),
           attempt[a].at # "gateway",
           attempt'[a].at = "gateway", attempt'[a].kind = kind, attempt'[a].email = e
    PROVE /\ Cardinality(Pending(kind, e)') = Cardinality(Pending(kind, e)) + 1
          /\ Cardinality(Pending(kind, e)) \in Nat
          /\ \A k \in Kinds, f \in Emails : k # kind \/ f # e => Pending(k, f)' = Pending(k, f)
<1>1. IsFiniteSet(Pending(kind, e))
  <2>1. Pending(kind, e) \in SUBSET Attempts
    BY DEF Pending
  <2> QED BY <2>1, Parameters, FS_Subset
<1>2. a \notin Pending(kind, e)
  BY DEF Pending
<1>3. Pending(kind, e)' = Pending(kind, e) \cup {a}
  BY DEF Pending, Alone
<1>4. Cardinality(Pending(kind, e)') = Cardinality(Pending(kind, e)) + 1
  BY <1>1, <1>2, <1>3, FS_AddElement, ZenonT(60)
<1>5. \A k \in Kinds, f \in Emails : k # kind \/ f # e => Pending(k, f)' = Pending(k, f)
  BY DEF Pending, Alone
<1>6. Cardinality(Pending(kind, e)) \in Nat
  BY <1>1, FS_CardinalityType, Zenon
<1> QED BY <1>4, <1>5, <1>6, ZenonT(60)

LEMMA OneLessPending ==
    ASSUME SgInv, NEW a \in Attempts, NEW kind \in Kinds, NEW e \in Emails, Alone(a),
           attempt[a].at = "gateway", attempt[a].kind = kind, attempt[a].email = e,
           attempt'[a].at # "gateway"
    PROVE /\ Cardinality(Pending(kind, e)) = Cardinality(Pending(kind, e)') + 1
          /\ Cardinality(Pending(kind, e)') \in Nat
          /\ \A k \in Kinds, f \in Emails : k # kind \/ f # e => Pending(k, f)' = Pending(k, f)
<1>1. IsFiniteSet(Pending(kind, e)')
  <2>1. Pending(kind, e)' \in SUBSET Attempts
    BY DEF Pending
  <2> QED BY <2>1, Parameters, FS_Subset, Zenon
<1>2. a \notin Pending(kind, e)'
  BY DEF Pending
<1>3. Pending(kind, e) = Pending(kind, e)' \cup {a}
  BY DEF Pending, Alone
<1>4. Cardinality(Pending(kind, e)) = Cardinality(Pending(kind, e)') + 1
  BY <1>1, <1>2, <1>3, FS_AddElement, ZenonT(60)
<1>5. \A k \in Kinds, f \in Emails : k # kind \/ f # e => Pending(k, f)' = Pending(k, f)
  BY DEF Pending, Alone
<1>6. Cardinality(Pending(kind, e)') \in Nat
  BY <1>1, FS_CardinalityType
<1> QED BY <1>4, <1>5, <1>6, ZenonT(60)

-----------------------------------------------------------------------------
(* The steps *)

LEMMA SubmitInv ==
    ASSUME SgInv, NEW a \in Attempts, Submit(a)
    PROVE SgInv'
<1>1. PICK kind \in Kinds, v \in Spellings :
        \/ /\ Normal[v] # Invalid
           /\ admitted' = [admitted EXCEPT ![kind][Key(v)] = @ + 1]
           /\ attempt' = [attempt EXCEPT ![a] =
                 [NewAttempt EXCEPT !.at = "gateway", !.kind = kind, !.email = Normal[v]]]
        \/ /\ attempt' = Ends(a)
           /\ UNCHANGED admitted
  BY Zenon DEF Submit
<1>2. /\ attempt[a].at \notin {"gateway"} \cup Looking
      /\ UNCHANGED <<mail, code, account, asked, events>>
  BY DEF Submit, UnderWay, Looking
<1>3. CASE attempt' = Ends(a) /\ UNCHANGED admitted
  <2>1. Alone(a) /\ attempt'[a].at = "idle"
    BY <1>3, EndsFacts, Zenon DEF SgInv
  <2>2. events = 0 => Settled'
    BY <1>2, <2>1, ZenonT(60) DEF SgInv, Settled, Alone, Looking
  <2> QED BY <1>2, <1>3, <2>1, <2>2, LaterStep, Zenon DEF SgInv, SgType, Looking
<1>4. CASE /\ Normal[v] # Invalid
           /\ admitted' = [admitted EXCEPT ![kind][Key(v)] = @ + 1]
           /\ attempt' = [attempt EXCEPT ![a] =
                 [NewAttempt EXCEPT !.at = "gateway", !.kind = kind, !.email = Normal[v]]]
  <2> DEFINE e == Normal[v]
             x == [NewAttempt EXCEPT !.at = "gateway", !.kind = kind, !.email = e]
  <2>1. e \in Emails /\ Key(v) = e
    BY <1>4, Parameters DEF Key
  <2>2. NewAttempt \in AttemptSet
    BY NewAttemptFacts
  <2>3. attempt' = [attempt EXCEPT ![a] = x]
    BY <1>4
  <2> HIDE DEF e
  <2>4. x \in AttemptSet
    BY <2>1, <2>2, Zenon DEF AttemptSet
  <2>5. x.at = "gateway"
    BY <2>2, Zenon DEF AttemptSet
  <2>6. x.kind = kind
    BY <2>2, Zenon DEF AttemptSet
  <2>7. x.email = e
    BY <2>2, Zenon DEF AttemptSet
  <2> HIDE DEF x
  <2>8. Alone(a) /\ attempt'[a] = x
    BY <2>3, <2>4 DEF Alone, SgInv, SgType
  <2>9. /\ Cardinality(Pending(kind, e)') = Cardinality(Pending(kind, e)) + 1
        /\ Cardinality(Pending(kind, e)) \in Nat
        /\ \A k \in Kinds, f \in Emails : k # kind \/ f # e => Pending(k, f)' = Pending(k, f)
    BY <1>2, <2>1, <2>5, <2>6, <2>7, <2>8, OneMorePending, Zenon
  <2>10. /\ admitted[kind][e] \in Nat
         /\ admitted' = [admitted EXCEPT ![kind][e] = admitted[kind][e] + 1]
    BY <1>4, <2>1 DEF SgInv, SgType
  <2>11. /\ admitted' \in [Kinds -> [Emails \cup Spellings -> Nat]]
         /\ admitted'[kind][e] = admitted[kind][e] + 1
         /\ \A k \in Kinds, f \in Emails : k # kind \/ f # e => admitted'[k][f] = admitted[k][f]
    <3>1. e \in Emails \cup Spellings /\ admitted \in [Kinds -> [Emails \cup Spellings -> Nat]]
      BY <2>1, Zenon DEF SgInv, SgType
    <3>2. admitted[kind][e] + 1 \in Nat
      BY <2>10, NextNat, Zenon
    <3>3. \A f \in Emails : f \in Emails \cup Spellings
      BY Zenon
    <3> DEFINE T == Emails \cup Spellings
    <3>4. e \in T /\ admitted \in [Kinds -> [T -> Nat]]
      BY <3>1, Zenon
    <3> HIDE DEF T
    <3>5. /\ admitted' \in [Kinds -> [T -> Nat]]
          /\ admitted'[kind][e] = admitted[kind][e] + 1
          /\ \A k \in Kinds, f \in T : k # kind \/ f # e => admitted'[k][f] = admitted[k][f]
      BY <2>1, <2>10, <3>2, <3>4, CellSet, ZenonT(30)
    <3> QED BY <3>3, <3>5, Zenon DEF T
  <2>12. SgType'
    BY <1>2, <2>1, <2>5, <2>7, <2>8, <2>11, Zenon DEF SgInv, SgType, Alone, Looking
  <2>13. ASSUME NEW k \in Kinds, NEW f \in Emails
         PROVE admitted'[k][f] = asked'[k][f] + Cardinality(Pending(k, f)')
    <3>1. /\ admitted[k][f] = asked[k][f] + Cardinality(Pending(k, f))
          /\ admitted[k][f] \in Nat /\ asked[k][f] \in Nat
      BY Zenon DEF SgInv, SgType, ChargedOnce
    <3>2. CASE k # kind \/ f # e
      BY <1>2, <2>9, <2>11, <3>1, <3>2, Zenon
    <3>3. CASE k = kind /\ f = e
      <4>1. /\ Cardinality(Pending(k, f)) \in Nat
            /\ Cardinality(Pending(k, f)') = Cardinality(Pending(k, f)) + 1
        BY <2>9, <3>3, Zenon
      <4>2. /\ admitted'[k][f] = admitted[k][f] + 1
            /\ asked'[k][f] = asked[k][f]
        BY <1>2, <2>10, <2>11, <3>3, Zenon
      <4>3. admitted[k][f] + 1 = asked[k][f] + (Cardinality(Pending(k, f)) + 1)
        BY <3>1, <4>1, <4>2, CountOne, Zenon
      <4> QED BY <4>1, <4>2, <4>3, Zenon
    <3> QED BY <3>2, <3>3, Zenon
  <2>14. ChargedOnce'
    BY <2>13, Zenon DEF ChargedOnce
  <2>15. events = 0 => Settled'
    BY <1>2, <2>5, <2>8, Zenon DEF SgInv, Settled, Alone, Looking
  <2> QED BY <1>2, <2>12, <2>14, <2>15 DEF SgInv
<1> QED BY <1>1, <1>3, <1>4

\* A request that has asked the provider; what the answer changes is left open.
LEMMA AskedInv ==
    ASSUME SgInv, NEW a \in Attempts, Alone(a), attempt[a].at = "gateway",
           attempt'[a].at # "gateway",
           attempt'[a].at \in Looking \cup {"collided"} =>
             attempt'[a].email \in Emails /\ attempt'[a].user \in Users,
           AsksProvider(attempt[a].kind, attempt[a].email),
           UNCHANGED <<account, admitted, events>>,
           code' \subseteq Emails, mail' \in [Users -> Emails \cup {NoOne, Gone}],
           events = 0 => Settled'
    PROVE SgInv'
<1> DEFINE kind == attempt[a].kind
           e == attempt[a].email
<1>1. kind \in Kinds /\ e \in Emails
  BY Zenon DEF SgInv, SgType, AttemptSet
<1>2. asked' = [asked EXCEPT ![kind][e] = asked[kind][e] + 1]
  BY <1>1, Zenon DEF AsksProvider, SgInv, SgType
<1> DEFINE after == {b \in Attempts :
             attempt'[b].at = "gateway" /\ attempt'[b].kind = kind /\ attempt'[b].email = e}
<1>3. /\ Cardinality(Pending(kind, e)) = Cardinality(after) + 1
      /\ Cardinality(after) \in Nat
      /\ \A k \in Kinds, f \in Emails : k # kind \/ f # e => Pending(k, f)' = Pending(k, f)
  BY <1>1, OneLessPending, ZenonT(60) DEF Pending
<1>a. \A k \in Kinds, f \in Emails : k = kind /\ f = e => Pending(k, f)' = after
  BY Zenon DEF Pending
<1> HIDE DEF after
<1> HIDE DEF kind, e
<1>4. /\ asked' \in [Kinds -> [Emails -> Nat]]
      /\ asked'[kind][e] = asked[kind][e] + 1
      /\ \A k \in Kinds, f \in Emails : k # kind \/ f # e => asked'[k][f] = asked[k][f]
  <2>1. asked \in [Kinds -> [Emails -> Nat]] /\ asked[kind][e] + 1 \in Nat
    BY <1>1, NextNat, Zenon DEF SgInv, SgType
  <2> QED BY <1>1, <1>2, <2>1, CellSet, Zenon
<1>5. SgType'
  BY <1>4, Zenon DEF SgInv, SgType, Alone
<1>6. ASSUME NEW k \in Kinds, NEW f \in Emails
      PROVE admitted'[k][f] = asked'[k][f] + Cardinality(Pending(k, f)')
  <2>1. /\ admitted[k][f] = asked[k][f] + Cardinality(Pending(k, f))
        /\ admitted[k][f] \in Nat /\ asked[k][f] \in Nat
    BY Zenon DEF SgInv, SgType, ChargedOnce
  <2>2. CASE k # kind \/ f # e
    BY <1>3, <1>4, <2>1, <2>2, Zenon
  <2>3. CASE k = kind /\ f = e
    <3>1. admitted'[k][f] = admitted[k][f] /\ asked'[k][f] = asked[k][f] + 1
      BY <1>4, <2>3, Zenon
    <3>2. Cardinality(Pending(k, f)) = Cardinality(after) + 1 /\ Cardinality(after) \in Nat
      BY <1>3, <2>3, Zenon
    <3>3. Cardinality(Pending(k, f)') = Cardinality(after)
      BY <1>a, <2>3, Zenon
    <3>5. admitted[k][f] = asked[k][f] + (Cardinality(after) + 1)
      BY <2>1, <3>2, Zenon
    <3>6. admitted'[k][f] = asked'[k][f] + Cardinality(after)
      <4>1. admitted[k][f] = (asked[k][f] + 1) + Cardinality(after)
        BY <2>1, <3>2, <3>5, MoveOne, Zenon
      <4> QED BY <3>1, <4>1, Zenon
    <3> QED BY <3>3, <3>6, Zenon
  <2> QED BY <2>2, <2>3, Zenon
<1>7. ChargedOnce'
  BY <1>6, Zenon DEF ChargedOnce
<1> QED BY <1>5, <1>7, Zenon DEF SgInv

\* A request that stops before the directory or the accounts change.
LEMMA StaysSettled ==
    ASSUME SgType, Settled, NEW a \in Attempts, Alone(a), attempt'[a].at \in {"idle", "done"},
           UNCHANGED <<mail, account>>
    PROVE Settled'
BY ZenonT(60) DEF Settled, Alone, Looking

LEMMA SendCodeInv ==
    ASSUME SgInv, NEW a \in Attempts, SendCode(a)
    PROVE SgInv'
<1> DEFINE e == attempt[a].email
<1>1. /\ attempt[a].at = "gateway" /\ attempt[a].kind = "start" /\ e \in Emails
      /\ AsksProvider(attempt[a].kind, e) /\ attempt' = Ends(a)
      /\ UNCHANGED <<account, admitted, events>>
  BY DEF SendCode, SgInv, SgType
<1>2. Alone(a) /\ attempt'[a].at = "idle"
  BY <1>1, EndsFacts, Zenon DEF SgInv
<1>3. code' \subseteq Emails
  BY <1>1 DEF SendCode, SgInv, SgType
<1>4. CASE UNCHANGED mail
  BY <1>1, <1>2, <1>3, <1>4, StaysSettled, AskedInv, Zenon DEF SgInv, SgType, Looking
<1>5. CASE Holds(e) = {} /\ \E u \in Users : mail[u] = NoOne /\ mail' = [mail EXCEPT ![u] = e]
  <2>1. PICK u \in Users : mail[u] = NoOne /\ mail' = [mail EXCEPT ![u] = e]
    BY <1>5, Zenon
  <2>2. mail' \in [Users -> Emails \cup {NoOne, Gone}] /\ mail'[u] = e
        /\ \A v \in Users : v # u => mail'[v] = mail[v]
    BY <1>1, <2>1 DEF SgInv, SgType
  <2>3. \A v \in Users : mail[v] # e
    BY <1>5, ZenonT(60) DEF Holds
  <2>4. ASSUME events = 0 PROVE Settled'
    <3>1. Settled
      BY <2>4, ZenonT(60) DEF SgInv
    <3>2. \A v, w \in Users : mail'[v] \in Emails /\ mail'[v] = mail'[w] => v = w
      BY <2>2, <2>3, <3>1, Zenon DEF Settled
    <3>3. \A v \in Users : account'[v] # NoOne => account'[v] = mail'[v]
      BY <1>1, <2>1, <2>2, <3>1, Zenon DEF Settled
    <3>4. ASSUME NEW b \in Attempts, attempt'[b].at \in Looking
          PROVE mail'[attempt'[b].user] = attempt'[b].email
      <4>1. b # a /\ attempt'[b] = attempt[b]
        BY <1>2, <3>4, Zenon DEF Alone, Looking
      <4>2. attempt[b].user \in Users /\ attempt[b].email \in Emails
            /\ mail[attempt[b].user] = attempt[b].email
        BY <3>1, <3>4, <4>1, ZenonT(60) DEF Settled, SgInv, SgType
      <4> QED BY <2>1, <2>2, <4>1, <4>2, Parameters, Zenon
    <3>5. \A b \in Attempts : /\ attempt'[b].at # "mismatch"
                              /\ attempt'[b].at = "collided" => account'[attempt'[b].user] = attempt'[b].email
      BY <1>1, <1>2, <3>1 DEF Settled, Alone
    <3> QED BY <3>2, <3>3, <3>4, <3>5 DEF Settled
  <2> QED BY <1>1, <1>2, <1>3, <2>2, <2>4, AskedInv, Zenon DEF Looking
<1> QED BY <1>4, <1>5, Zenon DEF SendCode

LEMMA CheckCodeInv ==
    ASSUME SgInv, NEW a \in Attempts, CheckCode(a)
    PROVE SgInv'
<1> DEFINE e == attempt[a].email
<1>1. /\ attempt[a].at = "gateway" /\ attempt[a].kind = "verify" /\ e \in Emails
      /\ AsksProvider(attempt[a].kind, e) /\ code' \subseteq Emails
      /\ UNCHANGED <<mail, account, admitted, events>>
  BY DEF CheckCode, SgInv, SgType
<1>2. CASE attempt' = Ends(a)
  <2>1. Alone(a) /\ attempt'[a].at = "idle"
    BY <1>2, EndsFacts DEF SgInv
  <2> QED BY <1>1, <2>1, StaysSettled, AskedInv, ZenonT(60) DEF SgInv, SgType, Looking
<1>3. ASSUME NEW u \in Holds(e),
             attempt' = [attempt EXCEPT ![a].at = "by_identity", ![a].user = u]
      PROVE SgInv'
  <2>1. u \in Users /\ mail[u] = e
    BY DEF Holds
  <2>2. attempt \in [Attempts -> AttemptSet] /\ attempt[a] \in AttemptSet
    BY DEF SgInv, SgType
  <2> DEFINE x == [attempt[a] EXCEPT !.at = "by_identity", !.user = u]
  <2>3. attempt' = [attempt EXCEPT ![a] = x]
    BY <1>3, <2>2, ZenonT(60) DEF AttemptSet
  <2>4. "by_identity" \in {"idle", "gateway", "done", "mismatch", "collided"} \cup Looking
        /\ u \in Users \cup {NoOne}
    BY <2>1 DEF Looking
  <2>5. x \in AttemptSet
    BY <2>2, <2>4, Zenon DEF AttemptSet
  <2>6. x.at = "by_identity"
    BY <2>2, Zenon DEF AttemptSet
  <2>7. x.user = u
    BY <2>2, Zenon DEF AttemptSet
  <2>8. x.email = e
    BY <2>2, Zenon DEF AttemptSet
  <2> HIDE DEF x
  <2>9. Alone(a) /\ attempt'[a] = x
    BY <2>2, <2>3, <2>5, ZenonT(60) DEF Alone
  <2>10. events = 0 => Settled'
    BY <1>1, <2>1, <2>6, <2>7, <2>8, <2>9, ZenonT(60) DEF SgInv, Settled, Alone
  <2> QED BY <1>1, <2>1, <2>6, <2>7, <2>8, <2>9, <2>10, AskedInv, ZenonT(60) DEF SgInv, SgType
<1> QED BY <1>2, <1>3 DEF CheckCode

\* A look-up or an INSERT moves a request on to `at'.
LEMMA KeepsInv ==
    ASSUME SgInv, NEW a \in Attempts, attempt[a].at \in Looking,
           NEW at \in {"done", "mismatch", "collided"} \cup Looking, attempt' = Keeps(a, at),
           UNCHANGED <<mail, code, account, admitted, asked, events>>,
           events = 0 => /\ at # "mismatch"
                         /\ at = "collided" => account[attempt[a].user] = attempt[a].email
    PROVE SgInv'
<1>1. /\ Alone(a) /\ attempt'[a].at = at
      /\ attempt'[a].email = attempt[a].email /\ attempt'[a].user = attempt[a].user
  BY KeepsFacts, ZenonT(60) DEF SgInv
<1>2. events = 0 => Settled'
  BY <1>1, ZenonT(60) DEF SgInv, Settled, Alone
<1>3. attempt[a].email \in Emails /\ attempt[a].user \in Users
  BY Zenon DEF SgInv, SgType
<1> QED BY <1>1, <1>2, <1>3, LaterStep, Zenon DEF SgInv, SgType, Looking

LEMMA ByIdentityInv ==
    ASSUME SgInv, NEW a \in Attempts, ByIdentity(a)
    PROVE SgInv'
<1>1. /\ attempt[a].at \in Looking /\ attempt[a].user \in Users
      /\ UNCHANGED <<mail, code, account, admitted, asked, events>>
  BY Zenon DEF ByIdentity, Looking, SgInv, SgType
<1>2. events = 0 /\ account[attempt[a].user] # NoOne => SameAddress(a)
  BY <1>1, Zenon DEF SgInv, Settled, SameAddress
<1> QED BY <1>1, <1>2, KeepsInv, Zenon DEF ByIdentity, Issue, Looking

LEMMA ByEmailInv ==
    ASSUME SgInv, NEW a \in Attempts, ByEmail(a)
    PROVE SgInv'
<1>1. /\ attempt[a].at \in Looking /\ attempt[a].user \in Users /\ attempt[a].email \in Emails
      /\ UNCHANGED <<mail, code, account, admitted, asked, events>>
  BY Zenon DEF ByEmail, Looking, SgInv, SgType
<1>2. events = 0 => Rows(attempt[a].email) \ {attempt[a].user} = {}
  <2> SUFFICES ASSUME events = 0, NEW u \in Users, account[u] = attempt[a].email
               PROVE  u = attempt[a].user
    BY Zenon DEF Rows
  <2>1. Settled /\ account[u] # NoOne
    BY <1>1, Parameters, Zenon DEF SgInv
  <2>2. mail[u] = attempt[a].email /\ mail[attempt[a].user] = attempt[a].email
    BY <1>1, <2>1, Zenon DEF Settled
  <2> QED BY <1>1, <2>1, <2>2, Zenon DEF Settled
<1> QED BY <1>1, <1>2, KeepsInv, Zenon DEF ByEmail, Issue, Looking

LEMMA InsertInv ==
    ASSUME SgInv, NEW a \in Attempts, Insert(a)
    PROVE SgInv'
<1> DEFINE u == attempt[a].user
           e == attempt[a].email
<1>1. /\ attempt[a].at \in Looking /\ u \in Users /\ e \in Emails
      /\ UNCHANGED <<mail, code, admitted, asked, events>>
  BY Zenon DEF Insert, Looking, SgInv, SgType
<1>2. CASE ~MayInsert(u, e)
  <2>1. attempt' = Keeps(a, "collided") /\ UNCHANGED account
    BY <1>2, ZenonT(60) DEF Insert
  <2>2. ASSUME events = 0 PROVE account[u] = e
    <3>1. Settled /\ mail[u] = e
      BY <1>1, <2>2, Zenon DEF SgInv, Settled
    <3>2. CASE account[u] # NoOne
      BY <1>1, <3>1, <3>2, Zenon DEF Settled
    <3>3. CASE Rows(e) # {}
      <4>1. PICK v \in Users : account[v] = e
        BY <3>3, Zenon DEF Rows
      <4>2. mail[v] = e
        BY <1>1, <3>1, <4>1, Parameters, Zenon DEF Settled
      <4>3. v = u
        BY <1>1, <3>1, <4>2, Zenon DEF Settled
      <4> QED BY <4>1, <4>3, Zenon
    <3> QED BY <1>1, <1>2, <3>1, <3>2, <3>3 DEF MayInsert
  <2> QED BY <1>1, <2>1, <2>2, KeepsInv, Zenon DEF Looking
<1>3. CASE MayInsert(u, e)
  <2>1. /\ account' = [account EXCEPT ![u] = e]
        /\ attempt' = Keeps(a, "done") \/ attempt' = Ends(a)
    BY <1>3, Zenon DEF Insert, Issue
  <2>2. Alone(a) /\ attempt'[a].at \in {"idle", "done"}
    BY <2>1, KeepsFacts, EndsFacts, Zenon DEF SgInv
  <2>3. /\ account' \in [Users -> Emails \cup {NoOne}] /\ account'[u] = e
        /\ \A v \in Users : v # u => account'[v] = account[v]
    BY <1>1, <2>1, ZenonT(60) DEF SgInv, SgType
  <2>4. ASSUME events = 0 PROVE Settled'
    <3>1. Settled /\ mail[u] = e /\ account[u] = NoOne
      BY <1>1, <1>3, <2>4, Zenon DEF SgInv, Settled, MayInsert
    <3>2. \A v \in Users : account'[v] # NoOne => account'[v] = mail'[v]
      BY <1>1, <2>3, <3>1, Zenon DEF Settled
    <3>3. ASSUME NEW b \in Attempts, attempt'[b].at = "collided"
          PROVE account'[attempt'[b].user] = attempt'[b].email
      <4>1. attempt'[b] = attempt[b]
        BY <2>2, <3>3 DEF Alone
      <4>2. attempt[b].user \in Users /\ attempt[b].email \in Emails
            /\ account[attempt[b].user] = attempt[b].email
        BY <3>1, <3>3, <4>1, Zenon DEF Settled, SgInv, SgType
      <4> QED BY <2>3, <3>1, <4>1, <4>2, Parameters, ZenonT(60)
    <3>4. \A b \in Attempts :
            /\ attempt'[b].at # "mismatch"
            /\ attempt'[b].at \in Looking => mail'[attempt'[b].user] = attempt'[b].email
      BY <1>1, <2>2, <3>1, ZenonT(60) DEF Settled, Alone, Looking
    <3> QED BY <1>1, <3>1, <3>2, <3>3, <3>4, ZenonT(60) DEF Settled
  <2>5. attempt[a].at # "gateway" /\ attempt'[a].at # "gateway"
        /\ attempt'[a].at \notin Looking \cup {"collided"}
    BY <1>1, <2>2 DEF Looking
  <2> QED BY <1>1, <2>2, <2>3, <2>4, <2>5, LaterStep, Zenon
<1> QED BY <1>2, <1>3

LEMMA StatementFailsInv ==
    ASSUME SgInv, NEW a \in Attempts, StatementFails(a)
    PROVE SgInv'
<1>1. Alone(a) /\ attempt'[a].at = "idle"
  BY EndsFacts, ZenonT(60) DEF StatementFails, SgInv
<1>2. events = 0 => Settled'
  BY <1>1, StaysSettled DEF StatementFails, SgInv
<1> QED BY <1>1, <1>2, LaterStep, Zenon DEF StatementFails, SgInv, SgType, Looking

LEMMA DirectoryInv ==
    ASSUME SgInv,
           \/ \E u \in Users, e \in Emails : Readdress(u, e)
           \/ \E u \in Users : DeleteUser(u)
    PROVE SgInv'
<1>1. /\ UNCHANGED <<admitted, asked, attempt>> /\ events' = events + 1
      /\ mail' \in [Users -> Emails \cup {NoOne, Gone}] /\ code' \subseteq Emails
      /\ account' \in [Users -> Emails \cup {NoOne}]
  BY ZenonT(60) DEF Readdress, DeleteUser, SgInv, SgType
<1>2. SgType' /\ events' # 0
  <2>1. events' \in Nat /\ events' # 0
    BY <1>1 DEF SgInv, SgType
  <2> QED BY <1>1, <2>1, Zenon DEF SgInv, SgType
<1>3. ChargedOnce'
  BY <1>1, Zenon DEF SgInv, ChargedOnce, Pending
<1> QED BY <1>2, <1>3 DEF SgInv

-----------------------------------------------------------------------------

LEMMA SignInInitInv == SignInInit => SgInv
<1> SUFFICES ASSUME SignInInit PROVE SgInv
  OBVIOUS
<1>1. SgType
  BY NewAttemptFacts DEF SignInInit, SgType, Looking
<1>2. \A kind \in Kinds, e \in Emails : Pending(kind, e) = {}
  BY NewAttemptFacts DEF SignInInit, Pending
<1>3. ChargedOnce
  <2>1. ASSUME NEW kind \in Kinds, NEW e \in Emails
        PROVE  admitted[kind][e] = 0 /\ asked[kind][e] = 0
    BY DEF SignInInit
  <2>2. Cardinality({}) = 0
    BY FS_EmptySet, Zenon
  <2>3. 0 = 0 + 0
    OBVIOUS
  <2> QED
    BY <1>2, <2>1, <2>2, <2>3, Zenon DEF ChargedOnce
<1>4. Settled
  BY NewAttemptFacts, Parameters DEF SignInInit, Settled, Looking
<1> QED BY <1>1, <1>3, <1>4, ZenonT(60) DEF SgInv

LEMMA SignInNextInv == SgInv /\ [SignInNext]_svars => SgInv'
<1> SUFFICES ASSUME SgInv, [SignInNext]_svars PROVE SgInv'
  OBVIOUS
<1>1. CASE UNCHANGED svars
  <2>1. SgType'
    BY <1>1, Zenon DEF svars, SgInv, SgType
  <2>2. ChargedOnce'
    BY <1>1, ZenonT(60) DEF svars, SgInv, ChargedOnce, Pending
  <2>3. events' = 0 => Settled'
    BY <1>1 DEF svars, SgInv, Settled
  <2> QED BY <2>1, <2>2, <2>3 DEF SgInv
<1>2. CASE SignInNext
  BY <1>2, SubmitInv, SendCodeInv, CheckCodeInv, ByIdentityInv, ByEmailInv, InsertInv,
     StatementFailsInv, DirectoryInv, ZenonT(60) DEF SignInNext
<1> QED BY <1>1, <1>2

LEMMA SignInAlways == SignInSpec => []SgInv
BY SignInInitInv, SignInNextInv, PTL DEF SignInSpec

\* The provider is never asked about a mailbox more often than the limiter of
\* _allow admitted a request against that mailbox's own bucket, whatever its
\* verdicts, for any spellings and any number of concurrent requests.
THEOREM GuessesTheorem == SignInSpec => []GuessesPerMailbox
<1>1. ASSUME SgInv, NEW kind \in Kinds, NEW e \in Emails
      PROVE asked[kind][e] <= admitted[kind][e]
  <2>1. /\ admitted[kind][e] = asked[kind][e] + Cardinality(Pending(kind, e))
        /\ asked[kind][e] \in Nat
    BY <1>1 DEF SgInv, SgType, ChargedOnce
  <2>2. Cardinality(Pending(kind, e)) \in Nat
    <3>1. Pending(kind, e) \in SUBSET Attempts
      BY DEF Pending
    <3>2. IsFiniteSet(Pending(kind, e))
      BY <3>1, Parameters, FS_Subset
    <3> QED BY <3>2, FS_CardinalityType
  <2> QED BY <2>1, <2>2
<1>2. SgInv => GuessesPerMailbox
  BY <1>1, ZenonT(60) DEF GuessesPerMailbox
<1> QED BY <1>2, SignInAlways, PTL

\* While the provider's directory stands still get_or_create locks nobody out,
\* and an INSERT that loses a race leaves the account that was wanted.
THEOREM TwinTheorem == SignInSpec => []CollisionIsTwin
<1>1. SgInv => CollisionIsTwin
  BY DEF SgInv, Settled, CollisionIsTwin
<1> QED BY <1>1, SignInAlways, PTL

=============================================================================
