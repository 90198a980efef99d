------------------------- MODULE TransferPageProofs -------------------------
(***************************************************************************)
(* Proofs about the two pages of a transfer (TransferPage), for any number *)
(* of candidates, any limits on what a page and a session keep, and any    *)
(* number of failures, reloads, time-outs and give-ups.                    *)
(*                                                                         *)
(* The inductive invariant speaks of one side at a time: its page p, its   *)
(* session s, the awaits ts it is suspended at, the messages w on their    *)
(* way to it and the single-use types f that the server has forwarded.     *)
(***************************************************************************)
EXTENDS TransferPage, SequenceTheorems, TLAPS

MessageTypes ==
    SingleUse \cup {"ice_candidate", "transfer_offer", "transfer_ended", "create", "select"}

Message == [type : MessageTypes, n : Nat]

Loads == [starters : SUBSET Starters, signals : Seq(Message)]

PageFields ==
    {"listed", "busy", "cancelled", "cleaning", "loads", "queued", "todo", "held",
     "engine", "run", "ready", "selected", "sent", "taken", "reloaded", "mounted",
     "ghosts", "strays"}

IsPage(p) ==
    /\ p = [k \in PageFields |-> p[k]]
    /\ p.loads \in Seq(Loads) /\ p.queued \in Seq(Message) /\ p.todo \in Seq(Message)

SessionFields ==
    {"state", "started", "timer", "offer", "material", "local", "remote", "channel",
     "connection", "pending", "flush", "added", "lost", "received", "gathered"}

IsSession(s) == s = [k \in SessionFields |-> s[k]] /\ s.gathered \in Nat

\* A sequence of messages has one of the type, and has no two of it.
Carries(q, type) == \E k \in DOMAIN q : q[k].type = type
Once(q, type) == \A k, l \in DOMAIN q : q[k].type = type /\ q[l].type = type => k = l

\* What the server forwards to each side.
Inbound(i) ==
    {"ice_candidate", "transfer_ended"} \cup
        (IF i = "sender" THEN {"handshake_answer", "sdp_answer"}
                         ELSE {"transfer_offer", "handshake_offer", "sdp_offer"})

\* The description a side is sent.
Description(i) == IF i = "sender" THEN "sdp_answer" ELSE "sdp_offer"

SideType(p, s, w, f) ==
    /\ IsPage(p) /\ IsSession(s)
    /\ w \in Seq(Message)
    /\ f \in SUBSET SingleUse

(***************************************************************************)
(* The page by itself.  One creation at a time, none while there is a      *)
(* session; clean-up lets the session go; only the recipient's page keeps  *)
(* signals to handle later, and what it queues is candidates.  An engine   *)
(* is refused only to a page whose slot is taken, and the page shows it.   *)
(***************************************************************************)
Accounted(strays) == strays \subseteq {"closed", "unmounted"}

EngineOK(engine, run, taken) ==
    /\ engine \in {"none", "live", "over", "refused"}
    /\ engine = "refused" => taken /\ run \in {"failed", "cancelled"}

PageOK(p) ==
    /\ Len(p.loads) <= 1
    /\ p.loads # << >> => ~p.held
    /\ Accounted(p.strays)
    /\ EngineOK(p.engine, p.run, p.taken)
    /\ p.cleaning => p.cancelled
    /\ p.cancelled /\ ~p.cleaning => ~p.held
    /\ ~p.held => p.engine # "live"
    /\ ~p.held /\ ~p.cancelled => p.todo = << >>

SenderPageOK(p) ==
    /\ ~p.taken
    /\ p.todo = << >>
    /\ \A k \in DOMAIN p.loads : p.loads[k].signals = << >>
    /\ p.busy = "create" => ~p.held /\ p.loads = << >>

RecipientPageOK(queued) ==
    \A k \in DOMAIN queued : queued[k].type = "ice_candidate"

(***************************************************************************)
(* The session by itself: its candidates, and "closed" for good reason.    *)
(***************************************************************************)
SessionOK(s) ==
    /\ s.received = s.pending \cup s.flush \cup s.added \cup s.lost
    /\ s.remote => s.pending = {}
    /\ ~s.remote => s.flush = {}
    /\ s.state = "closed" =>
        s.channel # "open" /\ (s.connection = "closed" \/ s.channel = "closed")

(***************************************************************************)
(* The page and its session: what the page does not hold cannot open a     *)
(* channel, and before the first creation there is nothing at all.  What   *)
(* is to be flushed has its flush under way.                               *)
(***************************************************************************)
Tied(p, s, ts) ==
    /\ s.flush # {} => "flushing" \in ts
    /\ ~p.held =>
        s.channel # "open" /\ (s.connection \in {"none", "closed"} \/ s.channel = "closed")
    /\ ~p.held /\ ~p.cancelled => s = NoSession /\ ts = {}
    /\ s.channel = "open" /\ ~p.reloaded => p.engine # "none"

(***************************************************************************)
(* The handshake.  The sender gets one answer, and opens its channel when  *)
(* it has checked it; a recipient that was there all the time has its key  *)
(* material once its answer has gone out.                                  *)
(***************************************************************************)
SenderKeyOK(channel, material, ts, w, f) ==
    /\ Once(w, "handshake_answer")
    /\ Carries(w, "handshake_answer") =>
        "checking" \notin ts /\ channel = "none" /\ "handshake_answer" \in f
    /\ "checking" \in ts => channel = "none" /\ "handshake_answer" \in f
    /\ channel # "none" => material /\ "handshake_answer" \in f

RecipientKeyOK(reloaded, material, f) ==
    "handshake_answer" \in f /\ ~reloaded => material

(***************************************************************************)
(* The description is in one place: on its way, with a creation, among the *)
(* signals to be handled, or being applied; once it is set it is nowhere   *)
(* else, but for the head of `todo' until its handler has returned.  An    *)
(* answer is never kept: it is for the sender, whose session is there.     *)
(***************************************************************************)
Awaited(loads, d) == \E k \in DOMAIN loads : Carries(loads[k].signals, d)
Taken(remote, ts) == "applying" \in ts \/ remote
Handling(ts) == "applying" \in ts \/ "flushing" \in ts \/ "answering" \in ts

Described(d, loads, todo, remote, ts, w, f) ==
    /\ Once(w, d) /\ Once(todo, d)
    /\ \A k \in DOMAIN loads : Once(loads[k].signals, d)
    /\ Carries(w, d) => ~Awaited(loads, d) /\ ~Carries(todo, d) /\ ~Taken(remote, ts)
    /\ Awaited(loads, d) => ~Carries(todo, d) /\ ~Taken(remote, ts)
    /\ Carries(todo, d) /\ Taken(remote, ts) => Head(todo).type = d /\ Handling(ts)
    /\ ~("applying" \in ts /\ remote)
    /\ Carries(w, d) \/ Awaited(loads, d) \/ Carries(todo, d) \/ Taken(remote, ts) => d \in f
    /\ ~Carries(todo, "sdp_answer") /\ ~Awaited(loads, "sdp_answer")

SideOK(i, p, s, ts, w, f) ==
    /\ SideType(p, s, w, f)
    /\ PageOK(p)
    /\ i = "sender" => SenderPageOK(p) /\ SenderKeyOK(s.channel, s.material, ts, w, f)
    /\ i = "recipient" => RecipientPageOK(p.queued) /\ RecipientKeyOK(p.reloaded, s.material, f)
    /\ SessionOK(s)
    /\ Tied(p, s, ts)
    /\ Described(Description(i), p.loads, p.todo, s.remote, ts, w, f)
    /\ \A k \in DOMAIN w : w[k].type \in Inbound(i)

\* Before the offer the sender's page has begun nothing.
Waiting(p) == ~p.held /\ p.loads = << >> /\ p.busy = "no" /\ p.listed # "offered"

BeforeOffer == row = "none" => Waiting(page["sender"])

\* A function of the sides.
Pair(f) == f = [i \in Sides |-> f[i]]

Shape ==
    /\ Pair(page)
    /\ Pair(session)
    /\ Pair(tasks)
    /\ Pair(wire)

PageInv ==
    /\ Shape
    /\ BeforeOffer
    /\ \A i \in Sides : SideOK(i, page[i], session[i], tasks[i], wire[i], forwarded)

(***************************************************************************)
(* Sequences of messages.                                                  *)
(***************************************************************************)
\* The empty sequence carries nothing.
LEMMA EmptyCarries ==
    ASSUME NEW t
    PROVE  ~Carries(<< >>, t) /\ Once(<< >>, t)
BY DEF Carries, Once

\* One message carries its own type.
LEMMA SingleCarries ==
    ASSUME NEW t, NEW m \in Message
    PROVE  /\ <<m>> \in Seq(Message)
           /\ Carries(<<m>>, t) <=> m.type = t
           /\ Once(<<m>>, t)
<1>1. <<m>> \in Seq(Message) /\ DOMAIN <<m>> = {1} /\ <<m>>[1] = m
    OBVIOUS
<1> QED
    BY <1>1 DEF Carries, Once

\* Appending a message, as the server does when it forwards one.
LEMMA AppendCarries ==
    ASSUME NEW q \in Seq(Message), NEW m \in Message, NEW t
    PROVE  /\ Append(q, m) \in Seq(Message)
           /\ Carries(Append(q, m), t) <=> Carries(q, t) \/ m.type = t
           /\ Once(q, t) /\ (m.type = t => ~Carries(q, t)) => Once(Append(q, m), t)
<1>1. /\ Append(q, m) \in Seq(Message)
      /\ DOMAIN q = 1..Len(q)
      /\ DOMAIN Append(q, m) = 1..(Len(q) + 1)
      /\ Len(q) \in Nat
      /\ \A k \in 1..Len(q) : Append(q, m)[k] = q[k]
      /\ Append(q, m)[Len(q) + 1] = m
    OBVIOUS
<1>2. \A k \in 1..(Len(q) + 1) : k \in 1..Len(q) \/ k = Len(q) + 1
    BY <1>1
<1>3. Len(q) + 1 \in 1..(Len(q) + 1) /\ 1..Len(q) \subseteq 1..(Len(q) + 1)
    BY <1>1
<1>4. Carries(Append(q, m), t) <=> Carries(q, t) \/ m.type = t
    BY <1>1, <1>2, <1>3 DEF Carries
<1>5. Once(q, t) /\ (m.type = t => ~Carries(q, t)) => Once(Append(q, m), t)
    BY <1>1, <1>2, <1>3 DEF Carries, Once
<1> QED
    BY <1>1, <1>4, <1>5

LEMMA AppendDomain ==
    ASSUME NEW q \in Seq(Message), NEW m \in Message
    PROVE  \A k \in DOMAIN Append(q, m) :
               Append(q, m)[k] = m \/ \E l \in DOMAIN q : Append(q, m)[k] = q[l]
OBVIOUS

\* Taking the first message off, as a delivery does.
LEMMA TailCarries ==
    ASSUME NEW q \in Seq(Message), q # << >>, NEW t
    PROVE  /\ Head(q) \in Message
           /\ Tail(q) \in Seq(Message)
           /\ Head(q).type = t => Carries(q, t)
           /\ Carries(Tail(q), t) => Carries(q, t)
           /\ Once(q, t) => Once(Tail(q), t)
           /\ Once(q, t) /\ Head(q).type = t => ~Carries(Tail(q), t)
           /\ \A k \in DOMAIN Tail(q) : \E l \in DOMAIN q : Tail(q)[k] = q[l]
<1>1. /\ Tail(q) \in Seq(Message) /\ Len(q) \in Nat /\ Len(q) >= 1
      /\ DOMAIN q = 1..Len(q) /\ DOMAIN Tail(q) = 1..(Len(q) - 1)
      /\ Head(q) = q[1] /\ q[1] \in Message
      /\ \A k \in 1..(Len(q) - 1) : Tail(q)[k] = q[k + 1]
    BY EmptySeq
<1>2. \A k \in 1..(Len(q) - 1) : k + 1 \in 1..Len(q) /\ k + 1 # 1
    BY <1>1
<1>3. 1 \in 1..Len(q)
    BY <1>1
<1>4. \A k, l \in 1..(Len(q) - 1) : k + 1 = l + 1 => k = l
    BY <1>1
<1>5. Head(q).type = t => Carries(q, t)
    BY <1>1, <1>3 DEF Carries
<1>6. Carries(Tail(q), t) => Carries(q, t)
    BY <1>1, <1>2 DEF Carries
<1>7. Once(q, t) => Once(Tail(q), t)
    BY <1>1, <1>2, <1>4 DEF Once
<1>8. Once(q, t) /\ Head(q).type = t => ~Carries(Tail(q), t)
    BY <1>1, <1>2, <1>3 DEF Once, Carries
<1>9. \A k \in DOMAIN Tail(q) : \E l \in DOMAIN q : Tail(q)[k] = q[l]
    BY <1>1, <1>2
<1> QED
    BY <1>1, <1>5, <1>6, <1>7, <1>8, <1>9

EmptyOnce(q, t) == ~Carries(q, t) /\ Once(q, t)

\* One sequence after another, as Backlog() lines up what was kept.
LEMMA ConcatCarries ==
    ASSUME NEW q \in Seq(Message), NEW r \in Seq(Message), NEW t
    PROVE  /\ q \o r \in Seq(Message)
           /\ Carries(q \o r, t) <=> Carries(q, t) \/ Carries(r, t)
           /\ Once(q, t) /\ Once(r, t) /\ ~(Carries(q, t) /\ Carries(r, t)) => Once(q \o r, t)
<1>1. /\ q \o r \in Seq(Message)
      /\ Len(q) \in Nat /\ Len(r) \in Nat /\ Len(q \o r) = Len(q) + Len(r)
      /\ DOMAIN q = 1..Len(q) /\ DOMAIN r = 1..Len(r)
      /\ DOMAIN (q \o r) = 1..(Len(q) + Len(r))
    BY ConcatProperties, LenProperties
<1>2. \A k \in 1..Len(q) : k \in DOMAIN (q \o r) /\ (q \o r)[k] = q[k]
    BY <1>1, ConcatProperties
<1>3. \A k \in 1..Len(r) :
        k + Len(q) \in DOMAIN (q \o r) /\ (q \o r)[k + Len(q)] = r[k]
    <2> TAKE k \in 1..Len(r)
    <2>1. k + Len(q) \in 1..(Len(q) + Len(r)) /\ k + Len(q) > Len(q) /\ (k + Len(q)) - Len(q) = k
        BY <1>1
    <2> QED
        BY <1>1, <2>1, ConcatProperties
<1>4. \A k \in DOMAIN (q \o r) : k \in 1..Len(q) \/ (\E l \in 1..Len(r) : k = l + Len(q))
    <2> TAKE k \in DOMAIN (q \o r)
    <2>1. CASE k <= Len(q)
        BY <1>1, <2>1
    <2>2. CASE k > Len(q)
        <3>1. k - Len(q) \in 1..Len(r) /\ k = (k - Len(q)) + Len(q)
            BY <1>1, <2>2
        <3> QED
            BY <3>1
    <2> QED
        BY <1>1, <2>1, <2>2
<1>5. Carries(q \o r, t) <=> Carries(q, t) \/ Carries(r, t)
    <2>1. Carries(q \o r, t) => Carries(q, t) \/ Carries(r, t)
        <3> SUFFICES ASSUME NEW k \in DOMAIN (q \o r), (q \o r)[k].type = t
                     PROVE  Carries(q, t) \/ Carries(r, t)
            BY Zenon DEF Carries
        <3>1. CASE k \in 1..Len(q)
            BY <1>1, <1>2, <3>1, Zenon DEF Carries
        <3>2. CASE k \notin 1..Len(q)
            <4>1. PICK l \in 1..Len(r) : k = l + Len(q)
                BY <1>4, <3>2, Zenon
            <4> QED
                BY <1>1, <1>3, <4>1, Zenon DEF Carries
        <3> QED
            BY <3>1, <3>2, Zenon
    <2>2. Carries(q, t) => Carries(q \o r, t)
        BY <1>1, <1>2, Zenon DEF Carries
    <2>3. Carries(r, t) => Carries(q \o r, t)
        BY <1>1, <1>3, Zenon DEF Carries
    <2> QED
        BY <2>1, <2>2, <2>3
<1>6. ASSUME Once(q, t), Once(r, t), ~(Carries(q, t) /\ Carries(r, t))
      PROVE  Once(q \o r, t)
    <2> SUFFICES ASSUME NEW k \in DOMAIN (q \o r), NEW l \in DOMAIN (q \o r),
                        (q \o r)[k].type = t, (q \o r)[l].type = t
                 PROVE  k = l
        BY DEF Once
    <2>1. CASE k \in 1..Len(q) /\ l \in 1..Len(q)
        BY <1>1, <1>2, <1>6, <2>1, Zenon DEF Once
    <2>2. CASE k \in 1..Len(q) /\ l \notin 1..Len(q)
        <3>1. PICK a \in 1..Len(r) : l = a + Len(q)
            BY <1>4, <2>2, Zenon
        <3>2. Carries(r, t)
            BY <1>1, <1>3, <3>1, Zenon DEF Carries
        <3>3. Carries(q, t)
            BY <1>1, <1>2, <2>2, Zenon DEF Carries
        <3> QED
            BY <1>6, <3>2, <3>3, Zenon
    <2>3. CASE k \notin 1..Len(q) /\ l \in 1..Len(q)
        <3>1. PICK a \in 1..Len(r) : k = a + Len(q)
            BY <1>4, <2>3, Zenon
        <3>2. Carries(r, t)
            BY <1>1, <1>3, <3>1, Zenon DEF Carries
        <3>3. Carries(q, t)
            BY <1>1, <1>2, <2>3, Zenon DEF Carries
        <3> QED
            BY <1>6, <3>2, <3>3, Zenon
    <2>4. CASE k \notin 1..Len(q) /\ l \notin 1..Len(q)
        <3>1. PICK a \in 1..Len(r) : k = a + Len(q)
            BY <1>4, <2>4
        <3>2. PICK b \in 1..Len(r) : l = b + Len(q)
            BY <1>4, <2>4
        <3>3. r[a].type = t /\ r[b].type = t
            BY <1>3, <3>1, <3>2
        <3>4. a = b
            BY <1>1, <1>6, <3>3 DEF Once
        <3> QED
            BY <3>1, <3>2, <3>4
    <2> QED
        BY <2>1, <2>2, <2>3, <2>4
<1> QED
    BY <1>1, <1>5, <1>6

-----------------------------------------------------------------------------
(* One side at a time *)

\* q is p but for what the invariant does not look at, or an engine made or ended.
Alike(p, q) ==
    /\ IsPage(q)
    /\ q.loads = p.loads /\ q.todo = p.todo /\ q.held = p.held
    /\ q.cancelled = p.cancelled /\ q.cleaning = p.cleaning
    /\ q.reloaded = p.reloaded /\ q.strays = p.strays /\ q.taken = p.taken
    /\ EngineOK(p.engine, p.run, p.taken) => EngineOK(q.engine, q.run, q.taken)
    /\ q.queued = p.queued \/ q.queued = << >>
    /\ q.busy = p.busy \/ q.busy # "create"
    /\ p.engine # "none" => q.engine # "none"
    /\ q.engine = "live" => p.engine = "live" \/ q.held

LEMMA AlikeSelf == ASSUME NEW p, IsPage(p) PROVE Alike(p, p)
BY Zenon DEF Alike

LEMMA AlikeTrans ==
    ASSUME NEW p, NEW q, NEW r, Alike(p, q), Alike(q, r)
    PROVE  Alike(p, r)
BY Zenon DEF Alike

LEMMA AlikeSide ==
    ASSUME NEW i, NEW p, NEW q, NEW s, NEW ts, NEW w, NEW f,
           SideOK(i, p, s, ts, w, f), Alike(p, q)
    PROVE  SideOK(i, q, s, ts, w, f)
<1>1. SideType(q, s, w, f)
    BY Zenon DEF SideOK, SideType, Alike
<1>2. PageOK(q)
    BY Zenon DEF SideOK, PageOK, Alike
<1>3. i = "sender" => SenderPageOK(q)
    BY Zenon DEF SideOK, SenderPageOK, Alike
<1>4. i = "recipient" => RecipientPageOK(q.queued) /\ RecipientKeyOK(q.reloaded, s.material, f)
    <2>1. RecipientPageOK(<< >>)
        BY DEF RecipientPageOK
    <2> QED
        BY <2>1, Zenon DEF SideOK, Alike
<1>5. Tied(q, s, ts)
    BY Zenon DEF SideOK, Tied, Alike
<1>6. Described(Description(i), q.loads, q.todo, s.remote, ts, w, f)
    BY Zenon DEF SideOK, Alike
<1> QED
    BY <1>1, <1>2, <1>3, <1>4, <1>5, <1>6, Zenon DEF SideOK

\* markSessionFailed, and every other change of what is only shown.
LEMMA FailedAlike ==
    ASSUME NEW p, IsPage(p)
    PROVE  Alike(p, Failed(p)) /\ (Waiting(p) => Waiting(Failed(p)))
<1> DEFINE q == [p EXCEPT !.run = "failed"]
<1>1. IsPage(q)
    BY Zenon DEF IsPage, PageFields
<1>2. /\ q.loads = p.loads /\ q.todo = p.todo /\ q.held = p.held /\ q.listed = p.listed
      /\ q.cancelled = p.cancelled /\ q.cleaning = p.cleaning
      /\ q.reloaded = p.reloaded /\ q.strays = p.strays /\ q.taken = p.taken
      /\ q.queued = p.queued /\ q.busy = p.busy /\ q.engine = p.engine /\ q.run = "failed"
    BY Zenon DEF IsPage, PageFields
<1>3. Failed(p) = q
    BY Zenon DEF Failed
<1> HIDE DEF q
<1>4. EngineOK(p.engine, p.run, p.taken) => EngineOK(q.engine, q.run, q.taken)
    BY <1>2 DEF EngineOK
<1> QED
    BY <1>1, <1>2, <1>3, <1>4, Zenon DEF Alike, Waiting

LEMMA ShownAlike ==
    ASSUME NEW p, IsPage(p), NEW s, NEW t
    PROVE  Alike(p, Shown(p, s, t)) /\ (Waiting(p) => Waiting(Shown(p, s, t)))
BY FailedAlike, AlikeSelf, Zenon DEF Shown

LEMMA EngineAlike ==
    ASSUME NEW p, IsPage(p), NEW s
    PROVE  /\ Alike(p, CreateFileEngine(p, s))
           /\ Waiting(p) => Waiting(CreateFileEngine(p, s))
           /\ p.held /\ s.channel = "open" /\ s.material => CreateFileEngine(p, s).engine # "none"
<1> DEFINE Post(q) == /\ Alike(p, q) /\ (Waiting(p) => Waiting(q))
                      /\ p.held /\ s.channel = "open" /\ s.material => q.engine # "none"
<1>1. CASE p.held /\ NoEngine(p) /\ s.channel = "open" /\ s.material /\ p.taken
    <2> DEFINE r == Failed(p)
               q == [r EXCEPT !.engine = "refused"]
    <2>1. IsPage(r) /\ Alike(p, r)
        BY FailedAlike, Zenon DEF Alike
    <2>2. r.run = "failed" /\ r.listed = p.listed
        BY Zenon DEF Failed, IsPage, PageFields
    <2> HIDE DEF r
    <2>3. /\ q.loads = r.loads /\ q.todo = r.todo /\ q.held = r.held /\ q.listed = r.listed
          /\ q.cancelled = r.cancelled /\ q.cleaning = r.cleaning
          /\ q.reloaded = r.reloaded /\ q.strays = r.strays /\ q.taken = r.taken
          /\ q.queued = r.queued /\ q.busy = r.busy /\ q.engine = "refused" /\ q.run = r.run
          /\ IsPage(q)
        BY <2>1, Zenon DEF IsPage, PageFields
    <2>4. CreateFileEngine(p, s) = q
        BY <1>1, Zenon DEF CreateFileEngine, r
    <2> HIDE DEF q
    <2>5. EngineOK(q.engine, q.run, q.taken) /\ q.engine # "none" /\ q.engine # "live"
        <3>1. q.taken /\ q.run = "failed" /\ q.engine = "refused"
            BY <1>1, <2>1, <2>2, <2>3, Zenon DEF Alike
        <3> QED
            BY <3>1 DEF EngineOK
    <2>6. Alike(p, q)
        BY <2>1, <2>3, <2>5, Zenon DEF Alike
    <2> QED
        BY <1>1, <2>2, <2>3, <2>4, <2>5, <2>6, Zenon DEF Waiting, Alike
<1>2. CASE p.held /\ NoEngine(p) /\ s.channel = "open" /\ s.material /\ ~p.taken
    <2> DEFINE x == p.sent \/ p.selected
               q == [p EXCEPT !.engine = "live", !.ready = TRUE, !.sent = x, !.run = "active"]
    <2>1. CreateFileEngine(p, s) = q
        BY <1>2, Zenon DEF CreateFileEngine
    <2> HIDE DEF x
    <2>2. /\ q.loads = p.loads /\ q.todo = p.todo /\ q.held = p.held /\ q.listed = p.listed
          /\ q.cancelled = p.cancelled /\ q.cleaning = p.cleaning
          /\ q.reloaded = p.reloaded /\ q.strays = p.strays /\ q.taken = p.taken
          /\ q.queued = p.queued /\ q.busy = p.busy /\ q.engine = "live"
          /\ IsPage(q)
        BY Zenon DEF IsPage, PageFields
    <2> HIDE DEF q
    <2>3. EngineOK(q.engine, q.run, q.taken) /\ q.engine # "none"
        BY <2>2 DEF EngineOK
    <2> QED
        BY <1>2, <2>1, <2>2, <2>3, Zenon DEF Alike, Waiting
<1>3. CASE ~(p.held /\ NoEngine(p) /\ s.channel = "open" /\ s.material)
    <2>1. CreateFileEngine(p, s) = p
        BY <1>3, Zenon DEF CreateFileEngine
    <2>2. ~NoEngine(p) => p.engine # "none"
        BY DEF NoEngine
    <2> QED
        BY <1>3, <2>1, <2>2, AlikeSelf, Zenon
<1> QED
    BY <1>1, <1>2, <1>3, Zenon

\* t is s but for what the invariant does not look at; the key material may be
\* there now and the connection may have gone on.
Calm(s, t) ==
    /\ IsSession(t)
    /\ t.channel = s.channel /\ t.remote = s.remote
    /\ t.pending = s.pending /\ t.flush = s.flush /\ t.added = s.added /\ t.lost = s.lost
    /\ t.received = s.received
    /\ s.material => t.material
    /\ t.state = "closed" => s.state = "closed"
    /\ \/ t.connection = s.connection
       \/ s.connection \in {"new", "connected"} /\ t.connection \in {"connected", "failed"}

LEMMA CalmTrans ==
    ASSUME NEW s, NEW t, NEW u, Calm(s, t), Calm(t, u)
    PROVE  Calm(s, u)
BY Zenon DEF Calm

\* A side with a session, or an await of one, has its page hold it, or has given up.
LEMMA Present ==
    ASSUME NEW i, NEW p, NEW s, NEW ts, NEW w, NEW f, SideOK(i, p, s, ts, w, f),
           s # NoSession \/ ts # {} \/ p.todo # << >>
    PROVE  p.held \/ p.cancelled
BY Zenon DEF SideOK, Tied, PageOK

LEMMA CalmSide ==
    ASSUME NEW i, NEW p, NEW s, NEW t, NEW ts, NEW w, NEW f,
           SideOK(i, p, s, ts, w, f), Calm(s, t), p.held \/ p.cancelled
    PROVE  SideOK(i, p, t, ts, w, f)
<1>1. SideType(p, t, w, f)
    BY Zenon DEF SideOK, SideType, Calm
<1>2. i = "sender" => SenderKeyOK(t.channel, t.material, ts, w, f)
    BY Zenon DEF SideOK, SenderKeyOK, Calm
<1>3. i = "recipient" => RecipientKeyOK(p.reloaded, t.material, f)
    BY Zenon DEF SideOK, RecipientKeyOK, Calm
<1>4. SessionOK(t)
    BY DEF SideOK, SessionOK, Calm
<1>5. Tied(p, t, ts)
    BY DEF SideOK, Tied, Calm
<1>6. Described(Description(i), p.loads, p.todo, t.remote, ts, w, f)
    BY Zenon DEF SideOK, Calm
<1> QED
    BY <1>1, <1>2, <1>3, <1>4, <1>5, <1>6, Zenon DEF SideOK

\* Awaits come and go.
LEMMA TasksSide ==
    ASSUME NEW i, NEW p, NEW s, NEW ts, NEW us, NEW w, NEW f,
           SideOK(i, p, s, ts, w, f), p.held \/ p.cancelled,
           "checking" \in us => "checking" \in ts,
           "applying" \in us => "applying" \in ts,
           "flushing" \in ts => "flushing" \in us \/ s.flush = {},
           Handling(ts) => \/ Handling(us)
                           \/ ~(Carries(p.todo, Description(i)) /\ Taken(s.remote, ts))
    PROVE  SideOK(i, p, s, us, w, f)
<1>1. SideType(p, s, w, f)
    BY Zenon DEF SideOK, SideType
<1>2. i = "sender" => SenderKeyOK(s.channel, s.material, us, w, f)
    BY Zenon DEF SideOK, SenderKeyOK
<1>3. Tied(p, s, us)
    BY Zenon DEF SideOK, Tied
<1>4. Taken(s.remote, us) => Taken(s.remote, ts)
    BY Zenon DEF Taken
<1>5. Described(Description(i), p.loads, p.todo, s.remote, us, w, f)
    BY <1>4, Zenon DEF SideOK, Described
<1> QED
    BY <1>1, <1>2, <1>3, <1>5, Zenon DEF SideOK

\* The server forwards another single-use message.
LEMMA GrowSide ==
    ASSUME NEW i, NEW p, NEW s, NEW ts, NEW w, NEW f, NEW g \in SUBSET SingleUse,
           SideOK(i, p, s, ts, w, f), f \subseteq g,
           i = "recipient" => RecipientKeyOK(p.reloaded, s.material, g)
    PROVE  SideOK(i, p, s, ts, w, g)
<1>1. SideType(p, s, w, g)
    BY Zenon DEF SideOK, SideType
<1>2. i = "sender" => SenderKeyOK(s.channel, s.material, ts, w, g)
    BY Zenon DEF SideOK, SenderKeyOK
<1>3. Described(Description(i), p.loads, p.todo, s.remote, ts, w, g)
    BY Zenon DEF SideOK, Described
<1> QED
    BY <1>1, <1>2, <1>3, Zenon DEF SideOK

LEMMA InboundFacts ==
    /\ "handshake_answer" \notin Inbound("recipient")
    /\ \A i \in Sides : Description(i) \in SingleUse /\ "handshake_answer" # Description(i)
BY DEF Inbound, Sides, Description, SingleUse

\* A message that was not forwarded before is on its way.
LEMMA ArriveSide ==
    ASSUME NEW i \in Sides, NEW p, NEW s, NEW ts, NEW w, NEW f, NEW m \in Message,
           SideOK(i, p, s, ts, w, f), m.type \in Inbound(i), m.type \notin f
    PROVE  SideOK(i, p, s, ts, Append(w, m), f \cup ({m.type} \cap SingleUse))
<1> DEFINE g == f \cup ({m.type} \cap SingleUse)
           d == Description(i)
           v == Append(w, m)
<1>1. w \in Seq(Message) /\ f \in SUBSET SingleUse
    BY Zenon DEF SideOK, SideType
<1>2. v \in Seq(Message) /\ \A t : /\ Carries(v, t) <=> Carries(w, t) \/ m.type = t
                                   /\ Once(w, t) /\ (m.type = t => ~Carries(w, t)) => Once(v, t)
    BY <1>1, AppendCarries, Zenon
<1>3. \A k \in DOMAIN v : v[k].type \in Inbound(i)
    <2>1. \A k \in DOMAIN v : v[k] = m \/ \E l \in DOMAIN w : v[k] = w[l]
        BY <1>1, AppendDomain, Zenon
    <2> QED
        BY <2>1, Zenon DEF SideOK
<1>4. g \in SUBSET SingleUse /\ f \subseteq g /\ \A t \in SingleUse : t = m.type => t \in g
    BY <1>1, Zenon
<1> HIDE DEF g, v
<1>5. SideType(p, s, v, g)
    BY <1>2, <1>4, Zenon DEF SideOK, SideType
<1>6. i = "sender" => SenderKeyOK(s.channel, s.material, ts, v, g)
    <2>1. "handshake_answer" \in SingleUse
        BY DEF SingleUse
    <2> QED
        BY <1>2, <1>4, <2>1, Zenon DEF SideOK, SenderKeyOK
<1>7. i = "recipient" => RecipientKeyOK(p.reloaded, s.material, g)
    BY InboundFacts, Zenon DEF SideOK, RecipientKeyOK, g
<1>8. d \in SingleUse
    BY InboundFacts, Zenon
<1>9. Described(d, p.loads, p.todo, s.remote, ts, w, f)
    BY Zenon DEF SideOK
<1> HIDE DEF d
<1>10. Described(d, p.loads, p.todo, s.remote, ts, v, g)
    BY <1>2, <1>4, <1>8, <1>9, Zenon DEF Described
<1> QED
    BY <1>3, <1>5, <1>6, <1>7, <1>10, Zenon DEF SideOK, d, v, g

\* Messages on their way are lost.
LEMMA LoseSide ==
    ASSUME NEW i, NEW p, NEW s, NEW ts, NEW w, NEW f, SideOK(i, p, s, ts, w, f)
    PROVE  SideOK(i, p, s, ts, << >>, f)
<1>1. /\ << >> \in Seq(Message) /\ \A t : ~Carries(<< >>, t) /\ Once(<< >>, t)
      /\ \A k \in DOMAIN << >> : << >>[k].type \in Inbound(i)
    BY EmptyCarries
<1>2. SideType(p, s, << >>, f)
    BY <1>1, Zenon DEF SideOK, SideType
<1>3. i = "sender" => SenderKeyOK(s.channel, s.material, ts, << >>, f)
    BY <1>1, Zenon DEF SideOK, SenderKeyOK
<1>4. Described(Description(i), p.loads, p.todo, s.remote, ts, << >>, f)
    BY <1>1, Zenon DEF SideOK, Described
<1> QED
    BY <1>1, <1>2, <1>3, <1>4, Zenon DEF SideOK

\* The next message is taken; a description or an answer that is taken is nowhere.
Nowhere(d, p, s, ts, w, f) ==
    /\ d \in f /\ ~Carries(w, d) /\ ~Awaited(p.loads, d)
    /\ ~Carries(p.todo, d) /\ ~Taken(s.remote, ts)

Unanswered(s, ts, w, f) ==
    /\ "handshake_answer" \in f /\ ~Carries(w, "handshake_answer")
    /\ "checking" \notin ts /\ s.channel = "none"

LEMMA TakenSide ==
    ASSUME NEW i, NEW p, NEW s, NEW ts, NEW w, NEW f, SideOK(i, p, s, ts, w, f), w # << >>
    PROVE  /\ SideOK(i, p, s, ts, Tail(w), f)
           /\ Head(w) \in Message /\ Head(w).type \in Inbound(i)
           /\ Head(w).type = Description(i) => Nowhere(Description(i), p, s, ts, Tail(w), f)
           /\ i = "sender" /\ Head(w).type = "handshake_answer" => Unanswered(s, ts, Tail(w), f)
<1> DEFINE d == Description(i)
           v == Tail(w)
<1>1. w \in Seq(Message)
    BY Zenon DEF SideOK, SideType
<1>2. /\ Head(w) \in Message
      /\ v \in Seq(Message)
      /\ \A t : /\ Head(w).type = t => Carries(w, t)
                /\ Carries(v, t) => Carries(w, t)
                /\ Once(w, t) => Once(v, t)
                /\ Once(w, t) /\ Head(w).type = t => ~Carries(v, t)
      /\ \A k \in DOMAIN v : \E l \in DOMAIN w : v[k] = w[l]
    BY <1>1, TailCarries, Zenon
<1>3. Head(w).type \in Inbound(i)
    <2>1. 1 \in DOMAIN w /\ Head(w) = w[1]
        BY <1>1, EmptySeq
    <2> QED
        BY <2>1, Zenon DEF SideOK
<1>4. \A k \in DOMAIN v : v[k].type \in Inbound(i)
    BY <1>2, Zenon DEF SideOK
<1> HIDE DEF v
<1>5. SideType(p, s, v, f)
    BY <1>2, Zenon DEF SideOK, SideType
<1>6. i = "sender" => SenderKeyOK(s.channel, s.material, ts, v, f)
    BY <1>2, Zenon DEF SideOK, SenderKeyOK
<1>7. Described(d, p.loads, p.todo, s.remote, ts, w, f)
    BY Zenon DEF SideOK
<1>8. i = "sender" /\ Head(w).type = "handshake_answer" => Unanswered(s, ts, v, f)
    BY <1>2, Zenon DEF SideOK, SenderKeyOK, Unanswered
<1> HIDE DEF d
<1>9. Described(d, p.loads, p.todo, s.remote, ts, v, f)
    BY <1>2, <1>7, Zenon DEF Described
<1>10. Head(w).type = d => Nowhere(d, p, s, ts, v, f)
    BY <1>2, <1>7, Zenon DEF Described, Nowhere
<1>11. SideOK(i, p, s, ts, v, f)
    BY <1>4, <1>5, <1>6, <1>9, Zenon DEF SideOK, d
<1> QED
    BY <1>2, <1>3, <1>8, <1>10, <1>11, Zenon DEF v, d

\* A signal is kept for later.
LEMMA QueueSide ==
    ASSUME NEW i, NEW p, NEW s, NEW ts, NEW w, NEW f, SideOK(i, p, s, ts, w, f),
           NEW m \in Message, i = "recipient" => m.type = "ice_candidate"
    PROVE  LET q == [p EXCEPT !.queued = Append(@, m)] IN
           SideOK(i, q, s, ts, w, f) /\ (Waiting(p) => Waiting(q))
<1> DEFINE q == [p EXCEPT !.queued = Append(@, m)]
<1>1. IsPage(p)
    BY Zenon DEF SideOK, SideType
<1>2. Append(p.queued, m) \in Seq(Message)
    BY <1>1, AppendCarries, Zenon DEF IsPage
<1>3. /\ q.loads = p.loads /\ q.todo = p.todo /\ q.held = p.held /\ q.listed = p.listed
      /\ q.cancelled = p.cancelled /\ q.cleaning = p.cleaning
      /\ q.reloaded = p.reloaded /\ q.strays = p.strays /\ q.taken = p.taken
      /\ q.queued = Append(p.queued, m) /\ q.busy = p.busy /\ q.engine = p.engine /\ q.run = p.run
      /\ q = [k \in PageFields |-> q[k]]
    BY <1>1, Zenon DEF IsPage, PageFields
<1> HIDE DEF q
<1>4. IsPage(q)
    BY <1>1, <1>2, <1>3, Zenon DEF IsPage
<1>5. i = "recipient" => RecipientPageOK(q.queued)
    <2> DEFINE a == Append(p.queued, m)
    <2>1. \A k \in DOMAIN a : a[k] = m \/ \E l \in DOMAIN p.queued : a[k] = p.queued[l]
        BY <1>1, AppendDomain, Zenon DEF IsPage
    <2>2. i = "recipient" => RecipientPageOK(a)
        BY <2>1, Zenon DEF SideOK, RecipientPageOK
    <2> QED
        BY <1>3, <2>2, Zenon
<1>6. PageOK(q) /\ (i = "sender" => SenderPageOK(q)) /\ Tied(q, s, ts)
    BY <1>3, Zenon DEF SideOK, PageOK, SenderPageOK, Tied
<1>7. Described(Description(i), q.loads, q.todo, s.remote, ts, w, f)
    BY <1>3, Zenon DEF SideOK
<1>8. SideOK(i, q, s, ts, w, f)
    BY <1>3, <1>4, <1>5, <1>6, <1>7, Zenon DEF SideOK, SideType
<1> QED
    BY <1>3, <1>8, Zenon DEF Waiting, q

\* Signals that were to be handled are done, or dropped.
LEMMA TodoSide ==
    ASSUME NEW i, NEW p, NEW s, NEW ts, NEW w, NEW f, SideOK(i, p, s, ts, w, f),
           NEW td \in Seq(Message), Once(td, Description(i)),
           Carries(td, Description(i)) =>
               Carries(p.todo, Description(i)) /\ ~Taken(s.remote, ts),
           p.todo = << >> => td = << >>, ~Carries(td, "sdp_answer")
    PROVE  LET q == [p EXCEPT !.todo = td] IN
           IsPage(q) /\ SideOK(i, q, s, ts, w, f) /\ (Waiting(p) => Waiting(q)) /\ q.todo = td
<1> DEFINE q == [p EXCEPT !.todo = td]
<1>1. IsPage(p)
    BY Zenon DEF SideOK, SideType
<1>3. /\ q.loads = p.loads /\ q.todo = td /\ q.held = p.held /\ q.listed = p.listed
      /\ q.cancelled = p.cancelled /\ q.cleaning = p.cleaning
      /\ q.reloaded = p.reloaded /\ q.strays = p.strays /\ q.taken = p.taken
      /\ q.queued = p.queued /\ q.busy = p.busy /\ q.engine = p.engine /\ q.run = p.run
      /\ q = [k \in PageFields |-> q[k]]
    BY <1>1, Zenon DEF IsPage, PageFields
<1> HIDE DEF q
<1>4. IsPage(q)
    BY <1>1, <1>3, Zenon DEF IsPage
<1>6. PageOK(q) /\ (i = "sender" => SenderPageOK(q)) /\ Tied(q, s, ts)
    BY <1>3, Zenon DEF SideOK, PageOK, SenderPageOK, Tied
<1>7. Described(Description(i), q.loads, q.todo, s.remote, ts, w, f)
    BY <1>3, Zenon DEF SideOK, Described
<1>8. SideOK(i, q, s, ts, w, f)
    BY <1>3, <1>4, <1>6, <1>7, Zenon DEF SideOK, SideType
<1> QED
    BY <1>3, <1>4, <1>8, Zenon DEF Waiting, q

\* A description begins to be applied.
LEMMA ApplySide ==
    ASSUME NEW i, NEW p, NEW s, NEW ts, NEW w, NEW f, SideOK(i, p, s, ts, w, f),
           p.held \/ p.cancelled, Description(i) \in f,
           ~Carries(w, Description(i)), ~Awaited(p.loads, Description(i)), ~Taken(s.remote, ts),
           Carries(p.todo, Description(i)) => Head(p.todo).type = Description(i)
    PROVE  SideOK(i, p, s, ts \cup {"applying"}, w, f)
<1> DEFINE us == ts \cup {"applying"}
<1>2. /\ "applying" \in us /\ ("checking" \in us => "checking" \in ts) /\ ~s.remote
      /\ "flushing" \in ts => "flushing" \in us
    BY DEF Taken
<1> HIDE DEF us
<1>3. SideType(p, s, w, f)
    BY Zenon DEF SideOK, SideType
<1>4. i = "sender" => SenderKeyOK(s.channel, s.material, us, w, f)
    BY <1>2, Zenon DEF SideOK, SenderKeyOK
<1>5. Tied(p, s, us)
    BY <1>2, Zenon DEF SideOK, Tied
<1>6. Described(Description(i), p.loads, p.todo, s.remote, us, w, f)
    BY <1>2, Zenon DEF SideOK, Described, Handling
<1> QED
    BY <1>3, <1>4, <1>5, <1>6, Zenon DEF SideOK, us

\* A handshake message begins to be checked.
LEMMA CheckSide ==
    ASSUME NEW i, NEW p, NEW s, NEW ts, NEW w, NEW f, SideOK(i, p, s, ts, w, f),
           p.held \/ p.cancelled, i = "sender" => Unanswered(s, ts, w, f)
    PROVE  SideOK(i, p, s, ts \cup {"checking"}, w, f)
<1> DEFINE us == ts \cup {"checking"}
<1>2. /\ "applying" \in us <=> "applying" \in ts
      /\ "flushing" \in us <=> "flushing" \in ts
      /\ "answering" \in us <=> "answering" \in ts
    OBVIOUS
<1> HIDE DEF us
<1>3. SideType(p, s, w, f)
    BY Zenon DEF SideOK, SideType
<1>4. i = "sender" => SenderKeyOK(s.channel, s.material, us, w, f)
    BY Zenon DEF SideOK, SenderKeyOK, Unanswered
<1>5. Tied(p, s, us)
    BY <1>2, Zenon DEF SideOK, Tied
<1>6. (Taken(s.remote, us) <=> Taken(s.remote, ts)) /\ (Handling(us) <=> Handling(ts))
    BY <1>2, Zenon DEF Taken, Handling
<1>7. Described(Description(i), p.loads, p.todo, s.remote, us, w, f)
    BY <1>2, <1>6, Zenon DEF SideOK, Described
<1> QED
    BY <1>3, <1>4, <1>5, <1>7, Zenon DEF SideOK, us

\* What a session does with its candidates; its channel and its connection stay.
Sorted(s, t) ==
    /\ IsSession(t) /\ SessionOK(t)
    /\ t.channel = s.channel /\ t.connection = s.connection /\ t.material = s.material
    /\ t.flush \subseteq s.flush

LEMMA SortedSide ==
    ASSUME NEW i, NEW p, NEW s, NEW t, NEW ts, NEW w, NEW f, SideOK(i, p, s, ts, w, f),
           p.held \/ p.cancelled, Sorted(s, t), t.remote = s.remote
    PROVE  SideOK(i, p, t, ts, w, f)
<1>1. SideType(p, t, w, f)
    BY Zenon DEF SideOK, SideType, Sorted
<1>2. i = "sender" => SenderKeyOK(t.channel, t.material, ts, w, f)
    BY Zenon DEF SideOK, Sorted
<1>3. i = "recipient" => RecipientKeyOK(p.reloaded, t.material, f)
    BY Zenon DEF SideOK, Sorted
<1>5. Tied(p, t, ts)
    BY Zenon DEF SideOK, Tied, Sorted
<1>6. Described(Description(i), p.loads, p.todo, t.remote, ts, w, f)
    BY Zenon DEF SideOK
<1> QED
    BY <1>1, <1>2, <1>3, <1>5, <1>6, Zenon DEF SideOK, Sorted

\* handleIceCandidate keeps the candidate, or adds it.
LEMMA TakeCandidateFacts ==
    ASSUME NEW s, IsSession(s), SessionOK(s), NEW c
    PROVE  Sorted(s, TakeCandidate(s, c)) /\ TakeCandidate(s, c).remote = s.remote
<1>1. CASE s.remote
    <2> DEFINE t == [s EXCEPT !.added = @ \cup {c}, !.received = @ \cup {c}]
    <2>1. /\ t.channel = s.channel /\ t.connection = s.connection /\ t.material = s.material
          /\ t.remote = s.remote /\ t.state = s.state /\ t.pending = s.pending /\ t.flush = s.flush
          /\ t.lost = s.lost
          /\ t.added = s.added \cup {c} /\ t.received = s.received \cup {c} /\ IsSession(t)
        BY Zenon DEF IsSession, SessionFields
    <2>2. TakeCandidate(s, c) = t
        BY <1>1, Zenon DEF TakeCandidate
    <2> HIDE DEF t
    <2>3. t.received = t.pending \cup t.flush \cup t.added \cup t.lost
        BY <2>1, Zenon DEF SessionOK
    <2>4. SessionOK(t)
        BY <2>1, <2>3, Zenon DEF SessionOK
    <2> QED
        BY <2>1, <2>2, <2>4, Zenon DEF Sorted
<1>2. CASE ~s.remote
    <2> DEFINE t == [s EXCEPT !.pending = @ \cup {c}, !.received = @ \cup {c}]
    <2>1. /\ t.channel = s.channel /\ t.connection = s.connection /\ t.material = s.material
          /\ t.remote = s.remote /\ t.state = s.state /\ t.added = s.added /\ t.flush = s.flush
          /\ t.lost = s.lost
          /\ t.pending = s.pending \cup {c} /\ t.received = s.received \cup {c} /\ IsSession(t)
        BY Zenon DEF IsSession, SessionFields
    <2>2. TakeCandidate(s, c) = t
        BY <1>2, Zenon DEF TakeCandidate
    <2> HIDE DEF t
    <2>3. t.received = t.pending \cup t.flush \cup t.added \cup t.lost
        BY <2>1, Zenon DEF SessionOK
    <2>4. SessionOK(t)
        BY <1>2, <2>1, <2>3, Zenon DEF SessionOK
    <2> QED
        BY <2>1, <2>2, <2>4, Zenon DEF Sorted
<1> QED
    BY <1>1, <1>2

\* flushCandidates adds one.
LEMMA FlushFacts ==
    ASSUME NEW s, IsSession(s), SessionOK(s), NEW c \in s.flush
    PROVE  Sorted(s, Flushed(s, c)) /\ Flushed(s, c).remote = s.remote
<1> DEFINE t == [s EXCEPT !.flush = @ \ {c}, !.added = @ \cup {c}]
<1>1. /\ t.channel = s.channel /\ t.connection = s.connection /\ t.material = s.material
      /\ t.remote = s.remote /\ t.state = s.state /\ t.pending = s.pending /\ t.received = s.received
      /\ t.flush = s.flush \ {c} /\ t.added = s.added \cup {c} /\ t.lost = s.lost /\ IsSession(t)
    BY Zenon DEF IsSession, SessionFields
<1> HIDE DEF t
<1>2. t.received = t.pending \cup t.flush \cup t.added \cup t.lost
    BY <1>1, Zenon DEF SessionOK
<1>3. SessionOK(t)
    BY <1>1, <1>2, Zenon DEF SessionOK
<1> QED
    BY <1>1, <1>3, Zenon DEF Sorted, t, Flushed

\* flushCandidates breaks off.
LEMMA BreaksOffFacts ==
    ASSUME NEW s, IsSession(s), SessionOK(s)
    PROVE  LET t == BreaksOff(s) IN Sorted(s, t) /\ t.remote = s.remote /\ t.flush = {}
<1> DEFINE t == [s EXCEPT !.flush = {}, !.lost = @ \cup s.flush]
<1>1. /\ t.channel = s.channel /\ t.connection = s.connection /\ t.material = s.material
      /\ t.remote = s.remote /\ t.state = s.state /\ t.pending = s.pending /\ t.received = s.received
      /\ t.flush = {} /\ t.added = s.added /\ t.lost = s.lost \cup s.flush /\ IsSession(t)
    BY Zenon DEF IsSession, SessionFields
<1> HIDE DEF t
<1>2. t.received = t.pending \cup t.flush \cup t.added \cup t.lost
    BY <1>1, Zenon DEF SessionOK
<1>3. SessionOK(t)
    BY <1>1, <1>2, Zenon DEF SessionOK
<1>4. t.flush \subseteq s.flush
    BY <1>1
<1> QED
    BY <1>1, <1>3, <1>4, Zenon DEF Sorted, t, BreaksOff

\* setRemoteDescription has resolved: the description is set, the flush begins.
LEMMA RemoteSide ==
    ASSUME NEW i, NEW p, NEW s, NEW ts, NEW w, NEW f, SideOK(i, p, s, ts, w, f), "applying" \in ts
    PROVE  SideOK(i, p, RemoteSet(s), (ts \ {"applying"}) \cup {"flushing"}, w, f)
<1> DEFINE t == RemoteSet(s)
           us == (ts \ {"applying"}) \cup {"flushing"}
<1>1. p.held \/ p.cancelled
    BY Present, Zenon
<1>2. /\ "checking" \in us => "checking" \in ts
      /\ "applying" \notin us /\ "flushing" \in us
    OBVIOUS
<1>3. ~s.remote /\ s.flush = {}
    BY Zenon DEF SideOK, Described, SessionOK
<1>4. /\ t.channel = s.channel /\ t.connection = s.connection /\ t.material = s.material
      /\ t.remote = TRUE /\ t.state = s.state /\ t.added = s.added /\ t.received = s.received
      /\ t.pending = {} /\ t.flush = s.pending /\ t.lost = s.lost /\ IsSession(t)
    BY Zenon DEF SideOK, SideType, IsSession, SessionFields, RemoteSet
<1> HIDE DEF t, us
<1>5. t.received = t.pending \cup t.flush \cup t.added \cup t.lost
    BY <1>3, <1>4, Zenon DEF SideOK, SessionOK
<1>6. SessionOK(t)
    BY <1>4, <1>5, Zenon DEF SideOK, SessionOK
<1>7. SideType(p, t, w, f)
    BY <1>2, <1>4, Zenon DEF SideOK, SideType
<1>8. i = "sender" => SenderKeyOK(t.channel, t.material, us, w, f)
    BY <1>2, <1>4, Zenon DEF SideOK, SenderKeyOK
<1>9. i = "recipient" => RecipientKeyOK(p.reloaded, t.material, f)
    BY <1>4, Zenon DEF SideOK
<1>10. Tied(p, t, us)
    BY <1>1, <1>2, <1>4, Zenon DEF SideOK, Tied
<1>11. Taken(s.remote, ts) /\ Taken(t.remote, us) /\ Handling(us)
    BY <1>2, <1>4, Zenon DEF Taken, Handling
<1>12. Described(Description(i), p.loads, p.todo, t.remote, us, w, f)
    BY <1>2, <1>11, Zenon DEF SideOK, Described
<1> QED
    BY <1>6, <1>7, <1>8, <1>9, <1>10, <1>12, Zenon DEF SideOK, t, us

-----------------------------------------------------------------------------
(* Creations of a session *)

\* A caller or a signal joins those that wait.
LEMMA AwaitFacts ==
    ASSUME NEW load \in Loads, NEW m \in Message
    PROVE  /\ Await(load, m) \in Loads
           /\ m.type \in Starters => Await(load, m).signals = load.signals
           /\ m.type \notin Starters => Await(load, m).signals = Append(load.signals, m)
<1>1. load.signals \in Seq(Message) /\ load.starters \in SUBSET Starters
    BY DEF Loads
<1>2. Append(load.signals, m) \in Seq(Message)
    BY <1>1, AppendCarries, Zenon
<1>3. CASE m.type \in Starters
    <2>1. load.starters \cup {m.type} \in SUBSET Starters
        BY <1>1, <1>3, Zenon
    <2> QED
        BY <1>3, <2>1 DEF Await, Loads
<1>4. CASE m.type \notin Starters
    BY <1>2, <1>4, Zenon DEF Await, Loads
<1> QED
    BY <1>3, <1>4, Zenon

\* The page with one creation under way.
LEMMA LoadSide ==
    ASSUME NEW i, NEW p, NEW s, NEW ts, NEW w, NEW f, SideOK(i, p, s, ts, w, f), ~p.held,
           i = "sender" => p.busy # "create", NEW l \in Loads, NEW q,
           q = [p EXCEPT !.loads = <<l>>], i = "sender" => l.signals = << >>,
           Once(l.signals, Description(i)), ~Carries(l.signals, "sdp_answer"),
           Carries(l.signals, Description(i)) =>
               \/ Awaited(p.loads, Description(i))
               \/ Nowhere(Description(i), p, s, ts, w, f)
    PROVE  SideOK(i, q, s, ts, w, f)
<1>1. IsPage(p)
    BY Zenon DEF SideOK, SideType
<1>2. <<l>> \in Seq(Loads) /\ Len(<<l>>) <= 1 /\ DOMAIN <<l>> = {1} /\ <<l>>[1] = l
    OBVIOUS
<1>3. /\ q.loads = <<l>> /\ q.todo = p.todo /\ q.held = p.held /\ q.listed = p.listed
      /\ q.cancelled = p.cancelled /\ q.cleaning = p.cleaning
      /\ q.reloaded = p.reloaded /\ q.strays = p.strays /\ q.taken = p.taken
      /\ q.queued = p.queued /\ q.busy = p.busy /\ q.engine = p.engine /\ q.run = p.run
      /\ q = [k \in PageFields |-> q[k]]
    BY <1>1, Zenon DEF IsPage, PageFields
<1>4. IsPage(q)
    BY <1>1, <1>2, <1>3, Zenon DEF IsPage
<1>5. PageOK(q) /\ Tied(q, s, ts)
    BY <1>2, <1>3, Zenon DEF SideOK, PageOK, Tied
<1>6. i = "sender" => SenderPageOK(q)
    <2>1. \A k \in DOMAIN <<l>> : <<l>>[k] = l
        BY <1>2, Zenon
    <2>2. i = "sender" => \A k \in DOMAIN <<l>> : <<l>>[k].signals = << >>
        BY <2>1, Zenon
    <2> QED
        BY <1>3, <2>2 DEF SideOK, SenderPageOK
<1> DEFINE d == Description(i)
<1>7. Described(d, p.loads, p.todo, s.remote, ts, w, f)
    BY Zenon DEF SideOK
<1>8. /\ Awaited(<<l>>, d) <=> Carries(l.signals, d)
      /\ ~Awaited(<<l>>, "sdp_answer")
      /\ \A k \in DOMAIN <<l>> : Once(<<l>>[k].signals, d)
    BY <1>2 DEF Awaited
<1>9. Described(d, <<l>>, p.todo, s.remote, ts, w, f)
    <2> DEFINE one == <<l>>
    <2>1. /\ Awaited(one, d) <=> Carries(l.signals, d)
          /\ ~Awaited(one, "sdp_answer")
          /\ \A k \in DOMAIN one : Once(one[k].signals, d)
        BY <1>8, Zenon
    <2> SUFFICES Described(d, one, p.todo, s.remote, ts, w, f)
        BY Zenon
    <2> HIDE DEF one, d
    <2>2. CASE Carries(l.signals, d)
        <3>1. /\ d \in f /\ ~Carries(w, d) /\ ~Carries(p.todo, d) /\ ~Taken(s.remote, ts)
            BY <1>7, <2>2, Zenon DEF Described, Nowhere, d
        <3> QED
            BY <1>7, <2>1, <3>1, Zenon DEF Described
    <2>3. CASE ~Carries(l.signals, d)
        BY <1>7, <2>1, <2>3, Zenon DEF Described
    <2> QED
        BY <2>2, <2>3, Zenon
<1>10. Described(d, q.loads, q.todo, s.remote, ts, w, f)
    BY <1>3, <1>9, Zenon
<1> QED
    BY <1>3, <1>4, <1>5, <1>6, <1>10, Zenon DEF SideOK, SideType

LEMMA OneLoad ==
    ASSUME NEW p, IsPage(p), Len(p.loads) <= 1, p.loads # << >>
    PROVE  /\ p.loads[1] \in Loads /\ Len(p.loads) = 1 /\ DOMAIN p.loads = {1}
           /\ Tail(p.loads) = << >> /\ Head(p.loads) = p.loads[1]
           /\ \A l : [p.loads EXCEPT ![1] = l] = <<l>>
<1> DEFINE q == p.loads
<1>1. q \in Seq(Loads) /\ Len(q) <= 1 /\ q # << >>
    BY Zenon DEF IsPage
<1> HIDE DEF q
<1>2. /\ q[1] \in Loads /\ Len(q) = 1 /\ DOMAIN q = {1}
      /\ Tail(q) = << >> /\ Head(q) = q[1]
    <2>1. Len(q) \in Nat /\ Len(q) # 0 /\ Len(q) <= 1
        BY <1>1, EmptySeq
    <2>2. Len(q) = 1
        <3> DEFINE n == Len(q)
        <3>1. n \in Nat /\ n # 0 /\ n <= 1
            BY <2>1
        <3> HIDE DEF n
        <3>2. n = 1
            BY <3>1
        <3> QED
            BY <3>2 DEF n
    <2>3. DOMAIN q = {1} /\ Head(q) = q[1] /\ q[1] \in Loads
        BY <1>1, <2>2
    <2>4. Tail(q) \in Seq(Loads) /\ Len(Tail(q)) = 0
        BY <1>1, <2>2, HeadTailProperties
    <2> QED
        BY <2>2, <2>3, <2>4, EmptySeq, ZenonT(60)
<1>3. \A l : [q EXCEPT ![1] = l] = <<l>>
    BY <1>2
<1> QED
    BY <1>2, <1>3, Zenon DEF q

\* createTestSession joins the creation under way, or begins one.
LEMMA JoinSide ==
    ASSUME NEW i \in Sides, NEW p, NEW s, NEW ts, NEW w, NEW f, SideOK(i, p, s, ts, w, f), ~p.held,
           NEW m \in Message, i = "sender" => p.busy # "create" /\ m.type \in Starters,
           m.type # "sdp_answer",
           m.type = Description(i) => Nowhere(Description(i), p, s, ts, w, f)
    PROVE  SideOK(i, Joined(p, m), s, ts, w, f)
<1> DEFINE d == Description(i)
           none == [starters |-> {}, signals |-> << >>]
<1>1. IsPage(p) /\ Len(p.loads) <= 1 /\ Described(d, p.loads, p.todo, s.remote, ts, w, f)
    BY Zenon DEF SideOK, SideType, PageOK
<1>2. d \notin Starters
    BY DEF Description, Starters
<1>3. ASSUME NEW load \in Loads, Once(load.signals, d), i = "sender" => load.signals = << >>,
             Carries(load.signals, d) => Awaited(p.loads, d), ~Carries(load.signals, "sdp_answer")
      PROVE  SideOK(i, [p EXCEPT !.loads = <<Await(load, m)>>], s, ts, w, f)
    <2> DEFINE l == Await(load, m)
    <2>1. /\ l \in Loads
          /\ m.type \in Starters => l.signals = load.signals
          /\ m.type \notin Starters => l.signals = Append(load.signals, m)
        BY AwaitFacts, Zenon
    <2> HIDE DEF l
    <2>2. load.signals \in Seq(Message)
        BY DEF Loads
    <2>3. /\ Carries(Append(load.signals, m), d) <=> Carries(load.signals, d) \/ m.type = d
          /\ Once(load.signals, d) /\ (m.type = d => ~Carries(load.signals, d)) =>
                Once(Append(load.signals, m), d)
        BY <2>2, AppendCarries, Zenon
    <2>4. m.type = d => ~Awaited(p.loads, d)
        BY Zenon DEF Nowhere
    <2>5. Once(l.signals, d)
        BY <1>2, <1>3, <2>1, <2>3, <2>4, Zenon
    <2>6. Carries(l.signals, d) => Awaited(p.loads, d) \/ Nowhere(d, p, s, ts, w, f)
        BY <1>2, <1>3, <2>1, <2>3, Zenon
    <2>7. i = "sender" => l.signals = << >>
        BY <1>3, <2>1, Zenon
    <2>9. ~Carries(l.signals, "sdp_answer")
        <3>1. Carries(Append(load.signals, m), "sdp_answer") <=>
                  Carries(load.signals, "sdp_answer") \/ m.type = "sdp_answer"
            BY <2>2, AppendCarries, Zenon
        <3> QED
            BY <1>3, <2>1, <3>1, Zenon
    <2>8. SideOK(i, [p EXCEPT !.loads = <<l>>], s, ts, w, f)
        BY <2>1, <2>5, <2>6, <2>7, <2>9, LoadSide, Zenon
    <2> QED
        BY <2>8, Zenon DEF l
<1>4. CASE p.loads # << >>
    <2>1. /\ p.loads[1] \in Loads /\ Len(p.loads) = 1 /\ DOMAIN p.loads = {1}
          /\ \A l : [p.loads EXCEPT ![1] = l] = <<l>>
        BY <1>1, <1>4, OneLoad, Zenon
    <2>2. 1 \in DOMAIN p.loads
        BY <2>1, Zenon
    <2>3. /\ Once(p.loads[1].signals, d) /\ (Carries(p.loads[1].signals, d) => Awaited(p.loads, d))
          /\ ~Carries(p.loads[1].signals, "sdp_answer")
        BY <1>1, <2>2, Zenon DEF Described, Awaited
    <2>4. i = "sender" => p.loads[1].signals = << >>
        BY <2>2, Zenon DEF SideOK, SenderPageOK
    <2>5. SideOK(i, [p EXCEPT !.loads = <<Await(p.loads[1], m)>>], s, ts, w, f)
        BY <1>3, <2>1, <2>3, <2>4, Zenon
    <2>6. Joined(p, m) = [p EXCEPT !.loads[Len(p.loads)] = Await(@, m)]
        BY <1>4, Zenon DEF Joined
    <2>7. Joined(p, m) = [p EXCEPT !.loads = [p.loads EXCEPT ![1] = Await(p.loads[1], m)]]
        BY <2>1, <2>6
    <2>8. Joined(p, m) = [p EXCEPT !.loads = <<Await(p.loads[1], m)>>]
        BY <2>1, <2>7, Zenon
    <2> QED
        BY <2>5, <2>8, Zenon
<1>5. CASE p.loads = << >> /\ ~p.cancelled
    <2>1. none \in Loads /\ none.signals = << >>
        BY DEF Loads, Starters
    <2>2. Once(none.signals, d) /\ ~Carries(none.signals, d) /\ ~Carries(none.signals, "sdp_answer")
        BY <2>1, EmptyCarries, Zenon
    <2>3. SideOK(i, [p EXCEPT !.loads = <<Await(none, m)>>], s, ts, w, f)
        BY <1>3, <2>1, <2>2, Zenon
    <2> QED
        BY <1>5, <2>3, Zenon DEF Joined, FirstAwait
<1>6. CASE p.loads = << >> /\ p.cancelled
    BY <1>6, Zenon DEF Joined
<1> QED
    BY <1>4, <1>5, <1>6, Zenon

\* A creation comes to nothing.
LEMMA UnloadSide ==
    ASSUME NEW i, NEW p, NEW s, NEW ts, NEW w, NEW f, SideOK(i, p, s, ts, w, f),
           NEW q, q = [p EXCEPT !.loads = << >>]
    PROVE  SideOK(i, q, s, ts, w, f)
<1>1. IsPage(p)
    BY Zenon DEF SideOK, SideType
<1>2. << >> \in Seq(Loads) /\ Len(<< >>) <= 1 /\ \A k \in DOMAIN << >> : FALSE
    OBVIOUS
<1>3. /\ q.loads = << >> /\ q.todo = p.todo /\ q.held = p.held /\ q.listed = p.listed
      /\ q.cancelled = p.cancelled /\ q.cleaning = p.cleaning
      /\ q.reloaded = p.reloaded /\ q.strays = p.strays /\ q.taken = p.taken
      /\ q.queued = p.queued /\ q.busy = p.busy /\ q.engine = p.engine /\ q.run = p.run
      /\ q = [k \in PageFields |-> q[k]]
    BY <1>1, Zenon DEF IsPage, PageFields
<1>4. IsPage(q)
    BY <1>1, <1>2, <1>3, Zenon DEF IsPage
<1>5. PageOK(q) /\ Tied(q, s, ts)
    BY <1>2, <1>3, Zenon DEF SideOK, PageOK, Tied
<1>6. i = "sender" => SenderPageOK(q)
    BY <1>2, <1>3 DEF SideOK, SenderPageOK
<1>7. \A d : ~Awaited(<< >>, d)
    BY <1>2, Zenon DEF Awaited
<1>8. Described(Description(i), << >>, p.todo, s.remote, ts, w, f)
    BY <1>2, <1>7, Zenon DEF SideOK, Described
<1>9. Described(Description(i), q.loads, q.todo, s.remote, ts, w, f)
    BY <1>3, <1>8, Zenon
<1> QED
    BY <1>3, <1>4, <1>5, <1>6, <1>9, Zenon DEF SideOK, SideType

\* What was kept and what waited, in the order Backlog() handles it.
LEMMA BacklogOrder ==
    ASSUME NEW signals \in Seq(Message), signals # << >>, NEW queued \in Seq(Message), NEW d,
           ~Carries(queued, d), Once(signals, d), NEW first,
           first \in {<<Head(signals)>> \o queued, queued \o <<Head(signals)>>}
    PROVE  /\ first \o Tail(signals) \in Seq(Message)
           /\ Carries(first \o Tail(signals), d) => Carries(signals, d)
           /\ Once(first \o Tail(signals), d)
<1> DEFINE h == Head(signals)
           rest == Tail(signals)
<1>1. /\ h \in Message /\ rest \in Seq(Message)
      /\ h.type = d => Carries(signals, d) /\ ~Carries(rest, d)
      /\ Carries(rest, d) => Carries(signals, d)
      /\ Once(rest, d)
    BY TailCarries, Zenon
<1> HIDE DEF h, rest
<1>2. <<h>> \in Seq(Message) /\ (Carries(<<h>>, d) <=> h.type = d) /\ Once(<<h>>, d)
    BY <1>1, SingleCarries, Zenon
<1>3. EmptyOnce(queued, d)
    BY Zenon DEF EmptyOnce, Carries, Once
<1>4. first \in Seq(Message) /\ (Carries(first, d) <=> h.type = d) /\ Once(first, d)
    <2>1. CASE first = <<h>> \o queued
        BY <1>2, <1>3, <2>1, ConcatCarries, Zenon DEF EmptyOnce
    <2>2. CASE first = queued \o <<h>>
        BY <1>2, <1>3, <2>2, ConcatCarries, Zenon DEF EmptyOnce
    <2> QED
        BY <2>1, <2>2, Zenon DEF h
<1>5. /\ first \o rest \in Seq(Message)
      /\ Carries(first \o rest, d) <=> Carries(first, d) \/ Carries(rest, d)
      /\ Once(first \o rest, d)
    BY <1>1, <1>4, ConcatCarries, Zenon
<1> QED
    BY <1>1, <1>4, <1>5, Zenon DEF rest

\* A session that has just been made.
Fresh(t) ==
    /\ IsSession(t) /\ SessionOK(t)
    /\ t.channel = "none" /\ t.remote = FALSE

LEMMA FreshFacts == Fresh(NewSession) /\ Fresh(Negotiate(NewSession))
<1>1. Fresh(NewSession)
    BY DEF Fresh, NewSession, IsSession, SessionFields, SessionOK
<1>2. Fresh(Negotiate(NewSession))
    BY ZenonT(60) DEF Fresh, NewSession, IsSession, SessionFields, SessionOK, Negotiate, Arm, SetState
<1> QED
    BY <1>1, <1>2

LEMMA NoSessionFacts ==
    /\ IsSession(NoSession) /\ SessionOK(NoSession)
    /\ NoSession.channel = "none" /\ NoSession.material = FALSE /\ NoSession.remote = FALSE
    /\ NoSession.connection = "none" /\ NoSession.timer = FALSE
BY DEF NoSession, NewSession, IsSession, SessionFields, SessionOK

\* The page p with its session, before what waited is handled.
Ready(p, n) ==
    /\ n.loads = << >> /\ n.todo = p.todo /\ n.held = TRUE /\ n.engine = "none"
    /\ n.cancelled = p.cancelled /\ n.cleaning = p.cleaning
    /\ n.reloaded = p.reloaded /\ n.strays = p.strays /\ n.taken = p.taken
    /\ n.queued = p.queued /\ n.busy = p.busy
    /\ n = [k \in PageFields |-> n[k]]

LEMMA ReadyFacts ==
    ASSUME NEW p, IsPage(p), NEW q, q = [p EXCEPT !.loads = << >>]
    PROVE  Ready(p, [q EXCEPT !.held = TRUE, !.engine = "none"])
<1> DEFINE n == [q EXCEPT !.held = TRUE, !.engine = "none"]
<1>1. /\ q.loads = << >> /\ q.todo = p.todo /\ q.strays = p.strays /\ q.taken = p.taken
      /\ q.cancelled = p.cancelled /\ q.cleaning = p.cleaning
      /\ q.reloaded = p.reloaded /\ q.queued = p.queued /\ q.busy = p.busy
      /\ q = [k \in PageFields |-> q[k]]
    BY Zenon DEF IsPage, PageFields
<1>2. /\ n.loads = q.loads /\ n.todo = q.todo /\ n.held = TRUE /\ n.engine = "none"
      /\ n.cancelled = q.cancelled /\ n.cleaning = q.cleaning
      /\ n.reloaded = q.reloaded /\ n.strays = q.strays /\ n.taken = q.taken
      /\ n.queued = q.queued /\ n.busy = q.busy
      /\ n = [k \in PageFields |-> n[k]]
    BY <1>1, Zenon DEF PageFields
<1> HIDE DEF n
<1>3. Ready(p, n)
    BY <1>1, <1>2, Zenon DEF Ready
<1> QED
    BY <1>3 DEF n

\* createTestSession gets its session; what waited is handled.
LEMMA CreatedSide ==
    ASSUME NEW i \in Sides, NEW p, NEW s, NEW ts, NEW w, NEW f, SideOK(i, p, s, ts, w, f),
           p.loads # << >>, ~p.cancelled, NEW t, Fresh(t),
           NEW us, \A x \in us : x = "offering", NEW q, NEW n, Ready(p, n),
           q = Backlog(n, p.loads[1].signals)
    PROVE  SideOK(i, q, t, us, w, f)
<1> DEFINE signals == p.loads[1].signals
           d == Description(i)
<1>1. /\ IsPage(p) /\ PageOK(p) /\ Len(p.loads) <= 1 /\ w \in Seq(Message) /\ f \in SUBSET SingleUse
      /\ Described(d, p.loads, p.todo, s.remote, ts, w, f)
    BY Zenon DEF SideOK, SideType, PageOK
<1>2. ~p.held /\ p.todo = << >> /\ s = NoSession /\ ts = {}
    BY <1>1, Zenon DEF SideOK, PageOK, Tied
<1>3. p.loads[1] \in Loads /\ 1 \in DOMAIN p.loads
    BY <1>1, OneLoad, Zenon
<1>4. signals \in Seq(Message)
    BY <1>3 DEF Loads
<1>5. /\ Once(signals, d) /\ (Carries(signals, d) => d \in f /\ ~Carries(w, d))
      /\ ~Carries(signals, "sdp_answer")
    BY <1>1, <1>3, Zenon DEF Described, Awaited
<1>6. i = "sender" => signals = << >> /\ p.busy # "create" /\ ~p.taken
    BY <1>3, Zenon DEF SideOK, SenderPageOK
<1>7. i = "recipient" => ~Carries(p.queued, d) /\ ~Carries(p.queued, "sdp_answer")
    <2>1. i = "recipient" => d # "ice_candidate" /\ "sdp_answer" # "ice_candidate"
        BY DEF Description
    <2> QED
        BY <2>1, Zenon DEF SideOK, RecipientPageOK, Carries
<1>8. /\ n.loads = << >> /\ n.todo = << >> /\ n.held = TRUE /\ n.engine = "none"
      /\ n.cancelled = p.cancelled /\ n.cleaning = p.cleaning
      /\ n.reloaded = p.reloaded /\ n.strays = p.strays /\ n.taken = p.taken
      /\ n.queued = p.queued /\ n.busy = p.busy
    BY <1>2, Zenon DEF Ready
<1>9. n = [k \in PageFields |-> n[k]]
    BY Zenon DEF Ready
<1>e. << >> \in Seq(Loads) /\ << >> \in Seq(Message)
    OBVIOUS
<1> HIDE DEF signals, d
<1>10. /\ q.loads = << >> /\ q.held = TRUE /\ q.engine = "none" /\ q.cancelled = p.cancelled
       /\ q.cleaning = p.cleaning /\ q.reloaded = p.reloaded /\ q.strays = p.strays /\ q.busy = p.busy
       /\ q.taken = p.taken
       /\ IsPage(q)
       /\ q.queued = p.queued \/ q.queued = << >>
       /\ q.todo \in Seq(Message) /\ (i = "sender" => q.todo = << >>)
       /\ Carries(q.todo, d) => Carries(signals, d)
       /\ Once(q.todo, d) /\ ~Carries(q.todo, "sdp_answer")
    <2>1. CASE signals = << >>
        <3>1. q = n
            BY <2>1, Zenon DEF Backlog, signals
        <3> QED
            <4>1. IsPage(n)
                BY <1>1, <1>8, <1>9, <1>e, Zenon DEF IsPage
            <4>2. Once(n.todo, d) /\ ~Carries(n.todo, d) /\ ~Carries(n.todo, "sdp_answer")
                BY <1>8, EmptyCarries, Zenon
            <4>3. n.todo = << >> /\ n.todo \in Seq(Message)
                BY <1>8, <1>e, Zenon
            <4> QED
                BY <1>8, <3>1, <4>1, <4>2, <4>3, Zenon
    <2>2. CASE signals # << >>
        <3> DEFINE first == IF Head(signals).type = "handshake_offer"
                            THEN <<Head(signals)>> \o n.queued ELSE n.queued \o <<Head(signals)>>
                   todo == first \o Tail(signals)
        <3>1. q = [n EXCEPT !.queued = << >>, !.todo = todo]
            BY <2>2, Zenon DEF Backlog, signals
        <3>2. i = "recipient"
            BY <1>6, <2>2, Zenon DEF Sides
        <3>3. first \in {<<Head(signals)>> \o p.queued, p.queued \o <<Head(signals)>>}
            BY <1>8, Zenon
        <3> HIDE DEF first
        <3>4. todo \in Seq(Message) /\ (Carries(todo, d) => Carries(signals, d)) /\ Once(todo, d)
            BY <1>1, <1>4, <1>5, <1>7, <2>2, <3>2, <3>3, BacklogOrder, Zenon DEF IsPage
        <3>7. ~Carries(todo, "sdp_answer")
            <4>1. Once(signals, "sdp_answer")
                BY <1>5, Zenon DEF Once, Carries
            <4> QED
                BY <1>1, <1>4, <1>5, <1>7, <2>2, <3>2, <3>3, <4>1, BacklogOrder, Zenon DEF IsPage
        <3> HIDE DEF todo
        <3>5. /\ q.loads = n.loads /\ q.held = n.held /\ q.engine = n.engine
              /\ q.cancelled = n.cancelled /\ q.cleaning = n.cleaning /\ q.reloaded = n.reloaded
              /\ q.strays = n.strays /\ q.taken = n.taken /\ q.busy = n.busy /\ q.queued = << >> /\ q.todo = todo
              /\ q = [k \in PageFields |-> q[k]]
            BY <1>9, <3>1, Zenon DEF PageFields
        <3>6. IsPage(q)
            BY <1>8, <1>e, <3>4, <3>5, ZenonT(60) DEF IsPage
        <3> QED
            BY <1>8, <3>2, <3>4, <3>5, <3>6, <3>7, Zenon
    <2> QED
        BY <2>1, <2>2, Zenon
<1>11. /\ << >> \in Seq(Loads) /\ << >> \in Seq(Message) /\ Len(<< >>) <= 1
       /\ \A k \in DOMAIN << >> : FALSE
    OBVIOUS
<1>12. IsPage(q)
    BY <1>10, Zenon
<1>13. PageOK(q)
    <2>1. EngineOK(q.engine, q.run, q.taken)
        BY <1>10 DEF EngineOK
    <2> QED
        BY <1>1, <1>10, <1>11, <2>1, Zenon DEF PageOK
<1>14. i = "sender" => SenderPageOK(q)
    BY <1>6, <1>10, <1>11, Zenon DEF SenderPageOK
<1>15. i = "sender" => SenderKeyOK(t.channel, t.material, us, w, f)
    <2>1. "checking" \notin us
        OBVIOUS
    <2> QED
        BY <1>2, <2>1, NoSessionFacts, Zenon DEF SideOK, SenderKeyOK, Fresh
<1>16. i = "recipient" => RecipientPageOK(q.queued) /\ RecipientKeyOK(q.reloaded, t.material, f)
    <2>1. RecipientPageOK(<< >>)
        BY <1>11, Zenon DEF RecipientPageOK
    <2> QED
        BY <1>2, <1>10, <2>1, NoSessionFacts, Zenon DEF SideOK, RecipientKeyOK
<1>17. Tied(q, t, us)
    <2>1. t.channel # "open" /\ t.flush = {}
        BY DEF Fresh, SessionOK
    <2> QED
        BY <1>10, <2>1, Zenon DEF Tied
<1>18. Described(d, q.loads, q.todo, t.remote, us, w, f)
    <2>1. ~Taken(t.remote, us)
        BY DEF Taken, Fresh
    <2>2. \A k \in DOMAIN q.loads : FALSE
        BY <1>10, <1>11, Zenon
    <2>3. "applying" \notin us
        OBVIOUS
    <2> QED
        BY <1>1, <1>5, <1>10, <2>1, <2>2, <2>3, Zenon DEF Described, Awaited
<1> QED
    BY <1>1, <1>12, <1>13, <1>14, <1>15, <1>16, <1>17, <1>18, Zenon DEF SideOK, SideType, Fresh, d

-----------------------------------------------------------------------------
(* What a session does to itself *)

LEMMA CalmSelf == ASSUME NEW s, IsSession(s) PROVE Calm(s, s)
BY Zenon DEF Calm

\* setState, but for "closed".
LEMMA SetStateCalm ==
    ASSUME NEW s, IsSession(s), NEW state, state # "closed"
    PROVE  Calm(s, SetState(s, state)) /\ SetState(s, state).state = state
<1>1. CASE state = s.state
    BY <1>1, CalmSelf, Zenon DEF SetState
<1>2. CASE state # s.state
    <2> DEFINE t == SetState(s, state)
    <2>1. /\ t.channel = s.channel /\ t.remote = s.remote
          /\ t.pending = s.pending /\ t.flush = s.flush /\ t.added = s.added /\ t.lost = s.lost
          /\ t.received = s.received /\ t.material = s.material /\ t.state = state
          /\ t.connection = s.connection /\ IsSession(t)
        BY <1>2, Zenon DEF IsSession, SessionFields, SetState
    <2> HIDE DEF t
    <2>2. Calm(s, t)
        BY <2>1, Zenon DEF Calm
    <2> QED
        BY <2>1, <2>2, Zenon DEF t
<1> QED
    BY <1>1, <1>2, Zenon

\* What the session sets beside its state.
LEMMA FieldCalm ==
    ASSUME NEW s, IsSession(s), NEW x
    PROVE  /\ Calm(s, [s EXCEPT !.offer = TRUE]) /\ Calm(s, [s EXCEPT !.started = TRUE])
           /\ Calm(s, [s EXCEPT !.timer = x]) /\ Calm(s, [s EXCEPT !.local = TRUE])
           /\ x \in Nat => Calm(s, [s EXCEPT !.gathered = x])
<1>1. Calm(s, [s EXCEPT !.offer = TRUE])
    BY Zenon DEF IsSession, SessionFields, Calm
<1>2. Calm(s, [s EXCEPT !.started = TRUE])
    BY Zenon DEF IsSession, SessionFields, Calm
<1>3. Calm(s, [s EXCEPT !.timer = x])
    BY Zenon DEF IsSession, SessionFields, Calm
<1>4. Calm(s, [s EXCEPT !.local = TRUE])
    BY Zenon DEF IsSession, SessionFields, Calm
<1>5. ASSUME x \in Nat
      PROVE  Calm(s, [s EXCEPT !.gathered = x])
    BY <1>5, Zenon DEF IsSession, SessionFields, Calm
<1> QED
    BY <1>1, <1>2, <1>3, <1>4, <1>5, Zenon

LEMMA MaterialCalm ==
    ASSUME NEW s, IsSession(s)
    PROVE  LET t == [s EXCEPT !.material = TRUE] IN
           Calm(s, t) /\ t.material /\ t.channel = s.channel /\ t.connection = s.connection
<1> DEFINE t == [s EXCEPT !.material = TRUE]
<1>1. /\ t.channel = s.channel /\ t.remote = s.remote
      /\ t.pending = s.pending /\ t.flush = s.flush /\ t.added = s.added /\ t.lost = s.lost
      /\ t.received = s.received /\ t.material = TRUE /\ t.state = s.state
      /\ t.connection = s.connection /\ IsSession(t)
    BY Zenon DEF IsSession, SessionFields
<1> HIDE DEF t
<1> QED
    BY <1>1, Zenon DEF Calm, t

LEMMA ConnectionCalm ==
    ASSUME NEW s, IsSession(s), s.connection \in {"new", "connected"}, NEW x \in {"connected", "failed"}
    PROVE  Calm(s, [s EXCEPT !.connection = x])
<1> DEFINE t == [s EXCEPT !.connection = x]
<1>1. /\ t.channel = s.channel /\ t.remote = s.remote
      /\ t.pending = s.pending /\ t.flush = s.flush /\ t.added = s.added /\ t.lost = s.lost
      /\ t.received = s.received /\ t.material = s.material /\ t.state = s.state
      /\ t.connection = x /\ IsSession(t)
    BY Zenon DEF IsSession, SessionFields
<1> HIDE DEF t
<1> QED
    BY <1>1, Zenon DEF Calm, t

LEMMA NegotiateCalm ==
    ASSUME NEW s, IsSession(s)
    PROVE  Calm(s, Negotiate(s))
<1> DEFINE a == [s EXCEPT !.started = TRUE]
           b == SetState(a, "negotiating")
           c == [b EXCEPT !.timer = TRUE]
<1>1. Calm(s, a)
    BY FieldCalm, Zenon
<1>2. IsSession(a)
    BY <1>1, Zenon DEF Calm
<1> HIDE DEF a
<1>3. Calm(a, b)
    BY <1>2, SetStateCalm
<1>4. IsSession(b)
    BY <1>3, Zenon DEF Calm
<1> HIDE DEF b
<1>5. Calm(b, c)
    BY <1>4, FieldCalm, Zenon
<1>6. Calm(s, c)
    BY <1>1, <1>3, <1>5, CalmTrans, Zenon
<1> QED
    BY <1>6, Zenon DEF Negotiate, Arm, a, b

\* close(): no channel of a closed session is open, or will be.
Shut(s, t) ==
    /\ IsSession(t) /\ SessionOK(t)
    /\ t.remote = s.remote /\ t.material = s.material /\ t.flush = s.flush /\ t.lost = s.lost
    /\ t.channel # "open" /\ (t.connection = "closed" \/ t.channel = "closed")
    /\ t.channel = "none" <=> s.channel = "none"

LEMMA CloseShut ==
    ASSUME NEW s, IsSession(s), SessionOK(s)
    PROVE  Shut(s, Close(s))
<1>1. CASE s.state = "closed"
    BY <1>1, Zenon DEF Close, Shut, SessionOK
<1>2. CASE s.state # "closed"
    <2> DEFINE a == [s EXCEPT !.state = "closed",
                              !.timer = @ /\ "closed" \notin {"connected", "failed", "closed"}]
               x == IF a.channel = "none" THEN a.channel ELSE "closed"
               t == [a EXCEPT !.channel = x, !.connection = "closed"]
    <2>1. /\ a.channel = s.channel /\ a.remote = s.remote
          /\ a.pending = s.pending /\ a.flush = s.flush /\ a.added = s.added /\ a.lost = s.lost
          /\ a.received = s.received /\ a.material = s.material /\ IsSession(a)
        BY Zenon DEF IsSession, SessionFields
    <2>2. Close(s) = t
        BY <1>2, ZenonT(60) DEF Close, SetState
    <2> HIDE DEF a
    <2>3. x # "open" /\ (x = "none" <=> s.channel = "none")
        BY <2>1
    <2> HIDE DEF x
    <2>4. /\ t.channel = x /\ t.remote = a.remote
          /\ t.pending = a.pending /\ t.flush = a.flush /\ t.added = a.added /\ t.lost = a.lost
          /\ t.received = a.received /\ t.material = a.material /\ t.connection = "closed"
          /\ IsSession(t)
        BY <2>1, Zenon DEF IsSession, SessionFields
    <2> HIDE DEF t
    <2>5. SessionOK(t)
        BY <2>1, <2>3, <2>4, Zenon DEF SessionOK
    <2>6. Shut(s, t)
        BY <2>1, <2>3, <2>4, <2>5, Zenon DEF Shut
    <2> QED
        BY <2>2, <2>6, Zenon
<1> QED
    BY <1>1, <1>2, Zenon

\* The end of the channel.
LEMMA ChannelShut ==
    ASSUME NEW s, IsSession(s), SessionOK(s), s.channel = "open"
    PROVE  Shut(s, SetState([s EXCEPT !.channel = "closed"], "closed"))
<1> DEFINE a == [s EXCEPT !.channel = "closed"]
           t == [a EXCEPT !.state = "closed",
                          !.timer = @ /\ "closed" \notin {"connected", "failed", "closed"}]
<1>1. /\ a.channel = "closed" /\ a.remote = s.remote /\ a.state = s.state
      /\ a.pending = s.pending /\ a.flush = s.flush /\ a.added = s.added /\ a.lost = s.lost
      /\ a.received = s.received /\ a.material = s.material /\ IsSession(a)
    BY Zenon DEF IsSession, SessionFields
<1> HIDE DEF a
<1>2. s.state # "closed"
    BY Zenon DEF SessionOK
<1>3. SetState(a, "closed") = t
    BY <1>1, <1>2, Zenon DEF SetState
<1>4. /\ t.channel = a.channel /\ t.remote = a.remote
      /\ t.pending = a.pending /\ t.flush = a.flush /\ t.added = a.added /\ t.lost = a.lost
      /\ t.received = a.received /\ t.material = a.material /\ IsSession(t)
    BY <1>1, Zenon DEF IsSession, SessionFields
<1> HIDE DEF t
<1>5. t.channel = "closed" /\ t.channel # "open" /\ t.channel # "none" /\ s.channel # "none"
    BY <1>1, <1>4
<1>6. SessionOK(t)
    BY <1>1, <1>4, <1>5, Zenon DEF SessionOK
<1>7. Shut(s, t)
    BY <1>1, <1>4, <1>5, <1>6, Zenon DEF Shut
<1> QED
    BY <1>3, <1>7, Zenon DEF a

LEMMA ShutSide ==
    ASSUME NEW i, NEW p, NEW s, NEW t, NEW ts, NEW w, NEW f, SideOK(i, p, s, ts, w, f),
           p.held \/ p.cancelled, Shut(s, t)
    PROVE  SideOK(i, p, t, ts, w, f)
<1>1. SideType(p, t, w, f)
    BY Zenon DEF SideOK, SideType, Shut
<1>2. i = "sender" => SenderKeyOK(t.channel, t.material, ts, w, f)
    BY Zenon DEF SideOK, SenderKeyOK, Shut
<1>3. i = "recipient" => RecipientKeyOK(p.reloaded, t.material, f)
    BY Zenon DEF SideOK, RecipientKeyOK, Shut
<1>4. Tied(p, t, ts)
    BY Zenon DEF SideOK, Tied, Shut
<1>5. Described(Description(i), p.loads, p.todo, t.remote, ts, w, f)
    BY Zenon DEF SideOK, Shut
<1> QED
    BY <1>1, <1>2, <1>3, <1>4, <1>5, Zenon DEF SideOK, Shut

-----------------------------------------------------------------------------
(* The channel, the end of a transfer, and the signals in turn *)

\* onopen: the page creates its engine, then the session becomes "connected".
LEMMA OpenSide ==
    ASSUME NEW i \in Sides, NEW p, NEW s, NEW ts, NEW w, NEW f, SideOK(i, p, s, ts, w, f),
           s.connection \in {"new", "connected"},
           s.channel = IF i = "sender" THEN "made" ELSE "none",
           i = "recipient" => "handshake_answer" \in f
    PROVE  SideOK(i, CreateFileEngine(p, Opened(s)), SetState(Opened(s), "connected"), ts, w, f)
<1> DEFINE o == Opened(s)
           t == SetState(o, "connected")
           q == CreateFileEngine(p, o)
<1>0. IsPage(p) /\ IsSession(s) /\ SessionOK(s)
    BY Zenon DEF SideOK, SideType
<1>1. /\ o.channel = "open" /\ o.remote = s.remote /\ o.connection = s.connection
      /\ o.pending = s.pending /\ o.flush = s.flush /\ o.added = s.added /\ o.lost = s.lost
      /\ o.received = s.received /\ o.material = s.material /\ IsSession(o)
    BY <1>0, Zenon DEF IsSession, SessionFields, Opened
<1> HIDE DEF o
<1>2. Calm(o, t) /\ t.state = "connected"
    BY <1>1, SetStateCalm
<1>3. /\ Alike(p, q) /\ (p.held /\ o.channel = "open" /\ o.material => q.engine # "none")
    BY <1>0, EngineAlike, Zenon
<1> HIDE DEF t, q
<1>4. SideOK(i, q, s, ts, w, f)
    BY <1>3, AlikeSide, Zenon
<1>5. p.held /\ q.held /\ s.channel # "closed"
    <2>1. s.channel # "closed" /\ s.connection \notin {"none", "closed"}
        OBVIOUS
    <2>2. p.held
        BY <2>1, Zenon DEF SideOK, Tied
    <2> QED
        BY <1>3, <2>1, <2>2, Zenon DEF Alike
<1>6. ~p.reloaded => s.material
    <2>1. CASE i = "sender"
        <3>1. s.channel # "none"
            BY <2>1
        <3> QED
            BY <2>1, <3>1, Zenon DEF SideOK, SenderKeyOK
    <2>2. CASE i = "recipient"
        BY <2>2, Zenon DEF SideOK, RecipientKeyOK
    <2> QED
        BY <2>1, <2>2, Zenon DEF Sides
<1>7. t.channel = "open" /\ t.remote = s.remote /\ t.state # "closed" /\ IsSession(t)
    <2>1. t.state # "closed"
        BY <1>2
    <2> QED
        BY <1>1, <1>2, <2>1, Zenon DEF Calm
<1>8. SessionOK(t)
    BY <1>0, <1>1, <1>2, <1>7, ZenonT(60) DEF SessionOK, Calm
<1>9. Tied(q, t, ts)
    BY <1>1, <1>2, <1>3, <1>5, <1>6, Zenon DEF SideOK, Tied, Alike, Calm
<1>10. i = "sender" => SenderKeyOK(t.channel, t.material, ts, w, f)
    <2>1. i = "sender" => s.channel # "none"
        OBVIOUS
    <2> QED
        BY <1>1, <1>2, <2>1, Zenon DEF SideOK, SenderKeyOK, Calm
<1>11. i = "recipient" => RecipientKeyOK(q.reloaded, t.material, f)
    BY <1>1, <1>2, <1>4, Zenon DEF SideOK, RecipientKeyOK, Calm
<1>12. Described(Description(i), q.loads, q.todo, t.remote, ts, w, f)
    BY <1>4, <1>7, Zenon DEF SideOK
<1>13. SideType(q, t, w, f)
    BY <1>4, <1>7, Zenon DEF SideOK, SideType
<1>14. SideOK(i, q, t, ts, w, f)
    BY <1>4, <1>8, <1>9, <1>10, <1>11, <1>12, <1>13, Zenon DEF SideOK
<1> QED
    BY <1>14 DEF q, t, o

\* The sender has checked the answer and makes its channel.
LEMMA MadeSide ==
    ASSUME NEW p, NEW s, NEW ts, NEW us, NEW w, NEW f, SideOK("sender", p, s, ts, w, f),
           "checking" \in ts, s.material, s.connection \notin {"none", "closed"},
           "checking" \notin us, "applying" \in us <=> "applying" \in ts,
           "flushing" \in ts => "flushing" \in us,
           Handling(us) <=> Handling(ts)
    PROVE  SideOK("sender", p, [s EXCEPT !.channel = "made"], us, w, f)
<1> DEFINE t == [s EXCEPT !.channel = "made"]
<1>0. IsPage(p) /\ IsSession(s) /\ SessionOK(s)
    BY Zenon DEF SideOK, SideType
<1>1. /\ t.channel = "made" /\ t.remote = s.remote /\ t.connection = s.connection
      /\ t.pending = s.pending /\ t.flush = s.flush /\ t.added = s.added /\ t.lost = s.lost
      /\ t.state = s.state
      /\ t.received = s.received /\ t.material = s.material /\ IsSession(t)
    BY <1>0, Zenon DEF IsSession, SessionFields
<1> HIDE DEF t
<1>2. /\ s.channel = "none" /\ "handshake_answer" \in f /\ ~Carries(w, "handshake_answer")
      /\ Once(w, "handshake_answer")
    BY Zenon DEF SideOK, SenderKeyOK
<1>3. p.held /\ s.state # "closed"
    <2>1. s.channel # "closed" /\ s.connection # "closed"
        BY <1>2
    <2> QED
        BY <1>0, <2>1, Zenon DEF SideOK, Tied, SessionOK
<1>4. SessionOK(t)
    BY <1>0, <1>1, <1>3, Zenon DEF SessionOK
<1>5. Tied(p, t, us)
    <2>1. t.channel # "open"
        BY <1>1
    <2> QED
        BY <1>1, <1>3, <2>1, Zenon DEF SideOK, Tied
<1>6. SenderKeyOK(t.channel, t.material, us, w, f)
    BY <1>1, <1>2, Zenon DEF SenderKeyOK
<1>7. Taken(t.remote, us) <=> Taken(s.remote, ts)
    BY <1>1, Zenon DEF Taken
<1>8. Described(Description("sender"), p.loads, p.todo, t.remote, us, w, f)
    BY <1>1, <1>7, Zenon DEF SideOK, Described
<1>9. SideOK("sender", p, t, us, w, f)
    <2>1. "sender" # "recipient"
        OBVIOUS
    <2> QED
        BY <1>1, <1>4, <1>5, <1>6, <1>8, <2>1, Zenon DEF SideOK, SideType
<1> QED
    BY <1>9 DEF t

\* The answer to cancel or reject: the page gives the transfer up.
GivenUp(p, x) == [p EXCEPT !.cancelled = TRUE, !.cleaning = TRUE, !.listed = x]

LEMMA GiveUpSide ==
    ASSUME NEW i, NEW p, NEW s, NEW ts, NEW w, NEW f, SideOK(i, p, s, ts, w, f),
           NEW x
    PROVE  SideOK(i, GivenUp(p, x), s, ts, w, f) /\ GivenUp(p, x).cancelled = TRUE
<1> DEFINE q == GivenUp(p, x)
<1>1. IsPage(p)
    BY Zenon DEF SideOK, SideType
<1>3. /\ q.loads = p.loads /\ q.todo = p.todo /\ q.held = p.held /\ q.listed = x
      /\ q.cancelled = TRUE /\ q.cleaning = TRUE
      /\ q.reloaded = p.reloaded /\ q.strays = p.strays /\ q.taken = p.taken
      /\ q.queued = p.queued /\ q.busy = p.busy /\ q.engine = p.engine /\ q.run = p.run
      /\ q = [k \in PageFields |-> q[k]]
    BY <1>1, Zenon DEF IsPage, PageFields, GivenUp
<1> HIDE DEF q
<1>4. IsPage(q)
    BY <1>1, <1>3, Zenon DEF IsPage
<1>5. PageOK(q) /\ (i = "sender" => SenderPageOK(q)) /\ Tied(q, s, ts)
    <2>1. PageOK(p) /\ (i = "sender" => SenderPageOK(p)) /\ Tied(p, s, ts)
        BY Zenon DEF SideOK
    <2>2. PageOK(q)
        BY <1>3, <2>1, Zenon DEF PageOK
    <2>3. i = "sender" => SenderPageOK(q)
        BY <1>3, <2>1, Zenon DEF SenderPageOK
    <2>4. Tied(q, s, ts)
        BY <1>3, <2>1, Zenon DEF Tied
    <2> QED
        BY <2>2, <2>3, <2>4, Zenon
<1>6. Described(Description(i), q.loads, q.todo, s.remote, ts, w, f)
    BY <1>3, Zenon DEF SideOK
<1>7. SideOK(i, q, s, ts, w, f)
    BY <1>3, <1>4, <1>5, <1>6, Zenon DEF SideOK, SideType
<1> QED
    BY <1>3, <1>7, Zenon DEF q

\* A session that is let go open was closed already.
LEMMA LetGoFacts ==
    ASSUME NEW p, IsPage(p), NEW s, IsSession(s), Accounted(p.strays)
    PROVE  LET q == LetGo(p, s, Close(s)) IN
           /\ IsPage(q) /\ Accounted(q.strays)
           /\ q = [p EXCEPT !.strays = q.strays]
<1> DEFINE x == p.strays \cup {s.state}
           q == [p EXCEPT !.strays = x]
<1>1. CASE IsOpen(Close(s))
    <2>1. s.state = "closed"
        <3>1. CASE s.state # "closed"
            <4> DEFINE a == SetState(s, "closed")
                       c == IF a.channel = "none" THEN a.channel ELSE "closed"
                       t == [a EXCEPT !.channel = c, !.connection = "closed"]
            <4>1. a = [k \in SessionFields |-> a[k]]
                BY Zenon DEF SetState, IsSession, SessionFields
            <4>2. Close(s) = t
                BY <3>1, Zenon DEF Close
            <4> HIDE DEF a, c
            <4>3. t.connection = "closed"
                BY <4>1, Zenon DEF SessionFields
            <4> HIDE DEF t
            <4> QED
                BY <1>1, <4>2, <4>3 DEF IsOpen
        <3> QED
            BY <3>1
    <2>2. Accounted(x)
        BY <2>1 DEF Accounted
    <2>3. LetGo(p, s, Close(s)) = q
        BY <1>1, Zenon DEF LetGo
    <2> HIDE DEF x
    <2>4. IsPage(q) /\ q.strays = x
        BY Zenon DEF IsPage, PageFields
    <2> QED
        BY <2>2, <2>3, <2>4, Zenon
<1>2. CASE ~IsOpen(Close(s))
    <2>1. p = [p EXCEPT !.strays = p.strays]
        BY Zenon DEF IsPage, PageFields
    <2> QED
        BY <1>2, <2>1, Zenon DEF LetGo
<1> QED
    BY <1>1, <1>2, Zenon

\* The page that CleanedUp() leaves of the page p.
Left(p, kept) ==
    [kept EXCEPT !.cleaning = FALSE, !.busy = "no", !.held = FALSE, !.queued = << >>,
                 !.engine = IF NoEngine(p) THEN @ ELSE "over",
                 !.selected = FALSE, !.sent = FALSE, !.run = "cancelled"]

LEMMA CleanedSide ==
    ASSUME NEW i, NEW p, NEW s, NEW ts, NEW w, NEW f, SideOK(i, p, s, ts, w, f), p.cancelled,
           NEW kept, kept = IF p.held THEN LetGo(p, s, Close(s)) ELSE p
    PROVE  /\ SideOK(i, Left(p, kept), IF p.held THEN Close(s) ELSE s, ts, w, f)
           /\ Waiting(p) => Waiting(Left(p, kept))
<1> DEFINE t == IF p.held THEN Close(s) ELSE s
           e == IF NoEngine(p) THEN p.engine ELSE "over"
           d == IF NoEngine(p) THEN kept.engine ELSE "over"
           q == [kept EXCEPT !.cleaning = FALSE, !.busy = "no", !.held = FALSE, !.queued = << >>,
                          !.engine = d, !.selected = FALSE, !.sent = FALSE, !.run = "cancelled"]
<1>1. IsPage(p) /\ IsSession(s) /\ SessionOK(s) /\ PageOK(p)
    BY Zenon DEF SideOK, SideType
<1>2. Left(p, kept) = q
    BY Zenon DEF Left
<1>3. /\ e # "live" /\ (p.engine # "none" => e # "none")
      /\ EngineOK(e, "cancelled", p.taken)
    <2>1. EngineOK(p.engine, p.run, p.taken)
        BY <1>1, Zenon DEF PageOK
    <2> QED
        BY <2>1 DEF NoEngine, EngineOK
<1>k. /\ kept.loads = p.loads /\ kept.todo = p.todo /\ kept.listed = p.listed
      /\ kept.cancelled = p.cancelled /\ kept.reloaded = p.reloaded /\ kept.taken = p.taken
      /\ kept.engine = p.engine /\ IsPage(kept) /\ Accounted(kept.strays)
    <2>1. CASE p.held
        <3>1. kept = [p EXCEPT !.strays = kept.strays] /\ IsPage(kept) /\ Accounted(kept.strays)
            BY <1>1, <2>1, LetGoFacts, Zenon DEF PageOK
        <3> QED
            BY <1>1, <3>1, Zenon DEF IsPage, PageFields
    <2>2. CASE ~p.held
        BY <1>1, <2>2, Zenon DEF PageOK
    <2> QED
        BY <2>1, <2>2, Zenon
<1>d. d = e
    BY <1>k, Zenon
<1> HIDE DEF e, d
<1>4. /\ q.loads = p.loads /\ q.todo = p.todo /\ q.held = FALSE /\ q.listed = p.listed
      /\ q.cancelled = p.cancelled /\ q.cleaning = FALSE
      /\ q.reloaded = p.reloaded /\ q.strays = kept.strays /\ q.taken = p.taken
      /\ q.queued = << >> /\ q.busy = "no" /\ q.engine = e /\ q.run = "cancelled"
      /\ q = [k \in PageFields |-> q[k]]
    <2>1. /\ q.loads = kept.loads /\ q.todo = kept.todo /\ q.held = FALSE /\ q.listed = kept.listed
          /\ q.cancelled = kept.cancelled /\ q.cleaning = FALSE
          /\ q.reloaded = kept.reloaded /\ q.strays = kept.strays /\ q.taken = kept.taken
          /\ q.queued = << >> /\ q.busy = "no" /\ q.engine = d /\ q.run = "cancelled"
          /\ q = [k \in PageFields |-> q[k]]
        BY <1>k, ZenonT(60) DEF IsPage, PageFields
    <2> QED
        BY <1>k, <1>d, <2>1, Zenon
<1> HIDE DEF q
<1>5. << >> \in Seq(Message) /\ RecipientPageOK(<< >>) /\ "no" # "create"
    BY DEF RecipientPageOK
<1>6. IsPage(q)
    BY <1>1, <1>4, <1>5, Zenon DEF IsPage
<1>7. PageOK(q) /\ (i = "sender" => SenderPageOK(q))
    <2>1. PageOK(q)
        BY <1>1, <1>3, <1>4, <1>k, Zenon DEF PageOK
    <2> QED
        BY <1>4, <1>5, <2>1, Zenon DEF SideOK, SenderPageOK
<1>8. SideOK(i, p, t, ts, w, f) /\ t.channel # "open"
      /\ (t.connection \in {"none", "closed"} \/ t.channel = "closed")
    <2>1. CASE p.held
        <3>1. Shut(s, Close(s))
            BY <1>1, CloseShut, Zenon
        <3>2. SideOK(i, p, Close(s), ts, w, f)
            BY <3>1, ShutSide, Zenon
        <3> QED
            BY <2>1, <3>1, <3>2, Zenon DEF Shut
    <2>2. CASE ~p.held
        BY <2>2, Zenon DEF SideOK, Tied
    <2> QED
        BY <2>1, <2>2, Zenon
<1> HIDE DEF t
<1>9. Tied(q, t, ts)
    BY <1>3, <1>4, <1>8, Zenon DEF SideOK, Tied
<1>10. i = "recipient" => RecipientPageOK(q.queued) /\ RecipientKeyOK(q.reloaded, t.material, f)
    BY <1>4, <1>5, <1>8, Zenon DEF SideOK
<1>11. Described(Description(i), q.loads, q.todo, t.remote, ts, w, f)
    BY <1>4, <1>8, Zenon DEF SideOK
<1>12. SideOK(i, q, t, ts, w, f)
    BY <1>6, <1>7, <1>8, <1>9, <1>10, <1>11, Zenon DEF SideOK, SideType
<1>13. Waiting(p) => Waiting(q)
    BY <1>4, Zenon DEF Waiting
<1> QED
    BY <1>2, <1>12, <1>13, Zenon DEF t

\* A new page, or none: nothing is left of the old one but what went astray.
Renewed(q) ==
    /\ q.loads = << >> /\ q.todo = << >> /\ q.held = FALSE
    /\ q.cancelled = FALSE /\ q.cleaning = FALSE
    /\ q.reloaded = TRUE /\ Accounted(q.strays) /\ q.taken = FALSE
    /\ q.queued = << >> /\ q.busy = "no" /\ q.engine = "none"
    /\ q = [k \in PageFields |-> q[k]]

LEMMA RenewedSide ==
    ASSUME NEW i, NEW p, NEW s, NEW ts, NEW w, NEW f, SideOK(i, p, s, ts, w, f),
           NEW q, Renewed(q)
    PROVE  SideOK(i, q, NoSession, {}, w, f)
<1>1. Renewed(q)
    OBVIOUS
<1>2. /\ << >> \in Seq(Message) /\ << >> \in Seq(Loads) /\ Len(<< >>) <= 1
      /\ \A k \in DOMAIN << >> : FALSE
    OBVIOUS
<1>3. \A t : ~Carries(<< >>, t) /\ Once(<< >>, t) /\ ~Awaited(<< >>, t)
    BY <1>2, EmptyCarries, Zenon DEF Awaited
<1>4. IsPage(q)
    BY <1>1, <1>2, Zenon DEF IsPage, Renewed
<1>5. PageOK(q) /\ (i = "sender" => SenderPageOK(q)) /\ RecipientPageOK(q.queued)
    <2>1. "none" # "live" /\ "no" # "create" /\ EngineOK("none", q.run, q.taken)
        BY DEF EngineOK
    <2>2. PageOK(q)
        BY <1>1, <1>2, <2>1, Zenon DEF PageOK, Renewed
    <2> QED
        BY <1>1, <1>2, <2>1, <2>2, Zenon DEF SenderPageOK, RecipientPageOK, Renewed
<1>6. Tied(q, NoSession, {})
    <2>1. "none" # "open" /\ NoSession.flush = {}
        BY NoSessionFacts DEF SessionOK
    <2> QED
        BY <1>1, <2>1, NoSessionFacts, Zenon DEF Tied, Renewed
<1>7. /\ i = "sender" => SenderKeyOK(NoSession.channel, NoSession.material, {}, w, f)
      /\ RecipientKeyOK(q.reloaded, NoSession.material, f)
    BY <1>1, NoSessionFacts, Zenon DEF SideOK, SenderKeyOK, RecipientKeyOK, Renewed
<1>8. ~Taken(NoSession.remote, {})
    BY NoSessionFacts, Zenon DEF Taken
<1>9. Described(Description(i), << >>, << >>, NoSession.remote, {}, w, f)
    <2> DEFINE d == Description(i)
    <2>1. Once(w, d) /\ (Carries(w, d) => d \in f)
        BY Zenon DEF SideOK, Described
    <2> HIDE DEF d
    <2>2. Described(d, << >>, << >>, NoSession.remote, {}, w, f)
        BY <1>2, <1>3, <1>8, <2>1, Zenon DEF Described
    <2> QED
        BY <2>2 DEF d
<1>10. Described(Description(i), q.loads, q.todo, NoSession.remote, {}, w, f)
    BY <1>1, <1>9, Zenon DEF Renewed
<1> QED
    BY <1>2, <1>4, <1>5, <1>6, <1>7, <1>10, NoSessionFacts, Zenon DEF SideOK, SideType

LEMMA ReloadRenewed ==
    ASSUME NEW x
    PROVE  Renewed([NewPage EXCEPT !.reloaded = TRUE, !.listed = x])
<1> DEFINE q == [NewPage EXCEPT !.reloaded = TRUE, !.listed = x]
<1>1. /\ q.loads = << >> /\ q.todo = << >> /\ q.held = FALSE
      /\ q.cancelled = FALSE /\ q.cleaning = FALSE
      /\ q.reloaded = TRUE /\ q.strays = {} /\ q.taken = FALSE
      /\ q.queued = << >> /\ q.busy = "no" /\ q.engine = "none"
      /\ q = [k \in PageFields |-> q[k]]
    BY ZenonT(60) DEF NewPage, PageFields
<1> HIDE DEF q
<1>2. Accounted(q.strays)
    BY <1>1 DEF Accounted
<1>3. Renewed(q)
    BY <1>1, <1>2, Zenon DEF Renewed
<1> QED
    BY <1>3 DEF q

LEMMA UnmountRenewed ==
    ASSUME NEW x, NEW y, Accounted(y)
    PROVE  Renewed([NewPage EXCEPT !.reloaded = TRUE, !.mounted = FALSE, !.ghosts = x, !.strays = y])
<1> DEFINE q == [NewPage EXCEPT !.reloaded = TRUE, !.mounted = FALSE, !.ghosts = x, !.strays = y]
<1>1. /\ q.loads = << >> /\ q.todo = << >> /\ q.held = FALSE
      /\ q.cancelled = FALSE /\ q.cleaning = FALSE
      /\ q.reloaded = TRUE /\ q.strays = y /\ q.taken = FALSE
      /\ q.queued = << >> /\ q.busy = "no" /\ q.engine = "none"
      /\ q = [k \in PageFields |-> q[k]]
    BY ZenonT(60) DEF NewPage, PageFields
<1> HIDE DEF q
<1>2. Renewed(q)
    BY <1>1, Zenon DEF Renewed
<1> QED
    BY <1>2 DEF q

\* A signal is done, or has thrown: the driver goes on to the next, or stops.
LEMMA DoneSide ==
    ASSUME NEW i \in Sides, NEW p, NEW s, NEW ts, NEW w, NEW f, SideOK(i, p, s, ts, w, f),
           NEW type, NEW q, q \in {Done(p, type), Threw(p, type)}
    PROVE  /\ SideOK(i, q, s, ts, w, f) /\ (Waiting(p) => Waiting(q))
           /\ type = Description(i) \/ i = "sender" =>
                 ~(Carries(q.todo, Description(i)) /\ Taken(s.remote, ts))
<1> DEFINE d == Description(i)
           Post(x) == /\ SideOK(i, x, s, ts, w, f) /\ (Waiting(p) => Waiting(x))
                      /\ type = d \/ i = "sender" => ~(Carries(x.todo, d) /\ Taken(s.remote, ts))
<1>1. /\ IsPage(p) /\ p.todo \in Seq(Message)
      /\ Described(d, p.loads, p.todo, s.remote, ts, w, f)
      /\ i = "sender" => p.todo = << >>
    BY Zenon DEF SideOK, SideType, IsPage, SenderPageOK
<1>2. /\ << >> \in Seq(Message)
      /\ ~Carries(<< >>, d) /\ Once(<< >>, d) /\ ~Carries(<< >>, "sdp_answer")
    BY EmptyCarries
<1>3. CASE ~(p.todo # << >> /\ Head(p.todo).type = type)
    <2>1. Post(p)
        BY <1>1, <1>2, <1>3, Zenon DEF Described
    <2>2. Post(Failed(p))
        <3>1. Alike(p, Failed(p)) /\ (Waiting(p) => Waiting(Failed(p)))
            BY <1>1, FailedAlike, Zenon
        <3> QED
            BY <2>1, <3>1, AlikeSide, Zenon DEF Alike
    <2> QED
        BY <1>3, <2>1, <2>2, Zenon DEF Done, Threw
<1>4. CASE p.todo # << >> /\ Head(p.todo).type = type
    <2>1. /\ Tail(p.todo) \in Seq(Message)
          /\ Carries(Tail(p.todo), d) => Carries(p.todo, d)
          /\ Carries(Tail(p.todo), "sdp_answer") => Carries(p.todo, "sdp_answer")
          /\ Once(p.todo, d) => Once(Tail(p.todo), d)
          /\ Once(p.todo, d) /\ type = d => ~Carries(Tail(p.todo), d)
        BY <1>1, <1>4, TailCarries, Zenon
    <2>2. Once(Tail(p.todo), d) /\ ~Carries(Tail(p.todo), "sdp_answer")
        BY <1>1, <2>1, Zenon DEF Described
    <2>3. Carries(Tail(p.todo), d) => Carries(p.todo, d) /\ ~Taken(s.remote, ts)
        BY <1>1, <1>4, <2>1, Zenon DEF Described
    <2>4. Post([p EXCEPT !.todo = Tail(p.todo)])
        <3> DEFINE x == [p EXCEPT !.todo = Tail(p.todo)]
        <3>1. SideOK(i, x, s, ts, w, f) /\ (Waiting(p) => Waiting(x)) /\ x.todo = Tail(p.todo)
            BY <1>4, <2>1, <2>2, <2>3, TodoSide, Zenon
        <3> HIDE DEF x
        <3>2. Post(x)
            BY <2>3, <3>1, Zenon
        <3> QED
            BY <3>2, Zenon DEF x
    <2>5. Post(Failed([p EXCEPT !.todo = << >>]))
        <3> DEFINE x == [p EXCEPT !.todo = << >>]
        <3>1. /\ SideOK(i, x, s, ts, w, f) /\ (Waiting(p) => Waiting(x)) /\ x.todo = << >>
              /\ IsPage(x)
            BY <1>2, TodoSide, ZenonT(60)
        <3> HIDE DEF x
        <3>2. Alike(x, Failed(x)) /\ (Waiting(x) => Waiting(Failed(x)))
            BY <3>1, FailedAlike, Zenon
        <3>3. SideOK(i, Failed(x), s, ts, w, f) /\ Failed(x).todo = << >>
            BY <3>1, <3>2, AlikeSide, Zenon DEF Alike
        <3>4. Post(Failed(x))
            BY <1>2, <3>1, <3>2, <3>3, Zenon
        <3> QED
            BY <3>4, Zenon DEF x
    <2>6. /\ Done(p, type) = [p EXCEPT !.todo = Tail(p.todo)]
          /\ Threw(p, type) = Failed([p EXCEPT !.todo = << >>])
        BY <1>4, Zenon DEF Done, Threw
    <2>7. Post(q)
        BY <2>4, <2>5, <2>6, Zenon
    <2> QED
        BY <2>7, Zenon
<1> QED
    BY <1>3, <1>4, Zenon

-----------------------------------------------------------------------------
(* Steps *)

LEMMA OtherFacts ==
    ASSUME NEW i \in Sides
    PROVE  /\ Other(i) \in Sides /\ Other(i) # i
           /\ \A j \in Sides : j # i => j = Other(i)
           /\ \A j \in Sides : j # Other(i) => j = i
BY DEF Sides, Other

\* g is f but for the entry of side i, which is x.
Put(f, g, i, x) == Pair(g) /\ g[i] = x /\ \A j \in Sides : j # i => g[j] = f[j]

\* One side of a pair is replaced.
LEMMA SetSide ==
    ASSUME NEW i \in Sides, NEW f, Pair(f), NEW x,
           NEW g, g = [f EXCEPT ![i] = x]
    PROVE  Put(f, g, i, x)
<1>1. DOMAIN f = Sides
    BY Zenon DEF Pair
<1> QED
    BY <1>1, Zenon DEF Pair, Put

\* What a step of side i leaves alone.
Others(i) ==
    \A j \in Sides : j # i =>
        page'[j] = page[j] /\ session'[j] = session[j] /\ tasks'[j] = tasks[j]

\* A step of side i that sends nothing.
LEMMA OwnStep ==
    ASSUME PageInv, NEW i \in Sides, Shape', Others(i), \A j \in Sides : j # i => wire'[j] = wire[j],
           SideOK(i, page'[i], session'[i], tasks'[i], wire'[i], forwarded),
           UNCHANGED forwarded,
           row' = "none" => row = "none",
           i = "sender" => (row = "none" /\ Waiting(page[i]) => Waiting(page'[i]))
    PROVE  PageInv'
<1>1. \A j \in Sides : SideOK(j, page'[j], session'[j], tasks'[j], wire'[j], forwarded')
    BY Zenon DEF PageInv, Others
<1>2. BeforeOffer'
    <2>1. CASE i = "sender"
        BY <2>1, Zenon DEF PageInv, BeforeOffer
    <2>2. CASE i # "sender"
        BY <2>2, Zenon DEF PageInv, BeforeOffer, Others, Sides
    <2> QED
        BY <2>1, <2>2, Zenon
<1> QED
    BY <1>1, <1>2, Zenon DEF PageInv

\* A step of side i whose last act is to send a message, or to try to.
LEMMA SendStep ==
    ASSUME PageInv, NEW i \in Sides, Shape', Others(i),
           NEW m \in Message, m.type \in Inbound(Other(i)), Emit(i, m),
           SideOK(i, page'[i], session'[i], tasks'[i], wire[i], forwarded),
           i = "recipient" /\ m.type = "handshake_answer" => session'[i].material,
           UNCHANGED row,
           i = "sender" => (row = "none" /\ Waiting(page[i]) => Waiting(page'[i]))
    PROVE  PageInv'
<1> DEFINE j == Other(i)
           g == forwarded \cup ({m.type} \cap SingleUse)
<1>1. j \in Sides /\ j # i /\ \A k \in Sides : k = i \/ k = j
    BY OtherFacts, Zenon
<1> HIDE DEF j
<1>2. SideOK(j, page[j], session[j], tasks[j], wire[j], forwarded) /\ Pair(wire)
    BY <1>1, Zenon DEF PageInv, Shape
<1> SUFFICES /\ SideOK(j, page'[j], session'[j], tasks'[j], wire'[j], forwarded')
             /\ SideOK(i, page'[i], session'[i], tasks'[i], wire'[i], forwarded')
    <2>1. BeforeOffer'
        <3>1. CASE i = "sender"
            BY <3>1, Zenon DEF PageInv, BeforeOffer
        <3>2. CASE i # "sender"
            BY <3>2, Zenon DEF PageInv, BeforeOffer, Others, Sides
        <3> QED
            BY <3>1, <3>2, Zenon
    <2> QED
        BY <1>1, <2>1, Zenon DEF PageInv
<1>3. CASE Live /\ m.type \notin forwarded
    <2>1. wire' = [wire EXCEPT ![j] = Append(wire[j], m)] /\ forwarded' = g
        BY <1>3, Zenon DEF Emit, j
    <2>2. wire'[j] = Append(wire[j], m) /\ wire'[i] = wire[i]
        <3>1. Put(wire, wire', j, Append(wire[j], m))
            BY <1>1, <1>2, <2>1, SetSide, Zenon
        <3> QED
            BY <1>1, <3>1, Zenon DEF Put
    <2>3. SideOK(j, page[j], session[j], tasks[j], Append(wire[j], m), g)
        BY <1>1, <1>2, <1>3, ArriveSide, Zenon DEF j
    <2>4. g \in SUBSET SingleUse /\ forwarded \subseteq g
        BY Zenon DEF PageInv, SideOK, SideType
    <2>5. i = "recipient" => RecipientKeyOK(page'[i].reloaded, session'[i].material, g)
        <3>1. "handshake_answer" \in g => "handshake_answer" \in forwarded \/ m.type = "handshake_answer"
            BY Zenon
        <3>2. i = "recipient" => RecipientKeyOK(page'[i].reloaded, session'[i].material, forwarded)
            BY Zenon DEF SideOK
        <3> QED
            BY <3>1, <3>2, Zenon DEF RecipientKeyOK
    <2> HIDE DEF g
    <2>6. SideOK(i, page'[i], session'[i], tasks'[i], wire[i], g)
        BY <2>4, <2>5, GrowSide, Zenon
    <2> QED
        BY <1>1, <2>1, <2>2, <2>3, <2>6, Zenon DEF Others
<1>4. CASE ~(Live /\ m.type \notin forwarded)
    BY <1>1, <1>2, <1>4, Zenon DEF Emit, Others
<1> QED
    BY <1>3, <1>4, Zenon

\* What may be done with a signal m when the page is p: a description is
\* nowhere else, and the sender has not had its answer.
Fits(i, m, p, s, ts, w, f) ==
    /\ m.type \in {"sdp_offer", "sdp_answer"} =>
        /\ Description(i) \in f /\ ~Carries(w, Description(i)) /\ ~Awaited(p.loads, Description(i))
        /\ ~Taken(s.remote, ts)
        /\ Carries(p.todo, Description(i)) => Head(p.todo).type = Description(i)
    /\ m.type \in {"handshake_offer", "handshake_answer"} /\ i = "sender" => Unanswered(s, ts, w, f)

\* handleSignal, whoever calls it.
LEMMA HandleSide ==
    ASSUME Shape, NEW i \in Sides, NEW m, NEW p, NEW handled, NEW threw, NEW w, NEW f,
           SideOK(i, p, session[i], tasks[i], w, f),
           SideOK(i, handled, session[i], tasks[i], w, f),
           SideOK(i, threw, session[i], tasks[i], w, f),
           p.held \/ p.cancelled, handled.held \/ handled.cancelled,
           Fits(i, m, p, session[i], tasks[i], w, f),
           HandleSignal(i, m, p, handled, threw)
    PROVE  /\ SideOK(i, page'[i], session'[i], tasks'[i], w, f)
           /\ Pair(page')
           /\ Pair(session')
           /\ Pair(tasks')
           /\ Others(i)
           /\ page'[i] \in {p, handled, threw}
<1> DEFINE s == session[i]
           ts == tasks[i]
<1>1. /\ Pair(page) /\ Pair(session)
      /\ Pair(tasks)
    BY Zenon DEF Shape
<1>2. IsSession(s) /\ SessionOK(s)
    BY Zenon DEF SideOK, SideType
<1>3. ASSUME NEW x, page' = [page EXCEPT ![i] = x]
      PROVE  /\ page'[i] = x /\ Pair(page')
             /\ \A j \in Sides : j # i => page'[j] = page[j]
    <2>1. Put(page, page', i, x)
        BY <1>1, <1>3, SetSide, Zenon
    <2> QED
        BY <2>1, Zenon DEF Put
<1>4. ASSUME NEW x, session' = [session EXCEPT ![i] = x]
      PROVE  /\ session'[i] = x /\ Pair(session')
             /\ \A j \in Sides : j # i => session'[j] = session[j]
    <2>1. Put(session, session', i, x)
        BY <1>1, <1>4, SetSide, Zenon
    <2> QED
        BY <2>1, Zenon DEF Put
<1>5. ASSUME NEW x, tasks' = [tasks EXCEPT ![i] = x]
      PROVE  /\ tasks'[i] = x /\ Pair(tasks')
             /\ \A j \in Sides : j # i => tasks'[j] = tasks[j]
    <2>1. Put(tasks, tasks', i, x)
        BY <1>1, <1>5, SetSide, Zenon
    <2> QED
        BY <2>1, Zenon DEF Put
<1>6. CASE /\ s.state = "closed"
           /\ page' = [page EXCEPT ![i] = handled]
           /\ UNCHANGED <<session, tasks, troubles>>
    BY <1>1, <1>3, <1>6, Zenon DEF Others
<1>7. CASE /\ page' = [page EXCEPT ![i] = handled] /\ UNCHANGED <<tasks, troubles>>
           /\ session' = [session EXCEPT ![i] = TakeCandidate(s, m.n)]
    <2>1. Sorted(s, TakeCandidate(s, m.n)) /\ TakeCandidate(s, m.n).remote = s.remote
        BY <1>2, TakeCandidateFacts, Zenon
    <2>2. SideOK(i, handled, TakeCandidate(s, m.n), tasks[i], w, f)
        BY <2>1, SortedSide, Zenon
    <2>3. page'[i] = handled /\ session'[i] = TakeCandidate(s, m.n) /\ tasks' = tasks
        BY <1>3, <1>4, <1>7, Zenon
    <2> QED
        BY <1>1, <1>3, <1>4, <1>7, <2>2, <2>3, Zenon DEF Others
<1>8. CASE page' = [page EXCEPT ![i] = threw] /\ UNCHANGED <<session, tasks>>
    BY <1>1, <1>3, <1>8, Zenon DEF Others
<1>9. CASE /\ m.type \in {"handshake_offer", "handshake_answer"}
           /\ \/ /\ tasks' = [tasks EXCEPT ![i] = @ \cup {"checking"}]
                 /\ page' = [page EXCEPT ![i] = p]
              \/ /\ page' = [page EXCEPT ![i] = handled]
                 /\ UNCHANGED tasks
           /\ UNCHANGED <<session, troubles>>
    <2>1. CASE tasks' = [tasks EXCEPT ![i] = @ \cup {"checking"}] /\ page' = [page EXCEPT ![i] = p]
        <3>1. tasks' = [tasks EXCEPT ![i] = ts \cup {"checking"}]
            BY <2>1, Zenon
        <3>2. SideOK(i, p, s, ts \cup {"checking"}, w, f)
            BY <1>9, CheckSide, Zenon DEF Fits
        <3>3. page'[i] = p /\ tasks'[i] = ts \cup {"checking"} /\ session' = session
            BY <1>3, <1>5, <1>9, <2>1, <3>1, Zenon
        <3> QED
            BY <1>1, <1>3, <1>5, <2>1, <3>1, <3>2, <3>3, ZenonT(60) DEF Others
    <2>2. CASE page' = [page EXCEPT ![i] = handled] /\ UNCHANGED tasks
        BY <1>1, <1>3, <1>9, <2>2, Zenon DEF Others
    <2> QED
        BY <1>9, <2>1, <2>2, Zenon
<1>10. CASE /\ m.type \in {"sdp_offer", "sdp_answer"}
            /\ session' = [session EXCEPT ![i] = Negotiate(s)]
            /\ tasks' = [tasks EXCEPT ![i] = @ \cup {"applying"}]
            /\ page' = [page EXCEPT ![i] = p]
    <2>1. tasks' = [tasks EXCEPT ![i] = ts \cup {"applying"}]
        BY <1>10, Zenon
    <2>2. SideOK(i, p, s, ts \cup {"applying"}, w, f)
        BY <1>10, ApplySide, Zenon DEF Fits
    <2>3. Calm(s, Negotiate(s))
        BY <1>2, NegotiateCalm, Zenon
    <2>4. SideOK(i, p, Negotiate(s), ts \cup {"applying"}, w, f)
        BY <2>2, <2>3, CalmSide, Zenon
    <2>5. page'[i] = p /\ tasks'[i] = ts \cup {"applying"} /\ session'[i] = Negotiate(s)
        BY <1>3, <1>4, <1>5, <1>10, <2>1, Zenon
    <2> QED
        BY <1>3, <1>4, <1>5, <1>10, <2>1, <2>4, <2>5, Zenon DEF Others
<1> QED
    BY <1>6, <1>7, <1>8, <1>9, <1>10, Zenon DEF HandleSignal

\* The entry of side i becomes x, or stays x.
Puts(f, g, i, x) == g = [f EXCEPT ![i] = x] \/ (g = f /\ x = f[i])

LEMMA PutsFacts ==
    ASSUME NEW i \in Sides, NEW f, Pair(f), NEW x, NEW g, Puts(f, g, i, x)
    PROVE  Put(f, g, i, x)
<1>1. CASE g = [f EXCEPT ![i] = x]
    BY <1>1, SetSide, Zenon
<1>2. CASE g = f /\ x = f[i]
    BY <1>2, Zenon DEF Put
<1> QED
    BY <1>1, <1>2, Zenon DEF Puts

\* Side i becomes p, s, ts, w and nothing is sent.
LEMMA PutStep ==
    ASSUME PageInv, NEW i \in Sides, NEW p, NEW s, NEW ts, NEW w,
           Puts(page, page', i, p), Puts(session, session', i, s), Puts(tasks, tasks', i, ts),
           Puts(wire, wire', i, w), UNCHANGED forwarded, SideOK(i, p, s, ts, w, forwarded),
           row' = "none" => row = "none",
           i = "sender" => (row = "none" /\ Waiting(page[i]) => Waiting(p))
    PROVE  PageInv'
<1>1. /\ Pair(page) /\ Pair(session)
      /\ Pair(tasks) /\ Pair(wire)
    BY Zenon DEF PageInv, Shape
<1>2. Put(page, page', i, p)
    BY <1>1, PutsFacts, Zenon
<1>3. Put(session, session', i, s)
    BY <1>1, PutsFacts, Zenon
<1>4. Put(tasks, tasks', i, ts)
    BY <1>1, PutsFacts, Zenon
<1>5. Put(wire, wire', i, w)
    BY <1>1, PutsFacts, Zenon
<1>6. Shape' /\ Others(i)
    BY <1>2, <1>3, <1>4, <1>5, Zenon DEF Shape, Others, Put
<1> QED
    BY <1>2, <1>3, <1>4, <1>5, <1>6, OwnStep, Zenon DEF Put

\* The server forwards what is sent to the wire of the other side.
LEMMA EmitShape ==
    ASSUME Pair(wire), NEW i \in Sides, NEW m, Emit(i, m)
    PROVE  Pair(wire')
<1>1. CASE wire' = [wire EXCEPT ![Other(i)] = Append(wire[Other(i)], m)]
    <2>1. Put(wire, wire', Other(i), Append(wire[Other(i)], m))
        BY <1>1, OtherFacts, SetSide, Zenon
    <2> QED
        BY <2>1, Zenon DEF Put
<1>2. CASE wire' = wire
    BY <1>2
<1> QED
    BY <1>1, <1>2, Zenon DEF Emit

\* Side i becomes p, s, ts and sends m, or finds the socket offline.
LEMMA SendPut ==
    ASSUME PageInv, NEW i \in Sides, NEW p, NEW s, NEW ts, NEW m \in Message,
           m.type \in Inbound(Other(i)),
           Puts(page, page', i, p), Puts(session, session', i, s), Puts(tasks, tasks', i, ts),
           SideOK(i, p, s, ts, wire[i], forwarded),
           Emit(i, m), UNCHANGED row,
           i = "recipient" /\ m.type = "handshake_answer" => s.material,
           i = "sender" => (row = "none" /\ Waiting(page[i]) => Waiting(p))
    PROVE  PageInv'
<1>1. /\ Pair(page) /\ Pair(session)
      /\ Pair(tasks) /\ Pair(wire)
    BY Zenon DEF PageInv, Shape
<1>2. Put(page, page', i, p)
    BY <1>1, PutsFacts, Zenon
<1>3. Put(session, session', i, s)
    BY <1>1, PutsFacts, Zenon
<1>4. Put(tasks, tasks', i, ts)
    BY <1>1, PutsFacts, Zenon
<1>5. Pair(wire')
    BY <1>1, EmitShape, Zenon
<1>6. Shape' /\ Others(i)
    BY <1>2, <1>3, <1>4, <1>5, Zenon DEF Shape, Others, Put
<1> QED
    BY <1>2, <1>3, <1>4, <1>6, SendStep, Zenon DEF Put

\* The side that takes a step, before it.
LEMMA Before ==
    ASSUME PageInv, NEW i \in Sides
    PROVE  /\ SideOK(i, page[i], session[i], tasks[i], wire[i], forwarded)
           /\ IsPage(page[i]) /\ IsSession(session[i]) /\ SessionOK(session[i])
BY Zenon DEF PageInv, SideOK, SideType

\* What a page shows, and which of its buttons wait.
LEMMA LightAlike ==
    ASSUME NEW p, IsPage(p), NEW x
    PROVE  /\ Alike(p, [p EXCEPT !.listed = x])
           /\ Alike(p, [p EXCEPT !.queued = << >>])
           /\ Alike(p, [p EXCEPT !.listed = x, !.queued = << >>])
           /\ ~p.taken => Alike(p, [p EXCEPT !.selected = TRUE, !.run = "active"])
           /\ Alike(p, [p EXCEPT !.selected = FALSE])
           /\ x # "create" => Alike(p, [p EXCEPT !.busy = x])
<1>0. << >> \in Seq(Message)
    OBVIOUS
<1> DEFINE Same(q) ==
      /\ q.loads = p.loads /\ q.todo = p.todo /\ q.held = p.held
      /\ q.cancelled = p.cancelled /\ q.cleaning = p.cleaning
      /\ q.reloaded = p.reloaded /\ q.strays = p.strays /\ q.taken = p.taken /\ q.engine = p.engine
      /\ EngineOK(p.engine, p.run, p.taken) => EngineOK(q.engine, q.run, q.taken)
      /\ q = [k \in PageFields |-> q[k]]
<1>1. ASSUME NEW q, Same(q), q.queued = p.queued \/ q.queued = << >>, q.busy = p.busy \/ q.busy # "create"
      PROVE  Alike(p, q)
    <2>1. IsPage(q)
        BY <1>0, <1>1, Zenon DEF IsPage
    <2> QED
        BY <1>1, <2>1, Zenon DEF Alike
<1>2. Alike(p, [p EXCEPT !.listed = x])
    <2> DEFINE q == [p EXCEPT !.listed = x]
    <2>1. Same(q) /\ q.queued = p.queued /\ q.busy = p.busy
        BY Zenon DEF IsPage, PageFields
    <2> QED
        BY <1>1, <2>1, Zenon
<1>3. Alike(p, [p EXCEPT !.queued = << >>])
    <2> DEFINE q == [p EXCEPT !.queued = << >>]
    <2>1. Same(q) /\ q.queued = << >> /\ q.busy = p.busy
        BY Zenon DEF IsPage, PageFields
    <2> QED
        BY <1>1, <2>1, Zenon
<1>4. Alike(p, [p EXCEPT !.listed = x, !.queued = << >>])
    <2> DEFINE q == [p EXCEPT !.listed = x, !.queued = << >>]
    <2>1. Same(q) /\ q.queued = << >> /\ q.busy = p.busy
        BY Zenon DEF IsPage, PageFields
    <2> QED
        BY <1>1, <2>1, Zenon
<1>5. ~p.taken => Alike(p, [p EXCEPT !.selected = TRUE, !.run = "active"])
    <2> DEFINE q == [p EXCEPT !.selected = TRUE, !.run = "active"]
    <2> SUFFICES ASSUME ~p.taken
                 PROVE  Alike(p, q)
        OBVIOUS
    <2>1. EngineOK(p.engine, p.run, p.taken) => EngineOK(p.engine, "active", p.taken)
        BY DEF EngineOK
    <2>2. Same(q) /\ q.queued = p.queued /\ q.busy = p.busy
        BY <2>1, Zenon DEF IsPage, PageFields
    <2> QED
        BY <1>1, <2>2, Zenon
<1>6. Alike(p, [p EXCEPT !.selected = FALSE])
    <2> DEFINE q == [p EXCEPT !.selected = FALSE]
    <2>1. Same(q) /\ q.queued = p.queued /\ q.busy = p.busy
        BY Zenon DEF IsPage, PageFields
    <2> QED
        BY <1>1, <2>1, Zenon
<1>7. x # "create" => Alike(p, [p EXCEPT !.busy = x])
    <2> DEFINE q == [p EXCEPT !.busy = x]
    <2>1. Same(q) /\ q.queued = p.queued /\ q.busy = x
        BY Zenon DEF IsPage, PageFields
    <2> QED
        BY <1>1, <2>1, Zenon
<1> QED
    BY <1>2, <1>3, <1>4, <1>5, <1>6, <1>7, Zenon

-----------------------------------------------------------------------------
(* The actions *)

\* A step that the invariant hardly notices.
LEMMA QuietStep ==
    ASSUME PageInv, NEW i \in Sides, NEW p, NEW s,
           Puts(page, page', i, p), Alike(page[i], p),
           Puts(session, session', i, s), Calm(session[i], s),
           s = session[i] \/ page[i].held \/ page[i].cancelled,
           tasks' = tasks, wire' = wire, forwarded' = forwarded, row' = row,
           i = "sender" => (row = "none" /\ Waiting(page[i]) => Waiting(p))
    PROVE  PageInv'
<1>1. SideOK(i, page[i], session[i], tasks[i], wire[i], forwarded)
    BY Before, Zenon
<1>2. SideOK(i, p, session[i], tasks[i], wire[i], forwarded)
    BY <1>1, AlikeSide, Zenon
<1>3. p.held = page[i].held /\ p.cancelled = page[i].cancelled
    BY Zenon DEF Alike
<1>4. SideOK(i, p, s, tasks[i], wire[i], forwarded)
    <2>1. CASE s = session[i]
        BY <1>2, <2>1, Zenon
    <2>2. CASE page[i].held \/ page[i].cancelled
        BY <1>2, <1>3, <2>2, CalmSide, Zenon
    <2> QED
        BY <2>1, <2>2, Zenon
<1>5. Puts(tasks, tasks', i, tasks[i]) /\ Puts(wire, wire', i, wire[i])
    BY Zenon DEF Puts
<1> QED
    BY <1>4, <1>5, PutStep, Zenon

\* A session that was started, armed or connected is one.
LEMMA SomeSession ==
    ASSUME PageInv, NEW i \in Sides,
           \/ session[i].connection # "none" \/ session[i].channel # "none" \/ session[i].timer
           \/ session[i].remote \/ tasks[i] # {} \/ page[i].todo # << >>
    PROVE  page[i].held \/ page[i].cancelled
<1>1. SideOK(i, page[i], session[i], tasks[i], wire[i], forwarded)
    BY Before, Zenon
<1>2. session[i] # NoSession \/ tasks[i] # {} \/ page[i].todo # << >>
    BY NoSessionFacts, Zenon
<1> QED
    BY <1>1, <1>2, Present, Zenon

LEMMA BecomesStep ==
    ASSUME PageInv, NEW i \in Sides, NEW s, Becomes(i, s), Calm(session[i], s),
           page[i].held \/ page[i].cancelled,
           tasks' = tasks, wire' = wire, forwarded' = forwarded, row' = row
    PROVE  PageInv'
<1> DEFINE p == Shown(page[i], session[i], s)
<1>1. IsPage(page[i])
    BY Before, Zenon
<1>2. Alike(page[i], p) /\ (Waiting(page[i]) => Waiting(p))
    BY <1>1, ShownAlike, Zenon
<1>3. Puts(page, page', i, p) /\ Puts(session, session', i, s)
    BY Zenon DEF Becomes, Puts
<1> HIDE DEF p
<1> QED
    BY <1>2, <1>3, QuietStep, Zenon

LEMMA ConnectsStep ==
    ASSUME PageInv, NEW i \in Sides, Connects(i)
    PROVE  PageInv'
<1> DEFINE s == [session[i] EXCEPT !.connection = "connected"]
<1>1. /\ session[i].connection = "new" /\ Becomes(i, SetState(s, "connected"))
      /\ tasks' = tasks /\ wire' = wire /\ forwarded' = forwarded /\ row' = row
    BY DEF Connects
<1>2. IsSession(session[i])
    BY Before, Zenon
<1>3. Calm(session[i], s)
    BY <1>1, <1>2, ConnectionCalm, ZenonT(60)
<1>4. IsSession(s)
    BY <1>3, Zenon DEF Calm
<1> HIDE DEF s
<1>5. Calm(s, SetState(s, "connected"))
    BY <1>4, SetStateCalm
<1>6. Calm(session[i], SetState(s, "connected"))
    BY <1>3, <1>5, CalmTrans, Zenon
<1>7. session[i].connection # "none"
    BY <1>1
<1> QED
    BY <1>1, <1>6, <1>7, SomeSession, BecomesStep, Zenon

LEMMA ConnectionFailsStep ==
    ASSUME PageInv, NEW i \in Sides, ConnectionFails(i)
    PROVE  PageInv'
<1> DEFINE s == [session[i] EXCEPT !.connection = "failed"]
<1>1. /\ session[i].connection \in {"new", "connected"} /\ Becomes(i, SetState(s, "failed"))
      /\ tasks' = tasks /\ wire' = wire /\ forwarded' = forwarded /\ row' = row
    BY DEF ConnectionFails
<1>2. IsSession(session[i])
    BY Before, Zenon
<1>3. Calm(session[i], s)
    BY <1>1, <1>2, ConnectionCalm, ZenonT(60)
<1>4. IsSession(s)
    BY <1>3, Zenon DEF Calm
<1> HIDE DEF s
<1>5. Calm(s, SetState(s, "failed"))
    BY <1>4, SetStateCalm
<1>6. Calm(session[i], SetState(s, "failed"))
    BY <1>3, <1>5, CalmTrans, Zenon
<1>7. session[i].connection # "none"
    BY <1>1
<1> QED
    BY <1>1, <1>6, <1>7, SomeSession, BecomesStep, Zenon

LEMMA NegotiationTimeoutStep ==
    ASSUME PageInv, NEW i \in Sides, NegotiationTimeout(i)
    PROVE  PageInv'
<1> DEFINE s == [session[i] EXCEPT !.timer = FALSE]
           t == IF s.state = "negotiating" THEN SetState(s, "failed") ELSE s
<1>1. /\ session[i].timer /\ Becomes(i, t)
      /\ tasks' = tasks /\ wire' = wire /\ forwarded' = forwarded /\ row' = row
    BY DEF NegotiationTimeout
<1>2. IsSession(session[i])
    BY Before, Zenon
<1>3. Calm(session[i], s)
    BY <1>2, FieldCalm, ZenonT(60)
<1>4. IsSession(s)
    BY <1>3, Zenon DEF Calm
<1> HIDE DEF s
<1>5. Calm(s, SetState(s, "failed"))
    BY <1>4, SetStateCalm
<1>6. Calm(session[i], t)
    BY <1>3, <1>5, CalmTrans, Zenon
<1> HIDE DEF t
<1> QED
    BY <1>1, <1>6, SomeSession, BecomesStep, Zenon

LEMMA QuietSide ==
    ASSUME NEW i, NEW p, NEW q, NEW s, NEW t, NEW ts, NEW w, NEW f, SideOK(i, p, s, ts, w, f),
           Alike(p, q), Calm(s, t), p.held \/ p.cancelled
    PROVE  SideOK(i, q, t, ts, w, f) /\ (q.held \/ q.cancelled)
<1>1. SideOK(i, q, s, ts, w, f)
    BY AlikeSide, Zenon
<1>2. q.held \/ q.cancelled
    BY Zenon DEF Alike
<1> QED
    BY <1>1, <1>2, CalmSide, Zenon

LEMMA MessageFacts ==
    /\ \A t \in MessageTypes : Signal(t) \in Message /\ Signal(t).type = t
    /\ \A n \in Nat : Candidate(n) \in Message /\ Candidate(n).type = "ice_candidate"
    /\ \A i \in Sides : "ice_candidate" \in Inbound(i) /\ "transfer_ended" \in Inbound(i)
<1>1. \A t \in MessageTypes : Signal(t) \in Message /\ Signal(t).type = t
    BY DEF Signal, Message
<1>2. \A n \in Nat : Candidate(n) \in Message /\ Candidate(n).type = "ice_candidate"
    <2> TAKE n \in Nat
    <2>1. "ice_candidate" \in MessageTypes
        BY DEF MessageTypes
    <2>2. Candidate(n) \in Message
        BY <2>1, SMT DEF Candidate, Message
    <2>3. Candidate(n).type = "ice_candidate"
        BY SMT DEF Candidate
    <2> QED
        BY <2>2, <2>3
<1>3. \A i \in Sides : "ice_candidate" \in Inbound(i) /\ "transfer_ended" \in Inbound(i)
    BY DEF Inbound
<1> QED
    BY <1>1, <1>2, <1>3, Zenon

LEMMA GathersStep ==
    ASSUME PageInv, NEW i \in Sides, Gathers(i)
    PROVE  PageInv'
<1> DEFINE s == [session[i] EXCEPT !.gathered = @ + 1]
           t == SetState(s, "failed")
<1>1. /\ IsOpen(s) /\ tasks' = tasks /\ row' = row
      /\ \/ Sent(i, Candidate(s.gathered)) /\ Becomes(i, s)
         \/ Offline /\ Becomes(i, t)
    BY DEF Gathers
<1>2. IsSession(session[i]) /\ IsPage(page[i])
    BY Before, Zenon
<1>3. session[i].gathered + 1 \in Nat
    BY <1>2 DEF IsSession
<1>4. Calm(session[i], s) /\ s.gathered = session[i].gathered + 1 /\ s.connection = session[i].connection
    <2>1. Calm(session[i], s)
        BY <1>2, <1>3, FieldCalm, Zenon
    <2>2. s.gathered = session[i].gathered + 1 /\ s.connection = session[i].connection
        BY <1>2, Zenon DEF IsSession, SessionFields
    <2> QED
        BY <2>1, <2>2
<1>5. IsSession(s)
    BY <1>4, Zenon DEF Calm
<1> HIDE DEF s
<1>6. Calm(s, t)
    BY <1>5, SetStateCalm
<1>7. Calm(session[i], t)
    BY <1>4, <1>6, CalmTrans, Zenon
<1> HIDE DEF t
<1>8. session[i].connection # "none"
    BY <1>1, <1>4 DEF IsOpen
<1>9. page[i].held \/ page[i].cancelled
    BY <1>8, SomeSession, Zenon
<1>10. CASE Sent(i, Candidate(s.gathered)) /\ Becomes(i, s)
    <2> DEFINE p == Shown(page[i], session[i], s)
    <2>1. Alike(page[i], p) /\ (Waiting(page[i]) => Waiting(p))
        BY <1>2, ShownAlike, Zenon
    <2>2. Puts(page, page', i, p) /\ Puts(session, session', i, s)
        BY <1>10, Zenon DEF Becomes, Puts
    <2> HIDE DEF p
    <2>3. SideOK(i, p, s, tasks[i], wire[i], forwarded)
        BY <1>4, <1>9, <2>1, Before, QuietSide, Zenon
    <2>4. Emit(i, Candidate(s.gathered))
        BY <1>10, Zenon DEF Sent
    <2>5. /\ Candidate(s.gathered) \in Message
          /\ Candidate(s.gathered).type = "ice_candidate"
        BY <1>3, <1>4, MessageFacts, Zenon
    <2>6. Candidate(s.gathered).type \in Inbound(Other(i)) /\ Candidate(s.gathered).type # "handshake_answer"
        BY <2>5, MessageFacts, OtherFacts
    <2>7. Puts(tasks, tasks', i, tasks[i])
        BY <1>1, Zenon DEF Puts
    <2> QED
        BY <1>1, <2>1, <2>2, <2>3, <2>4, <2>5, <2>6, <2>7, SendPut, ZenonT(60)
<1>11. CASE Offline /\ Becomes(i, t)
    <2>1. wire' = wire /\ forwarded' = forwarded
        BY <1>11 DEF Offline
    <2> QED
        BY <1>1, <1>7, <1>9, <1>11, <2>1, BecomesStep, Zenon
<1> QED
    BY <1>1, <1>10, <1>11, Zenon

\* The engine fails, or hears that its peer has given up.
LEMMA OverAlike ==
    ASSUME NEW p, IsPage(p), NEW run
    PROVE  Alike(p, EngineOver(p, run)) /\ (Waiting(p) => Waiting(EngineOver(p, run)))
<1> DEFINE x == IF p.cleaning THEN p.run ELSE run
           q == [p EXCEPT !.engine = "over", !.run = x]
<1>0. EngineOver(p, run) = q
    BY DEF EngineOver, IsPage, PageFields
<1> HIDE DEF x
<1>1. /\ q.loads = p.loads /\ q.todo = p.todo /\ q.held = p.held /\ q.listed = p.listed
      /\ q.cancelled = p.cancelled /\ q.cleaning = p.cleaning
      /\ q.reloaded = p.reloaded /\ q.strays = p.strays /\ q.taken = p.taken
      /\ q.queued = p.queued /\ q.busy = p.busy /\ q.engine = "over"
    BY Zenon DEF IsPage, PageFields
<1>2. IsPage(q)
    BY Zenon DEF IsPage, PageFields
<1> HIDE DEF q
<1>3. q.engine # "none" /\ q.engine # "live" /\ EngineOK(q.engine, q.run, q.taken)
    BY <1>1 DEF EngineOK
<1> QED
    BY <1>0, <1>1, <1>2, <1>3, Zenon DEF Alike, Waiting

LEMMA HearsCancelStep ==
    ASSUME PageInv, NEW i \in Sides, HearsCancel(i)
    PROVE  PageInv'
<1> DEFINE p == EngineOver(page[i], "failed")
<1>1. /\ page' = [page EXCEPT ![i] = p]
      /\ session' = session /\ tasks' = tasks /\ wire' = wire /\ forwarded' = forwarded /\ row' = row
    BY DEF HearsCancel
<1>2. IsPage(page[i]) /\ IsSession(session[i])
    BY Before, Zenon
<1>3. Alike(page[i], p) /\ (Waiting(page[i]) => Waiting(p))
    BY <1>2, OverAlike
<1> HIDE DEF p
<1>4. Puts(page, page', i, p) /\ Puts(session, session', i, session[i])
    BY <1>1, Zenon DEF Puts
<1>5. Calm(session[i], session[i])
    BY <1>2, CalmSelf, Zenon
<1> QED
    BY <1>1, <1>3, <1>4, <1>5, QuietStep, Zenon

LEMMA ChannelClosesStep ==
    ASSUME PageInv, NEW i \in Sides, ChannelCloses(i)
    PROVE  PageInv'
<1> DEFINE q == EngineOver(page[i], "failed")
           p == IF page[i].engine = "live" THEN q ELSE page[i]
           s == SetState([session[i] EXCEPT !.channel = "closed"], "closed")
<1>1. /\ page' = [page EXCEPT ![i] = p] /\ session' = [session EXCEPT ![i] = s]
      /\ session[i].channel = "open"
      /\ tasks' = tasks /\ wire' = wire /\ forwarded' = forwarded /\ row' = row
    BY DEF ChannelCloses
<1>2. IsPage(page[i]) /\ IsSession(session[i]) /\ SessionOK(session[i])
    BY Before, Zenon
<1>3. Alike(page[i], q) /\ (Waiting(page[i]) => Waiting(q))
    BY <1>2, OverAlike
<1>4. Shut(session[i], s)
    BY <1>1, <1>2, ChannelShut, Zenon
<1> HIDE DEF q, s
<1>5. Alike(page[i], p) /\ (Waiting(page[i]) => Waiting(p))
    BY <1>2, <1>3, AlikeSelf, Zenon
<1> HIDE DEF p
<1>6. page[i].held \/ page[i].cancelled
    <2>1. session[i].channel # "none"
        BY <1>1
    <2> QED
        BY <2>1, SomeSession, Zenon
<1>7. SideOK(i, p, session[i], tasks[i], wire[i], forwarded) /\ (p.held \/ p.cancelled)
    BY <1>2, <1>5, <1>6, Before, QuietSide, CalmSelf, Zenon
<1>8. SideOK(i, p, s, tasks[i], wire[i], forwarded)
    BY <1>4, <1>7, ShutSide, Zenon
<1>9. /\ Puts(page, page', i, p) /\ Puts(session, session', i, s)
      /\ Puts(tasks, tasks', i, tasks[i]) /\ Puts(wire, wire', i, wire[i])
    BY <1>1, Zenon DEF Puts
<1> QED
    BY <1>1, <1>5, <1>8, <1>9, PutStep, Zenon

LEMMA ChannelOpensStep ==
    ASSUME PageInv, NEW i \in Sides, ChannelOpens(i)
    PROVE  PageInv'
<1> DEFINE o == Opened(session[i])
           p == CreateFileEngine(page[i], o)
           s == SetState(o, "connected")
<1>1. /\ page' = [page EXCEPT ![i] = p] /\ session' = [session EXCEPT ![i] = s]
      /\ session[i].connection \in {"new", "connected"}
      /\ session[i].channel = IF i = "sender" THEN "made" ELSE "none"
      /\ session["sender"].channel # "none"
      /\ tasks' = tasks /\ wire' = wire /\ forwarded' = forwarded /\ row' = row
    BY DEF ChannelOpens, Reachable
<1>2. "handshake_answer" \in forwarded
    <2>1. "sender" \in Sides
        BY DEF Sides
    <2>2. SideOK("sender", page["sender"], session["sender"], tasks["sender"], wire["sender"], forwarded)
        BY <2>1, Before, Zenon
    <2> QED
        BY <1>1, <2>2, Zenon DEF SideOK, SenderKeyOK
<1>3. SideOK(i, p, s, tasks[i], wire[i], forwarded)
    BY <1>1, <1>2, Before, OpenSide, Zenon
<1>4. Waiting(page[i]) => Waiting(p)
    BY Before, EngineAlike, Zenon
<1> HIDE DEF p, s
<1>5. /\ Puts(page, page', i, p) /\ Puts(session, session', i, s)
      /\ Puts(tasks, tasks', i, tasks[i]) /\ Puts(wire, wire', i, wire[i])
    BY <1>1, Zenon DEF Puts
<1> QED
    BY <1>1, <1>3, <1>4, <1>5, PutStep, ZenonT(60)

LEMMA SelectTooLargeStep ==
    ASSUME PageInv, SelectTooLarge
    PROVE  PageInv'
<1> DEFINE i == "sender"
           f == Failed(page[i])
           p == [f EXCEPT !.selected = FALSE]
<1>0. i \in Sides
    BY DEF Sides
<1>1. /\ page' = [page EXCEPT ![i] = p] /\ page[i].listed = "offered"
      /\ session' = session /\ tasks' = tasks /\ wire' = wire /\ forwarded' = forwarded /\ row' = row
    BY DEF SelectTooLarge, CanChooseFile
<1>2. IsPage(page[i]) /\ IsSession(session[i])
    BY <1>0, Before, Zenon
<1>3. Alike(page[i], f)
    BY <1>2, FailedAlike, Zenon
<1>4. IsPage(f)
    BY <1>3, ZenonT(60) DEF Alike
<1> HIDE DEF f
<1>5. Alike(f, p)
    BY <1>4, LightAlike, ZenonT(60)
<1>6. Alike(page[i], p)
    BY <1>3, <1>5, AlikeTrans, Zenon
<1> HIDE DEF p, i
<1>7. Puts(page, page', i, p) /\ Puts(session, session', i, session[i])
    BY <1>1, Zenon DEF Puts
<1>8. Calm(session[i], session[i])
    BY <1>2, CalmSelf, Zenon
<1>9. ~Waiting(page[i])
    BY <1>1, Zenon DEF Waiting
<1> QED
    BY <1>0, <1>1, <1>6, <1>7, <1>8, <1>9, QuietStep, ZenonT(60)

\* Only the recipient is told of an offer, and an offer that is listed was made.
LEMMA SelectFileStep ==
    ASSUME PageInv, SelectFile
    PROVE  PageInv'
<1> DEFINE i == "sender"
           p == [page[i] EXCEPT !.selected = TRUE, !.run = "active"]
<1>0. i \in Sides
    BY DEF Sides
<1>1. /\ page[i].listed = "offered" /\ page[i].busy = "no"
      /\ wire' = wire /\ forwarded' = forwarded /\ row' = row
      /\ IF p.held
         THEN /\ page' = [page EXCEPT ![i] = p]
              /\ IF MayStart(session[i])
                 THEN /\ session' = [session EXCEPT ![i] = Negotiate(@)]
                      /\ tasks' = [tasks EXCEPT ![i] = @ \cup {"offering"}]
                 ELSE session' = session /\ tasks' = tasks
         ELSE /\ page' = [page EXCEPT ![i] = IF p.cancelled THEN Failed(p) ELSE Joined(p, Signal("select"))]
              /\ session' = session /\ tasks' = tasks
    BY DEF SelectFile, CanChooseFile
<1>2. /\ IsPage(page[i]) /\ IsSession(session[i])
      /\ SideOK(i, page[i], session[i], tasks[i], wire[i], forwarded)
    BY <1>0, Before, ZenonT(60)
<1>3. Alike(page[i], p)
    <2>1. ~page[i].taken
        BY <1>2, ZenonT(60) DEF SideOK, SenderPageOK
    <2> QED
        BY <1>2, <2>1, LightAlike, ZenonT(60)
<1>4. p.busy = "no"
    BY <1>1, <1>2, Zenon DEF IsPage, PageFields
<1> HIDE DEF p
<1>5. SideOK(i, p, session[i], tasks[i], wire[i], forwarded) /\ IsPage(p)
    BY <1>2, <1>3, AlikeSide, Zenon DEF Alike
<1>6. ~Waiting(page[i])
    BY <1>1, Zenon DEF Waiting
<1>7. Puts(wire, wire', i, wire[i])
    BY <1>1, Zenon DEF Puts
<1>8. ASSUME NEW q, NEW s, NEW ts, Puts(page, page', i, q), Puts(session, session', i, s),
             Puts(tasks, tasks', i, ts), SideOK(i, q, s, ts, wire[i], forwarded)
      PROVE  PageInv'
    BY <1>0, <1>1, <1>6, <1>7, <1>8, PutStep, Zenon
<1>9. CASE p.held /\ MayStart(session[i])
    <2> DEFINE s == Negotiate(session[i])
               ts == tasks[i] \cup {"offering"}
    <2>1. SideOK(i, p, s, tasks[i], wire[i], forwarded)
        BY <1>2, <1>5, <1>9, NegotiateCalm, CalmSide, Zenon
    <2>2. /\ "checking" \in ts => "checking" \in tasks[i]
          /\ "applying" \in ts => "applying" \in tasks[i]
          /\ "flushing" \in tasks[i] => "flushing" \in ts
          /\ Handling(tasks[i]) => Handling(ts)
        BY DEF Handling
    <2>3. Puts(page, page', i, p) /\ Puts(session, session', i, s) /\ Puts(tasks, tasks', i, ts)
        BY <1>1, <1>9, Zenon DEF Puts
    <2> HIDE DEF s, ts
    <2>4. SideOK(i, p, s, ts, wire[i], forwarded)
        BY <1>9, <2>1, <2>2, TasksSide, Zenon
    <2> QED
        BY <1>8, <2>3, <2>4, Zenon
<1>10. CASE p.held /\ ~MayStart(session[i])
    <2>1. /\ Puts(page, page', i, p) /\ Puts(session, session', i, session[i])
          /\ Puts(tasks, tasks', i, tasks[i])
        BY <1>1, <1>10, Zenon DEF Puts
    <2> QED
        BY <1>5, <1>8, <2>1, Zenon
<1>11. CASE ~p.held
    <2> DEFINE q == IF p.cancelled THEN Failed(p) ELSE Joined(p, Signal("select"))
    <2>1. Puts(page, page', i, q) /\ Puts(session, session', i, session[i]) /\ Puts(tasks, tasks', i, tasks[i])
        BY <1>1, <1>11, Zenon DEF Puts
    <2>2. Signal("select") \in Message /\ Signal("select").type = "select"
        BY MessageFacts DEF MessageTypes
    <2>3. "select" \in Starters /\ "select" # "sdp_answer" /\ "select" # Description(i) /\ "no" # "create"
        BY DEF Starters, Description
    <2>4. SideOK(i, Joined(p, Signal("select")), session[i], tasks[i], wire[i], forwarded)
        BY <1>0, <1>4, <1>5, <1>11, <2>2, <2>3, JoinSide, Zenon
    <2>5. SideOK(i, Failed(p), session[i], tasks[i], wire[i], forwarded)
        BY <1>5, FailedAlike, AlikeSide, Zenon
    <2>6. SideOK(i, q, session[i], tasks[i], wire[i], forwarded)
        BY <2>4, <2>5, Zenon
    <2> HIDE DEF q
    <2> QED
        BY <1>8, <2>1, <2>6, Zenon
<1> QED
    BY <1>9, <1>10, <1>11, Zenon

LEMMA SocketDropsStep ==
    ASSUME PageInv, NEW i \in Sides, SocketDrops(i)
    PROVE  PageInv'
<1>1. /\ wire' = [wire EXCEPT ![i] = << >>]
      /\ page' = page /\ session' = session /\ tasks' = tasks /\ forwarded' = forwarded /\ row' = row
    BY DEF SocketDrops
<1>2. SideOK(i, page[i], session[i], tasks[i], << >>, forwarded)
    BY Before, LoseSide, Zenon
<1>3. /\ Puts(page, page', i, page[i]) /\ Puts(session, session', i, session[i])
      /\ Puts(tasks, tasks', i, tasks[i]) /\ Puts(wire, wire', i, << >>)
    BY <1>1, Zenon DEF Puts
<1> QED
    BY <1>1, <1>2, <1>3, PutStep, Zenon

LEMMA ReloadStep ==
    ASSUME PageInv, NEW i \in Sides, Reload(i)
    PROVE  PageInv'
<1> DEFINE p == [NewPage EXCEPT !.reloaded = TRUE, !.listed = Listed]
<1>1. /\ page' = [page EXCEPT ![i] = p] /\ session' = [session EXCEPT ![i] = NoSession]
      /\ tasks' = [tasks EXCEPT ![i] = {}] /\ wire' = [wire EXCEPT ![i] = << >>]
      /\ forwarded' = forwarded /\ row' = row /\ row # "none"
    BY Zenon DEF Reload
<1>2. SideOK(i, p, NoSession, {}, << >>, forwarded)
    <2>1. SideOK(i, p, NoSession, {}, wire[i], forwarded)
        BY Before, RenewedSide, ReloadRenewed, Zenon
    <2> QED
        BY <2>1, LoseSide, Zenon
<1> HIDE DEF p
<1>3. /\ Puts(page, page', i, p) /\ Puts(session, session', i, NoSession)
      /\ Puts(tasks, tasks', i, {}) /\ Puts(wire, wire', i, << >>)
    BY <1>1, Zenon DEF Puts
<1> QED
    BY <1>1, <1>2, <1>3, PutStep, Zenon

LEMMA UnmountStep ==
    ASSUME PageInv, NEW i \in Sides, Unmount(i)
    PROVE  PageInv'
<1> DEFINE kept == IF page[i].held THEN LetGo(page[i], session[i], Close(session[i])) ELSE page[i]
           x == page[i].ghosts + Len(page[i].loads)
           y == kept.strays
           p == [NewPage EXCEPT !.reloaded = TRUE, !.mounted = FALSE, !.ghosts = x, !.strays = y]
<1>1. /\ page' = [page EXCEPT ![i] = p] /\ session' = [session EXCEPT ![i] = NoSession]
      /\ tasks' = [tasks EXCEPT ![i] = {}] /\ wire' = wire
      /\ forwarded' = forwarded /\ row' = row /\ row # "none"
    <2>1. wire' = wire /\ forwarded' = forwarded /\ row' = row
        BY DEF Unmount
    <2> QED
        BY <2>1, Zenon DEF Unmount
<1>2. /\ IsPage(page[i]) /\ IsSession(session[i]) /\ PageOK(page[i])
      /\ SideOK(i, page[i], session[i], tasks[i], wire[i], forwarded)
    BY Before, Zenon DEF SideOK
<1>3. Accounted(y)
    <2>1. Accounted(page[i].strays)
        BY <1>2, Zenon DEF PageOK
    <2> QED
        BY <1>2, <2>1, LetGoFacts, Zenon
<1> HIDE DEF kept, x, y
<1>4. Renewed(p)
    BY <1>3, UnmountRenewed, Zenon
<1> HIDE DEF p
<1>5. SideOK(i, p, NoSession, {}, wire[i], forwarded)
    BY <1>2, <1>4, RenewedSide, Zenon
<1>6. /\ Puts(page, page', i, p) /\ Puts(session, session', i, NoSession)
      /\ Puts(tasks, tasks', i, {}) /\ Puts(wire, wire', i, wire[i])
    BY <1>1, Zenon DEF Puts
<1> QED
    BY <1>1, <1>5, <1>6, PutStep, Zenon

\* Fields the invariant does not look at.
LEMMA ViewAlike ==
    ASSUME NEW p, IsPage(p), NEW x
    PROVE  Alike(p, [p EXCEPT !.mounted = TRUE, !.listed = x])
<1> DEFINE q == [p EXCEPT !.mounted = TRUE, !.listed = x]
<1>1. /\ q.loads = p.loads /\ q.todo = p.todo /\ q.held = p.held
      /\ q.cancelled = p.cancelled /\ q.cleaning = p.cleaning
      /\ q.reloaded = p.reloaded /\ q.strays = p.strays /\ q.taken = p.taken
      /\ q.queued = p.queued /\ q.busy = p.busy /\ q.engine = p.engine /\ q.run = p.run
      /\ IsPage(q)
    BY Zenon DEF IsPage, PageFields
<1> HIDE DEF q
<1>2. Alike(p, q)
    BY <1>1, Zenon DEF Alike
<1> QED
    BY <1>2 DEF q

LEMMA MountStep ==
    ASSUME PageInv, NEW i \in Sides, Mount(i)
    PROVE  PageInv'
<1> DEFINE p == [page[i] EXCEPT !.mounted = TRUE, !.listed = Listed]
<1>1. /\ page' = [page EXCEPT ![i] = p] /\ wire' = [wire EXCEPT ![i] = << >>]
      /\ session' = session /\ tasks' = tasks /\ forwarded' = forwarded /\ row' = row
    BY DEF Mount
<1>2. /\ IsPage(page[i])
      /\ SideOK(i, page[i], session[i], tasks[i], wire[i], forwarded)
    BY Before, Zenon
<1>3. Alike(page[i], p)
    BY <1>2, ViewAlike, Zenon
<1>4. row = "none" /\ Waiting(page[i]) => Waiting(p)
    <2>1. p.listed = Listed /\ p.held = page[i].held /\ p.loads = page[i].loads /\ p.busy = page[i].busy
        BY <1>2, Zenon DEF IsPage, PageFields
    <2>2. row = "none" => Listed # "offered"
        BY DEF Listed, Live
    <2> QED
        BY <2>1, <2>2, Zenon DEF Waiting
<1> HIDE DEF p
<1>5. SideOK(i, p, session[i], tasks[i], << >>, forwarded)
    BY <1>2, <1>3, AlikeSide, LoseSide, Zenon
<1>6. /\ Puts(page, page', i, p) /\ Puts(session, session', i, session[i])
      /\ Puts(tasks, tasks', i, tasks[i]) /\ Puts(wire, wire', i, << >>)
    BY <1>1, Zenon DEF Puts
<1> QED
    BY <1>1, <1>4, <1>5, <1>6, PutStep, Zenon

\* What goes astray, and the slot, matter to nothing else.
LEMMA AsideSide ==
    ASSUME NEW i, NEW p, NEW s, NEW ts, NEW w, NEW f, SideOK(i, p, s, ts, w, f), NEW q, IsPage(q),
           q.loads = p.loads, q.todo = p.todo, q.held = p.held, q.listed = p.listed,
           q.cancelled = p.cancelled, q.cleaning = p.cleaning, q.reloaded = p.reloaded,
           q.queued = p.queued, q.busy = p.busy, q.engine = p.engine, q.run = p.run,
           Accounted(q.strays), q.taken = p.taken \/ (i # "sender" /\ q.taken = TRUE)
    PROVE  SideOK(i, q, s, ts, w, f) /\ (Waiting(p) => Waiting(q))
<1>1. EngineOK(q.engine, q.run, q.taken)
    <2>1. EngineOK(p.engine, p.run, p.taken)
        BY Zenon DEF SideOK, PageOK
    <2> QED
        BY <2>1 DEF EngineOK
<1>2. PageOK(q)
    BY <1>1, Zenon DEF SideOK, PageOK
<1>3. i = "sender" => SenderPageOK(q)
    BY Zenon DEF SideOK, SenderPageOK
<1>4. Tied(q, s, ts)
    BY Zenon DEF SideOK, Tied
<1>5. SideOK(i, q, s, ts, w, f)
    BY <1>2, <1>3, <1>4, Zenon DEF SideOK, SideType
<1> QED
    BY <1>5, Zenon DEF Waiting

LEMMA GhostCreatedStep ==
    ASSUME PageInv, NEW i \in Sides, GhostCreated(i)
    PROVE  PageInv'
<1>1. /\ session' = session /\ tasks' = tasks /\ wire' = wire /\ forwarded' = forwarded /\ row' = row
      /\ \E y \in {page[i].strays, page[i].strays \cup {"unmounted"}} :
            page' = [page EXCEPT ![i] = [page[i] EXCEPT !.ghosts = page[i].ghosts - 1, !.strays = y]]
    <2>1. session' = session /\ tasks' = tasks /\ wire' = wire /\ forwarded' = forwarded /\ row' = row
        BY DEF GhostCreated
    <2> QED
        BY <2>1, Zenon DEF GhostCreated
<1>2. PICK y \in {page[i].strays, page[i].strays \cup {"unmounted"}} :
            page' = [page EXCEPT ![i] = [page[i] EXCEPT !.ghosts = page[i].ghosts - 1, !.strays = y]]
    BY <1>1, Zenon
<1> DEFINE x == page[i].ghosts - 1
           p == [page[i] EXCEPT !.ghosts = x, !.strays = y]
<1>3. /\ IsPage(page[i])
      /\ SideOK(i, page[i], session[i], tasks[i], wire[i], forwarded)
    BY Before, Zenon
<1>4. Accounted(y)
    <2>1. Accounted(page[i].strays)
        BY <1>3, Zenon DEF SideOK, PageOK
    <2> QED
        BY <1>2, <2>1 DEF Accounted
<1>5. page' = [page EXCEPT ![i] = p]
    BY <1>2, Zenon
<1> HIDE DEF x
<1>6. /\ p.loads = page[i].loads /\ p.todo = page[i].todo /\ p.held = page[i].held
      /\ p.listed = page[i].listed
      /\ p.cancelled = page[i].cancelled /\ p.cleaning = page[i].cleaning
      /\ p.reloaded = page[i].reloaded /\ p.strays = y /\ p.taken = page[i].taken
      /\ p.queued = page[i].queued /\ p.busy = page[i].busy
      /\ p.engine = page[i].engine /\ p.run = page[i].run /\ IsPage(p)
    BY <1>3, Zenon DEF IsPage, PageFields
<1> HIDE DEF p
<1>7. SideOK(i, p, session[i], tasks[i], wire[i], forwarded) /\ (Waiting(page[i]) => Waiting(p))
    BY <1>3, <1>4, <1>6, AsideSide, ZenonT(60)
<1>8. /\ Puts(page, page', i, p) /\ Puts(session, session', i, session[i])
      /\ Puts(tasks, tasks', i, tasks[i]) /\ Puts(wire, wire', i, wire[i])
    BY <1>1, <1>5, Zenon DEF Puts
<1> QED
    BY <1>1, <1>7, <1>8, PutStep, Zenon

LEMMA SlotTakenStep ==
    ASSUME PageInv, SlotTaken
    PROVE  PageInv'
<1> DEFINE i == "recipient"
           p == [page[i] EXCEPT !.taken = TRUE]
<1>0. i \in Sides /\ i # "sender"
    BY DEF Sides
<1>1. /\ session' = session /\ tasks' = tasks /\ wire' = wire /\ forwarded' = forwarded /\ row' = row
      /\ page' = [page EXCEPT ![i] = p]
    BY DEF SlotTaken
<1> HIDE DEF i
<1>3. /\ IsPage(page[i])
      /\ SideOK(i, page[i], session[i], tasks[i], wire[i], forwarded)
    BY <1>0, Before, Zenon
<1>4. Accounted(page[i].strays)
    BY <1>3, Zenon DEF SideOK, PageOK
<1>6. /\ p.loads = page[i].loads /\ p.todo = page[i].todo /\ p.held = page[i].held
      /\ p.listed = page[i].listed
      /\ p.cancelled = page[i].cancelled /\ p.cleaning = page[i].cleaning
      /\ p.reloaded = page[i].reloaded /\ p.strays = page[i].strays /\ p.taken = TRUE
      /\ p.queued = page[i].queued /\ p.busy = page[i].busy
      /\ p.engine = page[i].engine /\ p.run = page[i].run /\ IsPage(p)
    BY <1>3, Zenon DEF IsPage, PageFields
<1> HIDE DEF p
<1>7. SideOK(i, p, session[i], tasks[i], wire[i], forwarded) /\ (Waiting(page[i]) => Waiting(p))
    BY <1>0, <1>3, <1>4, <1>6, AsideSide, ZenonT(60)
<1>8. /\ Puts(page, page', i, p) /\ Puts(session, session', i, session[i])
      /\ Puts(tasks, tasks', i, tasks[i]) /\ Puts(wire, wire', i, wire[i])
    BY <1>1, Zenon DEF Puts
<1> QED
    BY <1>0, <1>1, <1>7, <1>8, PutStep, Zenon

\* The server tells a page that a transfer is offered, or has ended.
LEMMA NoticeSide ==
    ASSUME NEW i \in Sides, NEW p, NEW s, NEW ts, NEW w, NEW f, NEW m \in Message,
           SideOK(i, p, s, ts, w, f), m.type \in Inbound(i), m.type \notin SingleUse
    PROVE  SideOK(i, p, s, ts, Append(w, m), f)
<1>1. f \subseteq SingleUse
    BY Zenon DEF SideOK, SideType
<1>2. m.type \notin f
    BY <1>1
<1>3. f \cup ({m.type} \cap SingleUse) = f
    OBVIOUS
<1>4. SideOK(i, p, s, ts, Append(w, m), f \cup ({m.type} \cap SingleUse))
    BY <1>2, ArriveSide, Zenon
<1> QED
    BY <1>3, <1>4, Zenon

LEMMA NoticeStep ==
    ASSUME PageInv, NEW i \in Sides, NEW p, NEW m \in Message,
           m.type \in Inbound(Other(i)), m.type \notin SingleUse,
           Puts(page, page', i, p), SideOK(i, p, session[i], tasks[i], wire[i], forwarded),
           wire' = [wire EXCEPT ![Other(i)] = Append(@, m)],
           session' = session, tasks' = tasks, forwarded' = forwarded, row' # "none"
    PROVE  PageInv'
<1> DEFINE j == Other(i)
<1>1. j \in Sides /\ i # j /\ \A k \in Sides : k = i \/ k = j
    BY OtherFacts, Zenon
<1>2. Pair(page) /\ Pair(session) /\ Pair(tasks) /\ Pair(wire)
    BY Zenon DEF PageInv, Shape
<1>3. Put(page, page', i, p)
    BY <1>2, PutsFacts, Zenon
<1>4. Put(wire, wire', j, Append(wire[j], m))
    BY <1>1, <1>2, SetSide, Zenon
<1> HIDE DEF j
<1>5. Shape'
    BY <1>2, <1>3, <1>4, Zenon DEF Shape, Put, Pair
<1>6. BeforeOffer'
    BY Zenon DEF BeforeOffer
<1>7. SideOK(j, page[j], session[j], tasks[j], wire[j], forwarded)
    BY <1>1, Before, Zenon
<1>8. SideOK(j, page[j], session[j], tasks[j], Append(wire[j], m), forwarded)
    BY <1>1, <1>7, NoticeSide, Zenon DEF j
<1>9. page'[i] = p /\ page'[j] = page[j] /\ wire'[i] = wire[i] /\ wire'[j] = Append(wire[j], m)
    BY <1>1, <1>3, <1>4, Zenon DEF Put
<1>10. \A k \in Sides : SideOK(k, page'[k], session'[k], tasks'[k], wire'[k], forwarded')
    <2> TAKE k \in Sides
    <2>1. CASE k = i
        BY <1>9, <2>1, Zenon
    <2>2. CASE k = j
        BY <1>8, <1>9, <2>2, Zenon
    <2> QED
        BY <1>1, <2>1, <2>2, Zenon
<1> QED
    BY <1>5, <1>6, <1>10, Zenon DEF PageInv

LEMMA CreateOfferStep ==
    ASSUME PageInv, CreateOffer
    PROVE  PageInv'
<1> DEFINE i == "sender"
           m == Signal("transfer_offer")
           p == [page[i] EXCEPT !.busy = "create"]
<1>0. i \in Sides /\ Other(i) = "recipient"
    BY DEF Sides, Other
<1>1. /\ row = "none" /\ row' = "offered"
      /\ wire' = [wire EXCEPT ![Other(i)] = Append(@, m)]
      /\ page' = [page EXCEPT ![i] = p]
      /\ session' = session /\ tasks' = tasks /\ forwarded' = forwarded
    BY <1>0, ZenonT(60) DEF CreateOffer
<1>2. /\ SideOK(i, page[i], session[i], tasks[i], wire[i], forwarded) /\ IsPage(page[i])
      /\ ~page[i].held /\ page[i].loads = << >>
    BY <1>0, <1>1, Before, Zenon DEF PageInv, BeforeOffer, Waiting
<1>3. /\ m \in Message /\ m.type = "transfer_offer"
    BY MessageFacts DEF MessageTypes
<1>4. "transfer_offer" \in Inbound("recipient") /\ "transfer_offer" \notin SingleUse
    BY DEF Inbound, SingleUse
<1> HIDE DEF m
<1>5. /\ p.loads = page[i].loads /\ p.todo = page[i].todo /\ p.held = page[i].held
      /\ p.cancelled = page[i].cancelled /\ p.cleaning = page[i].cleaning
      /\ p.reloaded = page[i].reloaded /\ p.strays = page[i].strays /\ p.taken = page[i].taken
      /\ p.queued = page[i].queued /\ p.engine = page[i].engine /\ p.run = page[i].run
    BY <1>2, Zenon DEF IsPage, PageFields
<1>6. IsPage(p)
    BY <1>2, Zenon DEF IsPage, PageFields
<1> HIDE DEF p
<1>7. SideOK(i, p, session[i], tasks[i], wire[i], forwarded)
    <2>1. SideType(p, session[i], wire[i], forwarded)
        BY <1>2, <1>6, Zenon DEF SideOK, SideType
    <2>2. PageOK(p)
        BY <1>2, <1>5, Zenon DEF SideOK, PageOK
    <2>3. SenderPageOK(p)
        BY <1>2, <1>5, Zenon DEF SideOK, SenderPageOK
    <2>4. i # "recipient"
        OBVIOUS
    <2>5. Tied(p, session[i], tasks[i])
        BY <1>2, <1>5, Zenon DEF SideOK, Tied
    <2>6. Described(Description(i), p.loads, p.todo, session[i].remote, tasks[i], wire[i], forwarded)
        BY <1>2, <1>5, Zenon DEF SideOK
    <2> HIDE DEF i
    <2> QED
        BY <1>2, <2>1, <2>2, <2>3, <2>4, <2>5, <2>6, ZenonT(60) DEF SideOK
<1>8. Puts(page, page', i, p)
    BY <1>1, Zenon DEF Puts
<1>9. row' # "none"
    BY <1>1
<1> QED
    BY <1>0, <1>1, <1>3, <1>4, <1>7, <1>8, <1>9, NoticeStep, ZenonT(60)

LEMMA OfferCreatedStep ==
    ASSUME PageInv, OfferCreated
    PROVE  PageInv'
<1> DEFINE i == "sender"
           p == [page[i] EXCEPT !.busy = "no"]
           q == [p EXCEPT !.listed = "offered"]
           m == Signal("create")
<1>0. i \in Sides /\ i = "sender"
    BY DEF Sides
<1>1. /\ page[i].busy = "create"
      /\ page' = [page EXCEPT ![i] = Joined(q, m)] \/ page' = [page EXCEPT ![i] = p]
      /\ session' = session /\ tasks' = tasks /\ wire' = wire /\ forwarded' = forwarded /\ row' = row
    BY DEF OfferCreated
<1>2. SideOK(i, page[i], session[i], tasks[i], wire[i], forwarded) /\ IsPage(page[i])
    BY <1>0, Before, Zenon
<1>3. ~page[i].held
    BY <1>1, <1>2, ZenonT(60) DEF SideOK, SenderPageOK
<1>4. Alike(page[i], p)
    BY <1>2, LightAlike, ZenonT(60)
<1>5. p.busy = "no" /\ IsPage(p)
    BY <1>2, <1>4, ZenonT(60) DEF IsPage, PageFields, Alike
<1> HIDE DEF p
<1>6. Alike(p, q)
    BY <1>5, LightAlike, ZenonT(60)
<1>7. q.busy = "no"
    BY <1>5, Zenon DEF IsPage, PageFields
<1> HIDE DEF q
<1>8. SideOK(i, p, session[i], tasks[i], wire[i], forwarded)
    BY <1>2, <1>4, AlikeSide, Zenon
<1>9. SideOK(i, q, session[i], tasks[i], wire[i], forwarded) /\ ~q.held
    BY <1>3, <1>4, <1>6, <1>8, AlikeSide, Zenon DEF Alike
<1>10. m \in Message /\ m.type = "create"
    BY MessageFacts DEF MessageTypes
<1> HIDE DEF m
<1>11. "create" \in Starters /\ "create" # "sdp_answer" /\ "create" # Description(i) /\ "no" # "create"
    BY DEF Starters, Description
<1>12. SideOK(i, Joined(q, m), session[i], tasks[i], wire[i], forwarded)
    BY <1>0, <1>7, <1>9, <1>10, <1>11, JoinSide, Zenon
<1>13. ~Waiting(page[i])
    BY <1>1, <1>11, Zenon DEF Waiting
<1>14. /\ Puts(session, session', i, session[i])
       /\ Puts(tasks, tasks', i, tasks[i]) /\ Puts(wire, wire', i, wire[i])
    BY <1>1, Zenon DEF Puts
<1>15. CASE page' = [page EXCEPT ![i] = p]
    BY <1>0, <1>1, <1>8, <1>13, <1>14, <1>15, PutStep, ZenonT(60) DEF Puts
<1>16. CASE page' = [page EXCEPT ![i] = Joined(q, m)]
    BY <1>0, <1>1, <1>12, <1>13, <1>14, <1>16, PutStep, ZenonT(60) DEF Puts
<1> QED
    BY <1>1, <1>15, <1>16, Zenon

LEMMA ExpireStep ==
    ASSUME PageInv, Expire
    PROVE  PageInv'
<1> DEFINE m == Signal("transfer_ended")
<1>1. /\ row' = "expired" /\ wire' = [i \in Sides |-> Append(wire[i], m)]
      /\ page' = page /\ session' = session /\ tasks' = tasks /\ forwarded' = forwarded
    BY DEF Expire
<1>2. m \in Message /\ m.type = "transfer_ended"
    BY MessageFacts DEF MessageTypes
<1> HIDE DEF m
<1>3. "transfer_ended" \notin SingleUse
    BY DEF SingleUse
<1>4. \A i \in Sides : wire'[i] = Append(wire[i], m)
    BY <1>1, Zenon
<1>5. Shape'
    BY <1>1, Zenon DEF PageInv, Shape, Pair
<1>6. BeforeOffer'
    BY <1>1 DEF BeforeOffer
<1>7. \A i \in Sides : SideOK(i, page'[i], session'[i], tasks'[i], wire'[i], forwarded')
    <2> TAKE i \in Sides
    <2>1. SideOK(i, page[i], session[i], tasks[i], Append(wire[i], m), forwarded)
        BY <1>2, <1>3, Before, MessageFacts, NoticeSide, Zenon
    <2> QED
        BY <1>1, <1>4, <2>1, Zenon
<1> QED
    BY <1>5, <1>6, <1>7, Zenon DEF PageInv

LEMMA EndsRowStep ==
    ASSUME PageInv, NEW i \in Sides, page[i].listed = "offered", NEW ok, NEW error,
           ok # "create", error # "create", EndsRow(i, ok, error)
    PROVE  PageInv'
<1> DEFINE Waits(x) == [page[i] EXCEPT !.busy = x]
           m == Signal("transfer_ended")
<1>1. /\ session' = session /\ tasks' = tasks /\ forwarded' = forwarded
      /\ \/ /\ row' = "ended" /\ wire' = [wire EXCEPT ![Other(i)] = Append(@, m)]
            /\ \E x \in {ok, error} : page' = [page EXCEPT ![i] = Waits(x)]
         \/ /\ row' = row /\ wire' = wire
            /\ page' = [page EXCEPT ![i] = Waits(error)]
    BY DEF EndsRow
<1>2. PICK x \in {ok, error} : page' = [page EXCEPT ![i] = Waits(x)]
    BY <1>1, Zenon
<1> DEFINE p == Waits(x)
<1>3. x # "create"
    BY <1>2
<1>4. Alike(page[i], p)
    BY <1>3, Before, LightAlike, Zenon
<1>5. Puts(page, page', i, p)
    BY <1>2, Zenon DEF Puts
<1> HIDE DEF p, Waits
<1>6. SideOK(i, p, session[i], tasks[i], wire[i], forwarded)
    BY <1>4, Before, AlikeSide, Zenon
<1>7. CASE row' = "ended" /\ wire' = [wire EXCEPT ![Other(i)] = Append(@, m)]
    <2>1. m \in Message /\ m.type = "transfer_ended"
        BY MessageFacts DEF MessageTypes
    <2>2. "transfer_ended" \notin SingleUse /\ row' # "none"
        BY <1>7 DEF SingleUse
    <2> HIDE DEF m
    <2>3. m.type \in Inbound(Other(i))
        BY <2>1, MessageFacts, OtherFacts
    <2> QED
        BY <1>1, <1>5, <1>6, <1>7, <2>1, <2>2, <2>3, NoticeStep, ZenonT(60)
<1>8. CASE row' = row /\ wire' = wire
    <2>1. ~Waiting(page[i])
        BY Zenon DEF Waiting
    <2>2. /\ Puts(session, session', i, session[i]) /\ Puts(tasks, tasks', i, tasks[i])
          /\ Puts(wire, wire', i, wire[i])
        BY <1>1, <1>8, Zenon DEF Puts
    <2> QED
        BY <1>1, <1>5, <1>6, <1>8, <2>1, <2>2, PutStep, Zenon
<1> QED
    BY <1>1, <1>7, <1>8, Zenon

LEMMA CancelStep ==
    ASSUME PageInv, NEW i \in Sides, Cancel(i)
    PROVE  PageInv'
<1>1. page[i].listed = "offered" /\ EndsRow(i, "cancel", "cancel_error")
    BY Zenon DEF Cancel
<1>2. "cancel" # "create" /\ "cancel_error" # "create"
    OBVIOUS
<1> QED
    BY <1>1, <1>2, EndsRowStep, Zenon

LEMMA RejectStep ==
    ASSUME PageInv, Reject
    PROVE  PageInv'
<1>1. page["recipient"].listed = "offered" /\ EndsRow("recipient", "reject", "reject_error")
    BY Zenon DEF Reject
<1>2. "reject" # "create" /\ "reject_error" # "create" /\ "recipient" \in Sides
    BY DEF Sides
<1> QED
    BY <1>1, <1>2, EndsRowStep, Zenon

LEMMA CleanedUpStep ==
    ASSUME PageInv, NEW i \in Sides, NEW p, p.cancelled,
           SideOK(i, p, session[i], tasks[i], wire[i], forwarded), CleanedUp(i, p),
           Waiting(page[i]) => Waiting(p),
           tasks' = tasks, wire' = wire, forwarded' = forwarded, row' = row
    PROVE  PageInv'
<1> DEFINE kept == IF p.held THEN LetGo(p, session[i], Close(session[i])) ELSE p
           s == IF p.held THEN Close(session[i]) ELSE session[i]
<1>1. page' = [page EXCEPT ![i] = Left(p, kept)] /\ session' = [session EXCEPT ![i] = s]
    BY Zenon DEF CleanedUp, Left
<1>2. SideOK(i, Left(p, kept), s, tasks[i], wire[i], forwarded) /\ (Waiting(p) => Waiting(Left(p, kept)))
    BY CleanedSide, Zenon
<1> HIDE DEF s, kept
<1>3. /\ Puts(page, page', i, Left(p, kept)) /\ Puts(session, session', i, s)
      /\ Puts(tasks, tasks', i, tasks[i]) /\ Puts(wire, wire', i, wire[i])
    BY <1>1, Zenon DEF Puts
<1> QED
    BY <1>2, <1>3, PutStep, Zenon

LEMMA EngineRejectedStep ==
    ASSUME PageInv, NEW i \in Sides, EngineRejected(i)
    PROVE  PageInv'
<1>1. /\ page[i].cleaning /\ CleanedUp(i, page[i])
      /\ tasks' = tasks /\ wire' = wire /\ forwarded' = forwarded /\ row' = row
    BY DEF EngineRejected
<1>2. SideOK(i, page[i], session[i], tasks[i], wire[i], forwarded)
    BY Before, Zenon
<1>3. page[i].cancelled
    BY <1>1, <1>2, Zenon DEF SideOK, PageOK
<1> QED
    BY <1>1, <1>2, <1>3, CleanedUpStep, Zenon

LEMMA AnsweredStep ==
    ASSUME PageInv, NEW i \in Sides, Answered(i)
    PROVE  PageInv'
<1> DEFINE x == IF page[i].busy = "cancel_error" THEN page[i].listed ELSE "ended"
           q == [page[i] EXCEPT !.cancelled = TRUE, !.cleaning = TRUE, !.listed = x]
           r == [page[i] EXCEPT !.busy = "no"]
<1>0. /\ IsPage(page[i]) /\ IsSession(session[i])
      /\ SideOK(i, page[i], session[i], tasks[i], wire[i], forwarded)
    BY Before, Zenon
<1>1. /\ tasks' = tasks /\ wire' = wire /\ forwarded' = forwarded /\ row' = row
      /\ page[i].busy # "no"
      /\ \/ page' = [page EXCEPT ![i] = r] /\ session' = session
         \/ page' = [page EXCEPT ![i] = q] /\ session' = session
         \/ CleanedUp(i, q)
    <2>1. [page[i] EXCEPT !.cancelled = TRUE, !.cleaning = TRUE,
                          !.listed = IF page[i].busy = "cancel_error" THEN @ ELSE "ended"] = q
        BY <1>0 DEF IsPage, PageFields
    <2> HIDE DEF q
    <2>2. tasks' = tasks /\ wire' = wire /\ forwarded' = forwarded /\ row' = row
        BY DEF Answered
    <2>3. page[i].busy # "no"
        BY DEF Answered
    <2>4. \/ page' = [page EXCEPT ![i] = r] /\ session' = session
          \/ page' = [page EXCEPT ![i] = q] /\ session' = session
          \/ CleanedUp(i, q)
        BY <2>1, Zenon DEF Answered
    <2> QED
        BY <2>2, <2>3, <2>4, Zenon
<1>2. ~Waiting(page[i])
    BY <1>1, ZenonT(60) DEF Waiting
<1>3. Alike(page[i], r)
    BY <1>0, LightAlike, ZenonT(60)
<1>4. SideOK(i, q, session[i], tasks[i], wire[i], forwarded) /\ q.cancelled = TRUE
    <2> HIDE DEF x
    <2>1. q = GivenUp(page[i], x)
        BY Zenon DEF GivenUp
    <2> HIDE DEF q
    <2> QED
        BY <1>0, <2>1, GiveUpSide, Zenon
<1> HIDE DEF q, r
<1>5. /\ Puts(tasks, tasks', i, tasks[i]) /\ Puts(wire, wire', i, wire[i])
    BY <1>1, Zenon DEF Puts
<1>6. CASE page' = [page EXCEPT ![i] = r] /\ session' = session
    <2>1. SideOK(i, r, session[i], tasks[i], wire[i], forwarded)
        BY <1>0, <1>3, AlikeSide, Zenon
    <2>2. Puts(page, page', i, r) /\ Puts(session, session', i, session[i])
        BY <1>6, Zenon DEF Puts
    <2> QED
        BY <1>1, <1>2, <1>5, <2>1, <2>2, PutStep, Zenon
<1>7. CASE page' = [page EXCEPT ![i] = q] /\ session' = session
    <2>1. Puts(page, page', i, q) /\ Puts(session, session', i, session[i])
        BY <1>7, Zenon DEF Puts
    <2> QED
        BY <1>1, <1>2, <1>4, <1>5, <2>1, PutStep, ZenonT(60)
<1>8. CASE CleanedUp(i, q)
    BY <1>1, <1>2, <1>4, <1>8, CleanedUpStep, Zenon
<1> QED
    BY <1>1, <1>6, <1>7, <1>8, Zenon

LEMMA CreationFailsStep ==
    ASSUME PageInv, NEW i \in Sides, CreationFails(i)
    PROVE  PageInv'
<1> DEFINE q == [page[i] EXCEPT !.loads = Tail(page[i].loads)]
           u == [page[i] EXCEPT !.loads = << >>]
<1>0. /\ IsPage(page[i]) /\ IsSession(session[i])
      /\ SideOK(i, page[i], session[i], tasks[i], wire[i], forwarded)
    BY Before, Zenon
<1>1. /\ session' = session /\ tasks' = tasks /\ wire' = wire /\ forwarded' = forwarded /\ row' = row
      /\ page[i].loads # << >>
      /\ page' = [page EXCEPT ![i] = q] \/ page' = [page EXCEPT ![i] = Failed(q)]
    BY Zenon DEF CreationFails
<1>2. Tail(page[i].loads) = << >>
    BY <1>0, <1>1, OneLoad, Zenon DEF SideOK, PageOK
<1>3. q = u
    BY <1>2, Zenon
<1>4. SideOK(i, u, session[i], tasks[i], wire[i], forwarded)
    BY <1>0, UnloadSide, Zenon
<1> HIDE DEF q, u
<1>5. IsPage(u)
    BY <1>4, Zenon DEF SideOK, SideType
<1>6. SideOK(i, Failed(u), session[i], tasks[i], wire[i], forwarded)
    BY <1>4, <1>5, FailedAlike, AlikeSide, Zenon
<1>7. ~Waiting(page[i])
    BY <1>1, Zenon DEF Waiting
<1>8. /\ Puts(session, session', i, session[i])
      /\ Puts(tasks, tasks', i, tasks[i]) /\ Puts(wire, wire', i, wire[i])
    BY <1>1, Zenon DEF Puts
<1>9. CASE page' = [page EXCEPT ![i] = q]
    BY <1>1, <1>3, <1>4, <1>7, <1>8, <1>9, PutStep, Zenon DEF Puts
<1>10. CASE page' = [page EXCEPT ![i] = Failed(q)]
    BY <1>1, <1>3, <1>6, <1>7, <1>8, <1>10, PutStep, ZenonT(60) DEF Puts
<1> QED
    BY <1>1, <1>9, <1>10, ZenonT(60)

\* The only creation under way is taken off.
LEMMA RestEmpty ==
    ASSUME NEW q, Len(q) = 1
    PROVE  SubSeq(q, 1, 1 - 1) \o SubSeq(q, 1 + 1, Len(q)) = << >>
<1>1. SubSeq(q, 1, 1 - 1) = << >> /\ SubSeq(q, 1 + 1, Len(q)) = << >>
    OBVIOUS
<1> QED
    BY <1>1

LEMMA CreationDoneStep ==
    ASSUME PageInv, NEW i \in Sides, CreationDone(i)
    PROVE  PageInv'
<1>0. /\ IsPage(page[i]) /\ IsSession(session[i])
      /\ SideOK(i, page[i], session[i], tasks[i], wire[i], forwarded)
    BY Before, Zenon
<1>1. /\ \E k \in DOMAIN page[i].loads : SessionCreated(i, k)
      /\ wire' = wire /\ forwarded' = forwarded /\ row' = row
    BY DEF CreationDone
<1>2. PICK k \in DOMAIN page[i].loads : SessionCreated(i, k)
    BY <1>1, Zenon
<1>3. page[i].loads # << >>
    BY <1>2
<1>4. k = 1 /\ Len(page[i].loads) = 1 /\ page[i].loads[1] \in Loads
    BY <1>0, <1>2, <1>3, OneLoad, Zenon DEF SideOK, PageOK
<1> DEFINE signals == page[i].loads[1].signals
           starters == page[i].loads[1].starters
           q == [page[i] EXCEPT !.loads = << >>]
           kept == IF page[i].held THEN LetGo(q, session[i], session[i]) ELSE q
           n == [kept EXCEPT !.held = TRUE, !.engine = "none"]
           t == IF starters # {} THEN Negotiate(NewSession) ELSE NewSession
           us == IF starters # {} /\ i = "sender" THEN {"offering"} ELSE {}
<1>5. SubSeq(page[i].loads, 1, k - 1) \o SubSeq(page[i].loads, k + 1, Len(page[i].loads)) = << >>
    BY <1>4, RestEmpty, Zenon
<1>6. /\ page[i].cancelled =>
            /\ page' = [page EXCEPT ![i] = IF "select" \in starters THEN Failed(q) ELSE q]
            /\ session' = session /\ tasks' = tasks
      /\ ~page[i].cancelled =>
            /\ page' = [page EXCEPT ![i] = Backlog(n, signals)]
            /\ session' = [session EXCEPT ![i] = t] /\ tasks' = [tasks EXCEPT ![i] = us]
    <2>1. /\ page[i].cancelled =>
            /\ page' = [page EXCEPT ![i] = IF "select" \in starters THEN Failed(q) ELSE q]
            /\ <<session, tasks>>' = <<session, tasks>>
          /\ ~page[i].cancelled =>
            /\ page' = [page EXCEPT ![i] = Backlog(n, signals)]
            /\ session' = [session EXCEPT ![i] = t] /\ tasks' = [tasks EXCEPT ![i] = us]
        BY <1>2, <1>4, <1>5, Zenon DEF SessionCreated, GivesNull
    <2> HIDE DEF signals, starters, q, kept, n, t, us
    <2> QED
        BY <2>1
<1>7. ~Waiting(page[i])
    BY <1>3, Zenon DEF Waiting
<1>8. Puts(wire, wire', i, wire[i])
    BY <1>1, Zenon DEF Puts
<1>9. CASE page[i].cancelled
    <2> DEFINE p == IF "select" \in starters THEN Failed(q) ELSE q
    <2>1. q = [page[i] EXCEPT !.loads = << >>]
        BY Zenon
    <2>2. /\ Puts(page, page', i, p) /\ Puts(session, session', i, session[i])
          /\ Puts(tasks, tasks', i, tasks[i])
        BY <1>6, <1>9, Zenon DEF Puts
    <2> HIDE DEF q, kept, n, starters, signals, t, us
    <2>3. SideOK(i, q, session[i], tasks[i], wire[i], forwarded)
        BY <1>0, <2>1, UnloadSide, Zenon
    <2>4. IsPage(q)
        BY <2>3, Zenon DEF SideOK, SideType
    <2>5. SideOK(i, Failed(q), session[i], tasks[i], wire[i], forwarded)
        BY <2>3, <2>4, FailedAlike, AlikeSide, Zenon
    <2>6. SideOK(i, p, session[i], tasks[i], wire[i], forwarded)
        BY <2>3, <2>5, Zenon
    <2> HIDE DEF p
    <2> QED
        BY <1>1, <1>7, <1>8, <2>2, <2>6, PutStep, Zenon
<1>10. CASE ~page[i].cancelled
    <2> DEFINE p == Backlog(n, signals)
    <2>0. kept = q
        BY <1>0, <1>3, Zenon DEF SideOK, PageOK
    <2>1. Ready(page[i], n)
        BY <1>0, <2>0, ReadyFacts, Zenon
    <2>2. Puts(page, page', i, p) /\ Puts(session, session', i, t) /\ Puts(tasks, tasks', i, us)
        BY <1>6, <1>10, Zenon DEF Puts
    <2> HIDE DEF q, kept, n
    <2>3. Fresh(t)
        BY FreshFacts, Zenon
    <2>4. \A x \in us : x = "offering"
        OBVIOUS
    <2> HIDE DEF t, us, starters
    <2>5. SideOK(i, p, t, us, wire[i], forwarded)
        BY <1>0, <1>3, <1>10, <2>1, <2>3, <2>4, CreatedSide, ZenonT(60)
    <2> HIDE DEF p
    <2> QED
        BY <1>1, <1>7, <1>8, <2>2, <2>5, PutStep, Zenon
<1> QED
    BY <1>9, <1>10, Zenon

LEMMA HandledStep ==
    ASSUME PageInv, NEW i \in Sides, NEW m, NEW p, NEW handled, NEW threw, NEW w,
           SideOK(i, p, session[i], tasks[i], w, forwarded),
           SideOK(i, handled, session[i], tasks[i], w, forwarded),
           SideOK(i, threw, session[i], tasks[i], w, forwarded),
           p.held \/ p.cancelled, handled.held \/ handled.cancelled,
           Fits(i, m, p, session[i], tasks[i], w, forwarded),
           HandleSignal(i, m, p, handled, threw),
           Puts(wire, wire', i, w), forwarded' = forwarded, row' = row,
           i = "sender" => ~Waiting(page[i])
    PROVE  PageInv'
<1>1. Shape
    BY Zenon DEF PageInv
<1>2. /\ SideOK(i, page'[i], session'[i], tasks'[i], w, forwarded)
      /\ Pair(page') /\ Pair(session') /\ Pair(tasks') /\ Others(i)
    BY <1>1, HandleSide, ZenonT(60)
<1>3. Put(wire, wire', i, w)
    BY <1>1, PutsFacts, Zenon DEF Shape
<1>4. Pair(wire') /\ wire'[i] = w /\ \A j \in Sides : j # i => wire'[j] = wire[j]
    BY <1>3, Zenon DEF Put
<1>5. Shape'
    BY <1>2, <1>4, Zenon DEF Shape
<1> QED
    BY <1>2, <1>4, <1>5, OwnStep, Zenon

\* What each side may be sent, by type.
LEMMA InboundTypes ==
    ASSUME NEW i \in Sides, NEW type \in Inbound(i)
    PROVE  /\ type = "transfer_offer" => i = "recipient"
           /\ type \in {"sdp_offer", "sdp_answer"} => type = Description(i)
           /\ type \in {"handshake_offer", "handshake_answer"} /\ i = "sender" => type = "handshake_answer"
           /\ type = "sdp_answer" => i = "sender"
           /\ i = "recipient" /\ type \notin {"transfer_offer", "transfer_ended", "handshake_offer", "sdp_offer"} =>
                 type = "ice_candidate"
BY DEF Inbound, Sides, Description

LEMMA DeliverNoticeStep ==
    ASSUME PageInv, NEW i \in Sides, NEW m \in Message, m.type \in Inbound(i), NEW w,
           SideOK(i, page[i], session[i], tasks[i], w, forwarded),
           Puts(wire, wire', i, w), forwarded' = forwarded, row' = row, DeliverNotice(i, m)
    PROVE  PageInv'
<1> DEFINE o == [page[i] EXCEPT !.listed = "offered"]
           e == [page[i] EXCEPT !.listed = "ended", !.queued = << >>]
           p == IF page[i].held THEN o ELSE Joined(o, m)
           s == IF page[i].held /\ MayStart(session[i]) THEN Negotiate(session[i]) ELSE session[i]
<1>1. /\ tasks' = tasks
      /\ \/ /\ m.type = "transfer_offer"
            /\ page' = [page EXCEPT ![i] = p] /\ session' = [session EXCEPT ![i] = s]
         \/ /\ m.type = "transfer_ended"
            /\ page' = [page EXCEPT ![i] = e] /\ session' = session
    BY DEF DeliverNotice
<1>2. IsPage(page[i]) /\ IsSession(session[i])
    BY Before, Zenon
<1>3. Puts(tasks, tasks', i, tasks[i])
    BY <1>1, Zenon DEF Puts
<1>4. CASE /\ m.type = "transfer_offer"
           /\ page' = [page EXCEPT ![i] = p] /\ session' = [session EXCEPT ![i] = s]
    <2>1. i = "recipient" /\ i # "sender"
        BY <1>4, InboundTypes, ZenonT(60)
    <2>2. Alike(page[i], o)
        BY <1>2, LightAlike, ZenonT(60)
    <2> HIDE DEF o, e
    <2>3. SideOK(i, o, session[i], tasks[i], w, forwarded) /\ o.held = page[i].held
        BY <2>2, AlikeSide, Zenon DEF Alike
    <2>4. Puts(page, page', i, p) /\ Puts(session, session', i, s)
        BY <1>4, Zenon DEF Puts
    <2>5. SideOK(i, p, s, tasks[i], w, forwarded)
        <3>1. CASE page[i].held
            <4>1. SideOK(i, o, Negotiate(session[i]), tasks[i], w, forwarded)
                BY <1>2, <2>3, <3>1, NegotiateCalm, CalmSide, Zenon
            <4> QED
                BY <2>3, <3>1, <4>1, Zenon
        <3>2. CASE ~page[i].held
            <4>1. "transfer_offer" # "sdp_answer" /\ "transfer_offer" # Description(i)
                BY DEF Description
            <4>2. SideOK(i, Joined(o, m), session[i], tasks[i], w, forwarded)
                BY <1>4, <2>1, <2>3, <3>2, <4>1, JoinSide, ZenonT(60)
            <4> QED
                BY <3>2, <4>2, Zenon
        <3> QED
            BY <3>1, <3>2, Zenon
    <2> HIDE DEF p, s
    <2> QED
        BY <1>3, <2>1, <2>4, <2>5, PutStep, Zenon
<1>5. CASE m.type = "transfer_ended" /\ page' = [page EXCEPT ![i] = e] /\ session' = session
    <2>1. Alike(page[i], e)
        BY <1>2, LightAlike, ZenonT(60)
    <2>2. e.listed = "ended" /\ e.busy = page[i].busy /\ "ended" # "offered"
        BY <1>2, Zenon DEF IsPage, PageFields
    <2>3. Puts(page, page', i, e) /\ Puts(session, session', i, session[i])
        BY <1>5, Zenon DEF Puts
    <2> HIDE DEF e, o
    <2>4. SideOK(i, e, session[i], tasks[i], w, forwarded)
        BY <2>1, AlikeSide, Zenon
    <2>5. Waiting(page[i]) => Waiting(e)
        BY <2>1, <2>2, Zenon DEF Waiting, Alike
    <2> QED
        BY <1>3, <2>3, <2>4, <2>5, PutStep, ZenonT(60)
<1> QED
    BY <1>1, <1>4, <1>5, Zenon

\* pruneQueuedSignals
LEMMA PrunedAlike ==
    ASSUME NEW p, IsPage(p), NEW q \in Pruned(p)
    PROVE  Alike(p, q) /\ (Waiting(p) => Waiting(q))
<1> DEFINE e == [p EXCEPT !.queued = << >>]
<1>1. q = p \/ q = e
    BY ZenonT(60) DEF Pruned
<1>2. Alike(p, e)
    BY LightAlike, ZenonT(60)
<1>3. e.listed = p.listed /\ e.busy = p.busy
    BY Zenon DEF IsPage, PageFields
<1> HIDE DEF e
<1>4. Waiting(p) => Waiting(e)
    BY <1>2, <1>3, Zenon DEF Alike, Waiting
<1> QED
    BY <1>1, <1>2, <1>4, AlikeSelf, Zenon

LEMMA EarlySignalStep ==
    ASSUME PageInv, NEW i \in Sides, NEW m \in Message, m.type \in Inbound(i), NEW w, NEW p,
           m.type \notin {"transfer_offer", "transfer_ended"},
           SideOK(i, p, session[i], tasks[i], w, forwarded), ~p.held,
           m.type = Description(i) => Nowhere(Description(i), p, session[i], tasks[i], w, forwarded),
           Waiting(page[i]) => Waiting(p),
           Puts(wire, wire', i, w), forwarded' = forwarded, row' = row, DeliverEarlySignal(i, m, p)
    PROVE  PageInv'
<1> DEFINE x == IF p.listed = "none" THEN "offered" ELSE p.listed
           o == [p EXCEPT !.listed = x]
           q == [p EXCEPT !.queued = Append(@, m)]
<1>1. IsPage(p)
    BY Zenon DEF SideOK, SideType
<1>2. [p EXCEPT !.listed = IF @ = "none" THEN "offered" ELSE @] = o
    BY <1>1, Zenon DEF IsPage, PageFields
<1>3. \/ CreatesSession(i, m) /\ page' = [page EXCEPT ![i] = Joined(o, m)]
      \/ ~CreatesSession(i, m) /\ page' = [page EXCEPT ![i] = q]
      \/ page' = [page EXCEPT ![i] = Failed(p)]
    <2> HIDE DEF o
    <2> QED
        BY <1>2, Zenon DEF DeliverEarlySignal
<1>4. session' = session /\ tasks' = tasks
    BY DEF DeliverEarlySignal
<1>5. Puts(session, session', i, session[i]) /\ Puts(tasks, tasks', i, tasks[i])
    BY <1>4, Zenon DEF Puts
<1>6. CASE CreatesSession(i, m) /\ page' = [page EXCEPT ![i] = Joined(o, m)]
    <2>1. i = "recipient" /\ i # "sender" /\ m.type # "sdp_answer"
        BY <1>6 DEF CreatesSession
    <2> HIDE DEF x
    <2>2. Alike(p, o)
        BY <1>1, LightAlike, Zenon
    <2>3. Puts(page, page', i, Joined(o, m))
        BY <1>6, Zenon DEF Puts
    <2> HIDE DEF o, q
    <2>4. /\ SideOK(i, o, session[i], tasks[i], w, forwarded) /\ ~o.held
          /\ o.loads = p.loads /\ o.todo = p.todo
        BY <2>2, AlikeSide, Zenon DEF Alike
    <2>5. m.type = Description(i) => Nowhere(Description(i), o, session[i], tasks[i], w, forwarded)
        BY <2>4, Zenon DEF Nowhere
    <2>6. SideOK(i, Joined(o, m), session[i], tasks[i], w, forwarded)
        BY <2>1, <2>4, <2>5, JoinSide, Zenon
    <2> QED
        BY <1>5, <2>1, <2>3, <2>6, PutStep, Zenon
<1>7. CASE ~CreatesSession(i, m) /\ page' = [page EXCEPT ![i] = q]
    <2>1. i = "recipient" => m.type = "ice_candidate"
        <3>1. i = "recipient" => m.type \notin {"transfer_offer", "transfer_ended", "handshake_offer", "sdp_offer"}
            BY <1>7 DEF CreatesSession
        <3> QED
            BY <3>1, InboundTypes, Zenon
    <2>2. SideOK(i, q, session[i], tasks[i], w, forwarded) /\ (Waiting(p) => Waiting(q))
        BY <2>1, QueueSide, Zenon
    <2>3. Puts(page, page', i, q)
        BY <1>7, Zenon DEF Puts
    <2> HIDE DEF q, o, x
    <2> QED
        BY <1>5, <2>2, <2>3, PutStep, Zenon
<1>8. CASE page' = [page EXCEPT ![i] = Failed(p)]
    <2> HIDE DEF q, o, x
    <2>1. Alike(p, Failed(p)) /\ (Waiting(p) => Waiting(Failed(p)))
        BY <1>1, FailedAlike, Zenon
    <2>2. SideOK(i, Failed(p), session[i], tasks[i], w, forwarded)
        BY <2>1, AlikeSide, Zenon
    <2>3. Puts(page, page', i, Failed(p))
        BY <1>8, Zenon DEF Puts
    <2> QED
        BY <1>5, <2>1, <2>2, <2>3, PutStep, Zenon
<1> QED
    BY <1>3, <1>6, <1>7, <1>8, Zenon

LEMMA DeliverStep ==
    ASSUME PageInv, NEW i \in Sides, Deliver(i)
    PROVE  PageInv'
<1> DEFINE m == Head(wire[i])
           w == Tail(wire[i])
           d == Description(i)
<1>0. /\ IsPage(page[i]) /\ IsSession(session[i])
      /\ SideOK(i, page[i], session[i], tasks[i], wire[i], forwarded)
    BY Before, Zenon
<1>1. /\ wire[i] # << >> /\ wire' = [wire EXCEPT ![i] = w] /\ forwarded' = forwarded /\ row' = row
      /\ \/ DeliverNotice(i, m)
         \/ /\ m.type \notin {"transfer_offer", "transfer_ended"}
            /\ \E p \in Pruned(page[i]) :
                  IF p.held THEN HandleSignal(i, m, p, p, Failed(p)) ELSE DeliverEarlySignal(i, m, p)
    <2>1. forwarded' = forwarded /\ row' = row
        BY DEF Deliver
    <2> QED
        BY <2>1, Zenon DEF Deliver
<1>2. /\ SideOK(i, page[i], session[i], tasks[i], w, forwarded)
      /\ m \in Message /\ m.type \in Inbound(i)
      /\ m.type = d => Nowhere(d, page[i], session[i], tasks[i], w, forwarded)
      /\ i = "sender" /\ m.type = "handshake_answer" => Unanswered(session[i], tasks[i], w, forwarded)
    BY <1>0, <1>1, TakenSide, Zenon
<1>3. Puts(wire, wire', i, w)
    BY <1>1, Zenon DEF Puts
<1> HIDE DEF m, w
<1>4. CASE DeliverNotice(i, m)
    BY <1>1, <1>2, <1>3, <1>4, DeliverNoticeStep, Zenon
<1>5. CASE /\ m.type \notin {"transfer_offer", "transfer_ended"}
           /\ \E p \in Pruned(page[i]) :
                 IF p.held THEN HandleSignal(i, m, p, p, Failed(p)) ELSE DeliverEarlySignal(i, m, p)
    <2>1. PICK p \in Pruned(page[i]) :
                IF p.held THEN HandleSignal(i, m, p, p, Failed(p)) ELSE DeliverEarlySignal(i, m, p)
        BY <1>5, Zenon
    <2>2. Alike(page[i], p) /\ (Waiting(page[i]) => Waiting(p))
        BY <1>0, PrunedAlike, Zenon
    <2>3. SideOK(i, p, session[i], tasks[i], w, forwarded)
        BY <1>2, <2>2, AlikeSide, Zenon
    <2>4. p.loads = page[i].loads /\ p.todo = page[i].todo /\ p.held = page[i].held /\ IsPage(p)
        BY <2>2, Zenon DEF Alike
    <2>5. m.type = d => Nowhere(d, p, session[i], tasks[i], w, forwarded)
        BY <1>2, <2>4, Zenon DEF Nowhere
    <2>6. CASE p.held
        <3>1. HandleSignal(i, m, p, p, Failed(p))
            BY <2>1, <2>6, Zenon
        <3>2. SideOK(i, Failed(p), session[i], tasks[i], w, forwarded)
            BY <2>3, <2>4, FailedAlike, AlikeSide, Zenon
        <3>3. /\ m.type \in {"sdp_offer", "sdp_answer"} => m.type = d
              /\ m.type \in {"handshake_offer", "handshake_answer"} /\ i = "sender" =>
                    m.type = "handshake_answer"
            <4>1. m.type \in Inbound(i)
                BY <1>2, Zenon
            <4> QED
                BY <4>1, InboundTypes
        <3>4. Fits(i, m, p, session[i], tasks[i], w, forwarded)
            BY <1>2, <2>5, <3>3, Zenon DEF Fits, Nowhere
        <3>5. ~Waiting(page[i])
            BY <2>4, <2>6, Zenon DEF Waiting
        <3> QED
            BY <1>1, <1>3, <2>3, <2>6, <3>1, <3>2, <3>4, <3>5, HandledStep, ZenonT(60)
    <2>7. CASE ~p.held
        <3>1. DeliverEarlySignal(i, m, p)
            BY <2>1, <2>7, Zenon
        <3> QED
            BY <1>1, <1>2, <1>3, <1>5, <2>2, <2>3, <2>5, <2>7, <3>1, EarlySignalStep, ZenonT(60)
    <2> QED
        BY <2>6, <2>7, Zenon
<1> QED
    BY <1>1, <1>4, <1>5, ZenonT(60)

LEMMA DriveStep ==
    ASSUME PageInv, NEW i \in Sides, Drive(i)
    PROVE  PageInv'
<1> DEFINE p == page[i]
           m == Head(page[i].todo)
           d == Description(i)
           h == [p EXCEPT !.todo = Tail(page[i].todo)]
           e == [p EXCEPT !.todo = << >>]
<1>0. IsPage(p) /\ SideOK(i, p, session[i], tasks[i], wire[i], forwarded)
    BY Before, Zenon
<1>1. /\ p.todo # << >> /\ Under(m.type) \cap tasks[i] = {}
      /\ HandleSignal(i, m, p, h, Failed(e))
      /\ wire' = wire /\ forwarded' = forwarded /\ row' = row
    <2>1. wire' = wire /\ forwarded' = forwarded /\ row' = row
        BY DEF Drive
    <2> QED
        BY <2>1, Zenon DEF Drive
<1>2. i = "recipient" /\ i # "sender" /\ d = "sdp_offer"
    <2>1. i # "sender"
        BY <1>0, <1>1, Zenon DEF SideOK, SenderPageOK
    <2> QED
        BY <2>1 DEF Sides, Description
<1>3. p.held \/ p.cancelled
    BY <1>1, SomeSession, Zenon
<1>4. p.todo \in Seq(Message) /\ Described(d, p.loads, p.todo, session[i].remote, tasks[i], wire[i], forwarded)
    BY <1>0, Zenon DEF SideOK, IsPage
<1>5. /\ Tail(p.todo) \in Seq(Message)
      /\ m.type = d => Carries(p.todo, d)
      /\ Carries(Tail(p.todo), d) => Carries(p.todo, d)
      /\ Once(p.todo, d) => Once(Tail(p.todo), d)
      /\ Once(p.todo, d) /\ m.type = d => ~Carries(Tail(p.todo), d)
    BY <1>1, <1>4, TailCarries, Zenon
<1>6. /\ Carries(Tail(p.todo), "sdp_answer") => Carries(p.todo, "sdp_answer")
      /\ m.type = "sdp_answer" => Carries(p.todo, "sdp_answer")
    BY <1>1, <1>4, TailCarries, Zenon
<1>7. ~Carries(Tail(p.todo), "sdp_answer") /\ m.type # "sdp_answer"
    BY <1>4, <1>6, Zenon DEF Described
<1>8. /\ Once(Tail(p.todo), d)
      /\ Carries(Tail(p.todo), d) => Carries(p.todo, d) /\ ~Taken(session[i].remote, tasks[i])
    BY <1>4, <1>5, Zenon DEF Described
<1>9. SideOK(i, h, session[i], tasks[i], wire[i], forwarded)
    BY <1>0, <1>1, <1>5, <1>7, <1>8, TodoSide, ZenonT(60)
<1>10. IsPage(e) /\ SideOK(i, e, session[i], tasks[i], wire[i], forwarded)
    <2>1. << >> \in Seq(Message) /\ Once(<< >>, d) /\ ~Carries(<< >>, d) /\ ~Carries(<< >>, "sdp_answer")
        BY EmptyCarries
    <2> QED
        BY <1>0, <2>1, TodoSide, Zenon
<1>11. h.held \/ h.cancelled
    BY <1>0, <1>3, Zenon DEF IsPage, PageFields
<1> HIDE DEF h, e
<1>12. SideOK(i, Failed(e), session[i], tasks[i], wire[i], forwarded)
    BY <1>10, FailedAlike, AlikeSide, Zenon
<1>13. Fits(i, m, p, session[i], tasks[i], wire[i], forwarded)
    <2>1. CASE m.type = "sdp_offer"
        <3>1. ~Handling(tasks[i])
            BY <1>1, <2>1 DEF Under, Handling
        <3>2. Carries(p.todo, d)
            BY <1>2, <1>5, <2>1, Zenon
        <3> HIDE DEF m, p
        <3>3. /\ d \in forwarded /\ ~Carries(wire[i], d) /\ ~Awaited(p.loads, d)
              /\ ~Taken(session[i].remote, tasks[i])
            BY <1>4, <3>1, <3>2, Zenon DEF Described
        <3>4. m.type \notin {"handshake_offer", "handshake_answer"}
            BY <2>1
        <3>5. Head(p.todo).type = d
            BY <1>2, <2>1, Zenon DEF m, p
        <3> QED
            BY <3>3, <3>4, <3>5, Zenon DEF Fits
    <2>2. CASE m.type # "sdp_offer"
        BY <1>2, <1>7, <2>2, Zenon DEF Fits
    <2> QED
        BY <2>1, <2>2, Zenon
<1>14. Puts(wire, wire', i, wire[i])
    BY <1>1, Zenon DEF Puts
<1> HIDE DEF m
<1> QED
    BY <1>0, <1>1, <1>2, <1>3, <1>9, <1>11, <1>12, <1>13, <1>14, HandledStep, ZenonT(60)

\* An await of side i is over and another may begin.
LEMMA MovesFacts ==
    ASSUME PageInv, NEW i \in Sides, NEW from, NEW to, Moves(i, from, to)
    PROVE  /\ from \in tasks[i] /\ row' = row
           /\ Puts(tasks, tasks', i, (tasks[i] \ {from}) \cup to)
           /\ page[i].held \/ page[i].cancelled
<1>1. from \in tasks[i] /\ row' = row /\ tasks' = [tasks EXCEPT ![i] = (@ \ {from}) \cup to]
    BY DEF Moves
<1>2. tasks[i] # {}
    BY <1>1
<1> QED
    BY <1>1, <1>2, SomeSession, Zenon DEF Puts

LEMMA OfferMadeStep ==
    ASSUME PageInv, OfferMade
    PROVE  PageInv'
<1> DEFINE i == "sender"
           s == [session[i] EXCEPT !.offer = TRUE]
           f == SetState(s, "failed")
           ts == (tasks[i] \ {"offering"}) \cup {}
           m == Signal("handshake_offer")
<1>0. i \in Sides /\ i = "sender" /\ Other(i) = "recipient"
    BY DEF Sides, Other
<1>1. /\ Moves(i, "offering", {})
      /\ \/ Sent(i, m) /\ session' = [session EXCEPT ![i] = s] /\ page' = page
         \/ /\ Offline /\ session' = [session EXCEPT ![i] = f]
            /\ page' = [page EXCEPT ![i] = Shown(page[i], s, f)]
    BY Zenon DEF OfferMade
<1>2. /\ IsPage(page[i]) /\ IsSession(session[i])
      /\ SideOK(i, page[i], session[i], tasks[i], wire[i], forwarded)
    BY <1>0, Before, Zenon
<1>3. row' = row /\ Puts(tasks, tasks', i, ts) /\ (page[i].held \/ page[i].cancelled)
    BY <1>0, <1>1, MovesFacts, Zenon
<1>4. Calm(session[i], s)
    BY <1>2, FieldCalm, Zenon
<1>5. IsSession(s)
    BY <1>4, Zenon DEF Calm
<1> HIDE DEF s
<1>6. Calm(session[i], f)
    BY <1>4, <1>5, SetStateCalm, CalmTrans, Zenon
<1> HIDE DEF f
<1>7. /\ "checking" \in ts => "checking" \in tasks[i]
      /\ "applying" \in ts => "applying" \in tasks[i]
      /\ "flushing" \in tasks[i] => "flushing" \in ts
      /\ Handling(tasks[i]) => Handling(ts)
    BY DEF Handling
<1> HIDE DEF ts
<1>8. SideOK(i, page[i], session[i], ts, wire[i], forwarded)
    BY <1>2, <1>3, <1>7, TasksSide, ZenonT(60)
<1>9. CASE Sent(i, m) /\ session' = [session EXCEPT ![i] = s] /\ page' = page
    <2>1. SideOK(i, page[i], s, ts, wire[i], forwarded)
        BY <1>3, <1>4, <1>8, CalmSide, ZenonT(60)
    <2>2. Emit(i, m)
        BY <1>9, Zenon DEF Sent
    <2>3. m \in Message /\ m.type = "handshake_offer"
        BY MessageFacts DEF MessageTypes, SingleUse
    <2> HIDE DEF m
    <2>4. m.type \in Inbound(Other(i)) /\ i # "recipient"
        BY <1>0, <2>3, Zenon DEF Inbound
    <2>5. Puts(page, page', i, page[i]) /\ Puts(session, session', i, s)
        BY <1>9, Zenon DEF Puts
    <2> HIDE DEF i
    <2> QED
        BY <1>0, <1>3, <2>1, <2>2, <2>3, <2>4, <2>5, SendPut, ZenonT(60)
<1>10. CASE /\ Offline /\ session' = [session EXCEPT ![i] = f]
            /\ page' = [page EXCEPT ![i] = Shown(page[i], s, f)]
    <2> DEFINE p == Shown(page[i], s, f)
    <2>1. Alike(page[i], p) /\ (Waiting(page[i]) => Waiting(p))
        BY <1>2, ShownAlike, Zenon
    <2>2. Puts(page, page', i, p) /\ Puts(session, session', i, f)
        BY <1>10, Zenon DEF Puts
    <2> HIDE DEF p, i
    <2>3. SideOK(i, p, f, ts, wire[i], forwarded)
        BY <1>3, <1>6, <1>8, <2>1, QuietSide, ZenonT(60)
    <2>4. wire' = wire /\ forwarded' = forwarded
        BY <1>10 DEF Offline
    <2>5. Puts(wire, wire', i, wire[i])
        BY <2>4, Zenon DEF Puts
    <2> QED
        BY <1>0, <1>3, <2>1, <2>2, <2>3, <2>4, <2>5, PutStep, ZenonT(60)
<1> QED
    BY <1>1, <1>9, <1>10, Zenon

\* A handler has returned, or has thrown: its await is over.
LEMMA ReturnSide ==
    ASSUME NEW i \in Sides, NEW p, NEW s, NEW ts, NEW w, NEW f, SideOK(i, p, s, ts, w, f),
           NEW from \in ts, NEW type, NEW q, q \in {Done(p, type), Threw(p, type)},
           \/ from \notin {"applying", "flushing", "answering"}
           \/ type = Description(i) \/ i = "sender",
           from # "flushing" \/ s.flush = {}
    PROVE  /\ SideOK(i, q, s, (ts \ {from}) \cup {}, w, f) /\ (Waiting(p) => Waiting(q))
           /\ q.held \/ q.cancelled
<1> DEFINE us == (ts \ {from}) \cup {}
<1>1. /\ SideOK(i, q, s, ts, w, f) /\ (Waiting(p) => Waiting(q))
      /\ type = Description(i) \/ i = "sender" =>
            ~(Carries(q.todo, Description(i)) /\ Taken(s.remote, ts))
    BY DoneSide, Zenon
<1>2. ts # {}
    OBVIOUS
<1>3. q.held \/ q.cancelled
    BY <1>1, <1>2, Present, Zenon
<1>4. /\ "checking" \in us => "checking" \in ts
      /\ "applying" \in us => "applying" \in ts
      /\ "flushing" \in ts => "flushing" \in us \/ s.flush = {}
      /\ from \notin {"applying", "flushing", "answering"} /\ Handling(ts) => Handling(us)
    BY DEF Handling
<1> HIDE DEF us
<1>5. SideOK(i, q, s, us, w, f)
    BY <1>1, <1>3, <1>4, TasksSide, Zenon
<1> QED
    BY <1>1, <1>3, <1>5, Zenon DEF us

LEMMA CheckFailsStep ==
    ASSUME PageInv, NEW i \in Sides, CheckFails(i)
    PROVE  PageInv'
<1> DEFINE p == Threw(page[i], "handshake_offer")
           ts == (tasks[i] \ {"checking"}) \cup {}
<1>1. /\ Moves(i, "checking", {}) /\ page' = [page EXCEPT ![i] = p]
      /\ session' = session /\ wire' = wire /\ forwarded' = forwarded
    BY DEF CheckFails
<1>2. "checking" \in tasks[i] /\ row' = row /\ Puts(tasks, tasks', i, ts)
    BY <1>1, MovesFacts, Zenon
<1>3. "checking" \notin {"applying", "flushing", "answering"} /\ "checking" # "flushing"
    OBVIOUS
<1>4. SideOK(i, p, session[i], ts, wire[i], forwarded) /\ (Waiting(page[i]) => Waiting(p))
    BY <1>2, <1>3, Before, ReturnSide, Zenon
<1> HIDE DEF p, ts
<1>5. Puts(page, page', i, p) /\ Puts(session, session', i, session[i]) /\ Puts(wire, wire', i, wire[i])
    BY <1>1, Zenon DEF Puts
<1> QED
    BY <1>1, <1>2, <1>4, <1>5, PutStep, Zenon

LEMMA AnswersStep ==
    ASSUME PageInv, Answers
    PROVE  PageInv'
<1> DEFINE i == "recipient"
           s == [session[i] EXCEPT !.material = TRUE]
           p == CreateFileEngine(page[i], s)
           ts == (tasks[i] \ {"checking"}) \cup {}
           m == Signal("handshake_answer")
           type == "handshake_offer"
<1>0. i \in Sides /\ i # "sender" /\ Other(i) = "sender"
    BY DEF Sides, Other
<1>1. /\ Moves(i, "checking", {}) /\ session' = [session EXCEPT ![i] = s]
      /\ \/ Sent(i, m) /\ page' = [page EXCEPT ![i] = Done(p, type)]
         \/ Offline /\ page' = [page EXCEPT ![i] = Threw(p, type)]
    BY Zenon DEF Answers
<1>2. /\ IsPage(page[i]) /\ IsSession(session[i])
      /\ SideOK(i, page[i], session[i], tasks[i], wire[i], forwarded)
    BY <1>0, Before, Zenon
<1>3. "checking" \in tasks[i] /\ row' = row /\ Puts(tasks, tasks', i, ts) /\ (page[i].held \/ page[i].cancelled)
    BY <1>0, <1>1, MovesFacts, Zenon
<1>4. Calm(session[i], s) /\ s.material
    BY <1>2, MaterialCalm, Zenon
<1> HIDE DEF s
<1>5. Alike(page[i], p)
    BY <1>2, EngineAlike, Zenon
<1> HIDE DEF p
<1>6. SideOK(i, p, s, tasks[i], wire[i], forwarded)
    BY <1>2, <1>3, <1>4, <1>5, QuietSide, Zenon
<1>7. "checking" \notin {"applying", "flushing", "answering"} /\ "checking" # "flushing"
    OBVIOUS
<1>8. /\ SideOK(i, Done(p, type), s, ts, wire[i], forwarded)
      /\ SideOK(i, Threw(p, type), s, ts, wire[i], forwarded)
    BY <1>0, <1>3, <1>6, <1>7, ReturnSide, Zenon
<1> HIDE DEF ts, type
<1>9. Puts(session, session', i, s)
    BY <1>1, Zenon DEF Puts
<1>10. CASE Sent(i, m) /\ page' = [page EXCEPT ![i] = Done(p, type)]
    <2>1. m \in Message /\ m.type = "handshake_answer"
        BY MessageFacts DEF MessageTypes, SingleUse
    <2>2. Emit(i, m)
        BY <1>10, Zenon DEF Sent
    <2> HIDE DEF m
    <2>3. m.type \in Inbound(Other(i))
        BY <1>0, <2>1 DEF Inbound
    <2>4. Puts(page, page', i, Done(p, type))
        BY <1>10, Zenon DEF Puts
    <2> HIDE DEF i
    <2> QED
        BY <1>0, <1>3, <1>4, <1>8, <1>9, <2>1, <2>2, <2>3, <2>4, SendPut, ZenonT(60)
<1>11. CASE Offline /\ page' = [page EXCEPT ![i] = Threw(p, type)]
    <2>1. wire' = wire /\ forwarded' = forwarded
        BY <1>11 DEF Offline
    <2>2. Puts(page, page', i, Threw(p, type)) /\ Puts(wire, wire', i, wire[i])
        BY <1>11, <2>1, Zenon DEF Puts
    <2> HIDE DEF i, m
    <2> QED
        BY <1>0, <1>3, <1>8, <1>9, <2>1, <2>2, PutStep, ZenonT(60)
<1> QED
    BY <1>1, <1>10, <1>11, Zenon

LEMMA StartsNegotiationStep ==
    ASSUME PageInv, StartsNegotiation
    PROVE  PageInv'
<1> DEFINE i == "sender"
           s == [session[i] EXCEPT !.material = TRUE]
           p == CreateFileEngine(page[i], s)
           c == [s EXCEPT !.channel = "made"]
           ts == (tasks[i] \ {"checking"}) \cup {}
           us == (tasks[i] \ {"checking"}) \cup {"describing"}
<1>0. i \in Sides /\ i = "sender"
    BY DEF Sides
<1>1. /\ wire' = wire /\ forwarded' = forwarded
      /\ IsOpen(s) => /\ Moves(i, "checking", {"describing"})
                      /\ session' = [session EXCEPT ![i] = c] /\ page' = [page EXCEPT ![i] = p]
      /\ ~IsOpen(s) => /\ Moves(i, "checking", {})
                       /\ session' = [session EXCEPT ![i] = s] /\ page' = [page EXCEPT ![i] = Failed(p)]
    <2>1. wire' = wire /\ forwarded' = forwarded
        BY DEF StartsNegotiation
    <2> QED
        BY <2>1, Zenon DEF StartsNegotiation
<1>2. /\ IsPage(page[i]) /\ IsSession(session[i])
      /\ SideOK(i, page[i], session[i], tasks[i], wire[i], forwarded)
    BY <1>0, Before, Zenon
<1>3. /\ "checking" \in tasks[i] /\ row' = row /\ (page[i].held \/ page[i].cancelled)
      /\ IsOpen(s) => Puts(tasks, tasks', i, us)
      /\ ~IsOpen(s) => Puts(tasks, tasks', i, ts)
    <2> HIDE DEF s
    <2> QED
        BY <1>0, <1>1, MovesFacts, Zenon
<1>4. Calm(session[i], s) /\ s.material
    BY <1>2, MaterialCalm, Zenon
<1> HIDE DEF s
<1>5. Alike(page[i], p) /\ (Waiting(page[i]) => Waiting(p))
    BY <1>2, EngineAlike, Zenon
<1> HIDE DEF p
<1>6. SideOK(i, p, s, tasks[i], wire[i], forwarded) /\ (p.held \/ p.cancelled)
    BY <1>2, <1>3, <1>4, <1>5, QuietSide, Zenon
<1>7. Puts(wire, wire', i, wire[i])
    BY <1>1, Zenon DEF Puts
<1>8. CASE IsOpen(s)
    <2>1. s.connection \notin {"none", "closed"}
        BY <1>8 DEF IsOpen
    <2>2. /\ "checking" \notin us /\ ("applying" \in us <=> "applying" \in tasks[i])
          /\ "flushing" \in tasks[i] => "flushing" \in us
          /\ Handling(us) <=> Handling(tasks[i])
        BY DEF Handling
    <2> HIDE DEF us, ts
    <2>3. SideOK(i, p, c, us, wire[i], forwarded)
        BY <1>3, <1>4, <1>6, <2>1, <2>2, MadeSide, ZenonT(60)
    <2>4. Puts(page, page', i, p) /\ Puts(session, session', i, c)
        BY <1>1, <1>8, Zenon DEF Puts
    <2> HIDE DEF c, i
    <2> QED
        BY <1>0, <1>1, <1>3, <1>5, <1>7, <1>8, <2>3, <2>4, PutStep, ZenonT(60)
<1>9. CASE ~IsOpen(s)
    <2>1. /\ "checking" \in ts => "checking" \in tasks[i]
          /\ "applying" \in ts => "applying" \in tasks[i]
          /\ "flushing" \in tasks[i] => "flushing" \in ts
          /\ Handling(tasks[i]) => Handling(ts)
        BY DEF Handling
    <2> HIDE DEF us, ts
    <2>2. SideOK(i, p, s, ts, wire[i], forwarded) /\ IsPage(p)
        BY <1>5, <1>6, <2>1, TasksSide, Zenon DEF Alike
    <2>3. Alike(p, Failed(p)) /\ (Waiting(p) => Waiting(Failed(p)))
        BY <2>2, FailedAlike, Zenon
    <2>4. SideOK(i, Failed(p), s, ts, wire[i], forwarded)
        BY <2>2, <2>3, AlikeSide, Zenon
    <2>5. Puts(page, page', i, Failed(p)) /\ Puts(session, session', i, s)
        BY <1>1, <1>9, Zenon DEF Puts
    <2> HIDE DEF c, i
    <2> QED
        BY <1>0, <1>1, <1>3, <1>5, <1>7, <1>9, <2>3, <2>4, <2>5, PutStep, ZenonT(60)
<1> QED
    BY <1>8, <1>9, Zenon

LEMMA DescribesStep ==
    ASSUME PageInv, NEW i \in Sides, NEW task, NEW type, NEW answered, Describes(i, task, type, answered),
           type \in MessageTypes, type \in Inbound(Other(i)), type # "handshake_answer",
           task # "flushing",
           \/ task \notin {"applying", "flushing", "answering"}
           \/ answered = Description(i) \/ i = "sender"
    PROVE  PageInv'
<1> DEFINE s == [session[i] EXCEPT !.local = TRUE]
           ts == (tasks[i] \ {task}) \cup {}
           m == Signal(type)
           done == Done(page[i], answered)
           threw == Threw(page[i], answered)
<1>1. /\ Moves(i, task, {})
      /\ \/ Sent(i, m) /\ session' = [session EXCEPT ![i] = s] /\ page' = [page EXCEPT ![i] = done]
         \/ Offline /\ session' = [session EXCEPT ![i] = s] /\ page' = [page EXCEPT ![i] = threw]
         \/ /\ Throws(i, answered) /\ session' = session /\ wire' = wire /\ forwarded' = forwarded
    BY DEF Describes
<1>2. /\ IsPage(page[i]) /\ IsSession(session[i])
      /\ SideOK(i, page[i], session[i], tasks[i], wire[i], forwarded)
    BY Before, Zenon
<1>3. task \in tasks[i] /\ row' = row /\ Puts(tasks, tasks', i, ts)
    BY <1>1, MovesFacts, Zenon
<1>4. Calm(session[i], s)
    BY <1>2, FieldCalm, Zenon
<1>5. done \in {done, threw} /\ threw \in {done, threw}
    OBVIOUS
<1>6. /\ SideOK(i, done, session[i], ts, wire[i], forwarded) /\ (Waiting(page[i]) => Waiting(done))
      /\ done.held \/ done.cancelled
    BY <1>2, <1>3, <1>5, ReturnSide, Zenon
<1>7. /\ SideOK(i, threw, session[i], ts, wire[i], forwarded) /\ (Waiting(page[i]) => Waiting(threw))
      /\ threw.held \/ threw.cancelled
    BY <1>2, <1>3, <1>5, ReturnSide, Zenon
<1> HIDE DEF s, ts, done, threw
<1>8. CASE Sent(i, m) /\ session' = [session EXCEPT ![i] = s] /\ page' = [page EXCEPT ![i] = done]
    <2>1. SideOK(i, done, s, ts, wire[i], forwarded)
        BY <1>4, <1>6, CalmSide, Zenon
    <2>2. m \in Message /\ m.type = type
        BY MessageFacts, Zenon
    <2>3. Emit(i, m)
        BY <1>8, Zenon DEF Sent
    <2> HIDE DEF m
    <2>4. Puts(page, page', i, done) /\ Puts(session, session', i, s)
        BY <1>8, Zenon DEF Puts
    <2>5. m.type \in Inbound(Other(i)) /\ m.type # "handshake_answer"
        BY <2>2, Zenon
    <2> QED
        BY <1>3, <1>6, <2>1, <2>2, <2>3, <2>4, <2>5, SendPut, ZenonT(60)
<1> HIDE DEF m
<1>9. CASE Offline /\ session' = [session EXCEPT ![i] = s] /\ page' = [page EXCEPT ![i] = threw]
    <2>1. SideOK(i, threw, s, ts, wire[i], forwarded)
        BY <1>4, <1>7, CalmSide, Zenon
    <2>2. wire' = wire /\ forwarded' = forwarded
        BY <1>9 DEF Offline
    <2>3. Puts(page, page', i, threw) /\ Puts(session, session', i, s) /\ Puts(wire, wire', i, wire[i])
        BY <1>9, <2>2, Zenon DEF Puts
    <2> QED
        BY <1>3, <1>7, <2>1, <2>2, <2>3, PutStep, ZenonT(60)
<1>10. CASE Throws(i, answered) /\ session' = session /\ wire' = wire /\ forwarded' = forwarded
    <2>1. page' = [page EXCEPT ![i] = threw]
        BY <1>10, Zenon DEF Throws, threw
    <2>2. /\ Puts(page, page', i, threw) /\ Puts(session, session', i, session[i])
          /\ Puts(wire, wire', i, wire[i])
        BY <1>10, <2>1, Zenon DEF Puts
    <2> QED
        BY <1>3, <1>7, <1>10, <2>2, PutStep, ZenonT(60)
<1> QED
    BY <1>1, <1>8, <1>9, <1>10, ZenonT(60)

LEMMA SendsOfferStep ==
    ASSUME PageInv, SendsOffer
    PROVE  PageInv'
<1>1. Describes("sender", "describing", "sdp_offer", "handshake_answer")
    BY Zenon DEF SendsOffer
<1>2. /\ "sender" \in Sides /\ Other("sender") = "recipient" /\ "sdp_offer" \in MessageTypes
      /\ "sdp_offer" \in Inbound("recipient") /\ "sdp_offer" # "handshake_answer"
      /\ "describing" # "flushing"
    BY DEF Sides, Other, MessageTypes, SingleUse, Inbound
<1> QED
    BY <1>1, <1>2, DescribesStep, Zenon

LEMMA SendsAnswerStep ==
    ASSUME PageInv, SendsAnswer
    PROVE  PageInv'
<1>1. Describes("recipient", "answering", "sdp_answer", "sdp_offer")
    BY Zenon DEF SendsAnswer
<1>2. /\ "recipient" \in Sides /\ Other("recipient") = "sender" /\ "sdp_answer" \in MessageTypes
      /\ "sdp_answer" \in Inbound("sender") /\ "sdp_answer" # "handshake_answer"
      /\ "sdp_offer" = Description("recipient") /\ "answering" # "flushing"
    BY DEF Sides, Other, MessageTypes, SingleUse, Inbound, Description
<1> QED
    BY <1>1, <1>2, DescribesStep, Zenon

\* The same for the handler of the description that the side waits for.
Handled(i, type, from, s) ==
    (type = Description(i) \/ i = "sender") /\ (from # "flushing" \/ s.flush = {})

LEMMA ThrowSide ==
    ASSUME NEW i \in Sides, NEW p, NEW s, NEW ts, NEW w, NEW f, SideOK(i, p, s, ts, w, f),
           NEW from \in ts, NEW type, NEW q, q = Threw(p, type),
           Handled(i, type, from, s)
    PROVE  SideOK(i, q, s, (ts \ {from}) \cup {}, w, f) /\ (Waiting(p) => Waiting(q))
<1>1. q \in {Done(p, type), Threw(p, type)}
    BY Zenon
<1> QED
    BY <1>1, ReturnSide, ZenonT(60) DEF Handled

\* A description or a candidate is refused: the handler of the offer throws.
LEMMA ThrowsStep ==
    ASSUME PageInv, NEW i \in Sides, NEW from, Moves(i, from, {}), NEW s,
           SideOK(i, page[i], s, tasks[i], wire[i], forwarded), from # "flushing" \/ s.flush = {},
           page' = [page EXCEPT ![i] = Threw(@, "sdp_offer")],
           Puts(session, session', i, s), wire' = wire, forwarded' = forwarded
    PROVE  PageInv'
<1> DEFINE p == Threw(page[i], "sdp_offer")
           ts == (tasks[i] \ {from}) \cup {}
<1>1. from \in tasks[i] /\ row' = row /\ Puts(tasks, tasks', i, ts)
    BY MovesFacts, Zenon
<1>2. Handled(i, "sdp_offer", from, s)
    <2>1. "sdp_offer" = Description(i) \/ i = "sender"
        BY DEF Sides, Description
    <2> QED
        BY <2>1, Zenon DEF Handled
<1>3. p = Threw(page[i], "sdp_offer")
    OBVIOUS
<1>4. page' = [page EXCEPT ![i] = p]
    BY Zenon
<1> HIDE DEF p
<1>5. SideOK(i, p, s, ts, wire[i], forwarded) /\ (Waiting(page[i]) => Waiting(p))
    <2>2. from \in tasks[i]
        BY <1>1, Zenon
    <2> QED
        BY <1>2, <1>3, <2>2, ThrowSide, ZenonT(60)
<1> HIDE DEF ts
<1>6. Puts(page, page', i, p) /\ Puts(wire, wire', i, wire[i])
    BY <1>4, Zenon DEF Puts
<1> QED
    BY <1>1, <1>5, <1>6, PutStep, ZenonT(60)

LEMMA AppliedStep ==
    ASSUME PageInv, NEW i \in Sides, Applied(i)
    PROVE  PageInv'
<1>1. /\ wire' = wire /\ forwarded' = forwarded
      /\ \/ /\ Moves(i, "applying", {"flushing"}) /\ page' = page
            /\ session' = [session EXCEPT ![i] = RemoteSet(session[i])]
         \/ Moves(i, "applying", {}) /\ Throws(i, "sdp_offer") /\ session' = session
    BY DEF Applied
<1>2. CASE Moves(i, "applying", {}) /\ Throws(i, "sdp_offer") /\ session' = session
    <2>1. page' = [page EXCEPT ![i] = Threw(@, "sdp_offer")] /\ "applying" # "flushing"
        BY <1>2 DEF Throws
    <2>2. Puts(session, session', i, session[i])
        BY <1>2, Zenon DEF Puts
    <2> QED
        BY <1>1, <1>2, <2>1, <2>2, Before, ThrowsStep, Zenon
<1>3. CASE /\ Moves(i, "applying", {"flushing"}) /\ page' = page
           /\ session' = [session EXCEPT ![i] = RemoteSet(session[i])]
    <2> DEFINE ts == (tasks[i] \ {"applying"}) \cup {"flushing"}
               s == RemoteSet(session[i])
    <2>1. "applying" \in tasks[i] /\ row' = row /\ Puts(tasks, tasks', i, ts)
        BY <1>3, MovesFacts, Zenon
    <2>2. SideOK(i, page[i], s, ts, wire[i], forwarded)
        BY <2>1, Before, RemoteSide, Zenon
    <2> HIDE DEF ts, s
    <2>3. Puts(page, page', i, page[i]) /\ Puts(session, session', i, s) /\ Puts(wire, wire', i, wire[i])
        BY <1>1, <1>3, Zenon DEF Puts, s
    <2> QED
        BY <1>1, <2>1, <2>2, <2>3, PutStep, Zenon
<1> QED
    BY <1>1, <1>2, <1>3, Zenon

LEMMA FlushesStep ==
    ASSUME PageInv, NEW i \in Sides, Flushes(i)
    PROVE  PageInv'
<1> DEFINE next == IF i = "recipient" THEN {"answering"} ELSE {}
<1>0. /\ IsPage(page[i]) /\ IsSession(session[i]) /\ SessionOK(session[i])
      /\ SideOK(i, page[i], session[i], tasks[i], wire[i], forwarded)
    BY Before, Zenon
<1>1. /\ wire' = wire /\ forwarded' = forwarded
      /\ \/ \E c \in session[i].flush :
                /\ Moves(i, "flushing", {"flushing"}) /\ page' = page
                /\ session' = [session EXCEPT ![i] = Flushed(session[i], c)]
         \/ /\ Moves(i, "flushing", {}) /\ session' = [session EXCEPT ![i] = BreaksOff(@)]
            /\ page' = [page EXCEPT ![i] = Threw(@, "sdp_offer")]
         \/ /\ Moves(i, "flushing", next) /\ page' = page /\ session' = session
            /\ session[i].flush = {}
    <2>1. wire' = wire /\ forwarded' = forwarded
        BY DEF Flushes
    <2> HIDE DEF next
    <2>2. \/ \E c \in session[i].flush :
                /\ Moves(i, "flushing", {"flushing"}) /\ <<page, troubles>>' = <<page, troubles>>
                /\ session' = [session EXCEPT ![i] = Flushed(session[i], c)]
          \/ /\ Moves(i, "flushing", {}) /\ session' = [session EXCEPT ![i] = BreaksOff(@)]
             /\ page' = [page EXCEPT ![i] = Threw(@, "sdp_offer")]
          \/ /\ Moves(i, "flushing", next) /\ <<page, session, troubles>>' = <<page, session, troubles>>
             /\ session[i].flush = {}
        BY Zenon DEF Flushes, next
    <2> QED
        BY <2>1, <2>2, Zenon
<1>2. Puts(wire, wire', i, wire[i])
    BY <1>1, Zenon DEF Puts
<1>3. CASE \E c \in session[i].flush :
                /\ Moves(i, "flushing", {"flushing"}) /\ page' = page
                /\ session' = [session EXCEPT ![i] = Flushed(session[i], c)]
    <2>1. PICK c \in session[i].flush :
                /\ Moves(i, "flushing", {"flushing"}) /\ page' = page
                /\ session' = [session EXCEPT ![i] = Flushed(session[i], c)]
        BY <1>3, Zenon
    <2> DEFINE s == Flushed(session[i], c)
               ts == (tasks[i] \ {"flushing"}) \cup {"flushing"}
    <2>2. "flushing" \in tasks[i] /\ row' = row /\ Puts(tasks, tasks', i, ts) /\ (page[i].held \/ page[i].cancelled)
        BY <2>1, MovesFacts, Zenon
    <2>3. ts = tasks[i]
        BY <2>2
    <2>4. Sorted(session[i], s) /\ s.remote = session[i].remote
        BY <1>0, <2>1, FlushFacts, Zenon
    <2>5. Puts(page, page', i, page[i]) /\ Puts(session, session', i, s)
        BY <2>1, Zenon DEF Puts
    <2> HIDE DEF s, next
    <2>6. SideOK(i, page[i], s, ts, wire[i], forwarded)
        BY <1>0, <2>2, <2>3, <2>4, SortedSide, Zenon
    <2> HIDE DEF ts
    <2> QED
        BY <1>1, <1>2, <2>2, <2>5, <2>6, PutStep, ZenonT(60)
<1>4. CASE /\ Moves(i, "flushing", {}) /\ session' = [session EXCEPT ![i] = BreaksOff(@)]
           /\ page' = [page EXCEPT ![i] = Threw(@, "sdp_offer")]
    <2> DEFINE s == BreaksOff(session[i])
    <2>1. Sorted(session[i], s) /\ s.remote = session[i].remote /\ s.flush = {}
        BY <1>0, BreaksOffFacts, Zenon
    <2>2. Puts(session, session', i, s)
        BY <1>4, Zenon DEF Puts
    <2>3. page[i].held \/ page[i].cancelled
        BY <1>4, MovesFacts, Zenon
    <2> HIDE DEF s
    <2>4. SideOK(i, page[i], s, tasks[i], wire[i], forwarded)
        BY <1>0, <2>1, <2>3, SortedSide, Zenon
    <2> QED
        BY <1>1, <1>4, <2>1, <2>2, <2>4, ThrowsStep, ZenonT(60)
<1>5. CASE /\ Moves(i, "flushing", next) /\ page' = page /\ session' = session
           /\ session[i].flush = {}
    <2> DEFINE ts == (tasks[i] \ {"flushing"}) \cup next
    <2>1. row' = row /\ Puts(tasks, tasks', i, ts) /\ (page[i].held \/ page[i].cancelled)
        <3> HIDE DEF next
        <3> QED
            BY <1>5, MovesFacts, Zenon
    <2>2. /\ "checking" \in ts => "checking" \in tasks[i]
          /\ "applying" \in ts => "applying" \in tasks[i]
          /\ i = "recipient" => Handling(ts)
        BY DEF Handling
    <2>3. i = "sender" => ~Carries(page[i].todo, Description(i))
        BY <1>0, EmptyCarries, Zenon DEF SideOK, SenderPageOK
    <2>4. i = "sender" \/ i = "recipient"
        BY DEF Sides
    <2>5. Puts(page, page', i, page[i]) /\ Puts(session, session', i, session[i])
        BY <1>5, Zenon DEF Puts
    <2> HIDE DEF ts, next
    <2>6. SideOK(i, page[i], session[i], ts, wire[i], forwarded)
        BY <1>0, <1>5, <2>1, <2>2, <2>3, <2>4, TasksSide, ZenonT(60)
    <2> QED
        BY <1>1, <1>2, <2>1, <2>5, <2>6, PutStep, Zenon
<1> QED
    BY <1>1, <1>3, <1>4, <1>5, Zenon

-----------------------------------------------------------------------------
(* The theorems *)

LEMMA PageInit == Init => PageInv
<1> SUFFICES ASSUME Init
             PROVE  PageInv
    OBVIOUS
<1>1. /\ page = [i \in Sides |-> NewPage] /\ session = [i \in Sides |-> NoSession]
      /\ tasks = [i \in Sides |-> {}] /\ wire = [i \in Sides |-> << >>] /\ forwarded = {}
    BY DEF Init
<1>2. Shape
    BY <1>1, Zenon DEF Shape, Pair
<1>3. \A i \in Sides : page[i] = NewPage /\ session[i] = NoSession /\ tasks[i] = {} /\ wire[i] = << >>
    BY <1>1, Zenon
<1>4. /\ NewPage.loads = << >> /\ NewPage.queued = << >> /\ NewPage.todo = << >>
      /\ NewPage.strays = {} /\ NewPage.taken = FALSE /\ NewPage.run = "none" /\ NewPage.cleaning = FALSE /\ NewPage.cancelled = FALSE
      /\ NewPage.held = FALSE /\ NewPage.engine = "none" /\ NewPage.busy = "no" /\ NewPage.listed = "none"
    BY DEF NewPage
<1>5. NewPage = [k \in PageFields |-> NewPage[k]]
    BY Zenon DEF NewPage, PageFields
<1>6. BeforeOffer
    <2>1. "sender" \in Sides
        BY DEF Sides
    <2>2. "none" # "offered"
        OBVIOUS
    <2> QED
        BY <1>3, <1>4, <2>1, <2>2, Zenon DEF BeforeOffer, Waiting
<1>7. ASSUME NEW i \in Sides
      PROVE  SideOK(i, NewPage, NoSession, {}, << >>, {})
    <2>1. << >> \in Seq(Message) /\ << >> \in Seq(Loads) /\ Len(<< >>) <= 1 /\ DOMAIN << >> = {}
        OBVIOUS
    <2>2. IsPage(NewPage)
        BY <1>4, <1>5, <2>1, Zenon DEF IsPage
    <2>3. IsSession(NoSession) /\ SessionOK(NoSession)
        BY NoSessionFacts, Zenon
    <2>4. SideType(NewPage, NoSession, << >>, {})
        BY <2>1, <2>2, <2>3, Zenon DEF SideType
    <2>5. "none" # "live" /\ "no" # "create" /\ "none" # "open"
        OBVIOUS
    <2>15. EngineOK(NewPage.engine, NewPage.run, NewPage.taken) /\ Accounted(NewPage.strays)
        BY <1>4 DEF EngineOK, Accounted
    <2>6. PageOK(NewPage)
        BY <1>4, <2>1, <2>5, <2>15, Zenon DEF PageOK
    <2>7. SenderPageOK(NewPage)
        BY <1>4, <2>1, <2>5, Zenon DEF SenderPageOK
    <2>8. RecipientPageOK(NewPage.queued)
        BY <1>4, <2>1, Zenon DEF RecipientPageOK
    <2>9. SenderKeyOK(NoSession.channel, NoSession.material, {}, << >>, {})
        BY NoSessionFacts, EmptyCarries, Zenon DEF SenderKeyOK
    <2>10. RecipientKeyOK(NewPage.reloaded, NoSession.material, {})
        BY Zenon DEF RecipientKeyOK
    <2>11. Tied(NewPage, NoSession, {})
        <3>1. NoSession.flush = {}
            BY NoSessionFacts DEF SessionOK
        <3> QED
            BY <1>4, <2>5, <3>1, NoSessionFacts, Zenon DEF Tied
    <2>12. ASSUME NEW d
           PROVE  Described(d, << >>, << >>, NoSession.remote, {}, << >>, {})
        <3>1. ~Awaited(<< >>, d) /\ ~Awaited(<< >>, "sdp_answer") /\ ~Taken(NoSession.remote, {})
            BY <2>1, NoSessionFacts, Zenon DEF Awaited, Taken
        <3> QED
            BY <2>1, <3>1, EmptyCarries, Zenon DEF Described
    <2>13. Described(Description(i), NewPage.loads, NewPage.todo, NoSession.remote, {}, << >>, {})
        BY <1>4, <2>12, Zenon
    <2>14. \A k \in DOMAIN << >> : << >>[k].type \in Inbound(i)
        BY <2>1, Zenon
    <2> QED
        BY <2>3, <2>4, <2>6, <2>7, <2>8, <2>9, <2>10, <2>11, <2>13, <2>14, ZenonT(60) DEF SideOK
<1>8. \A i \in Sides : SideOK(i, page[i], session[i], tasks[i], wire[i], forwarded)
    BY <1>1, <1>3, <1>7, Zenon
<1> QED
    BY <1>2, <1>6, <1>8, Zenon DEF PageInv

LEMMA PageStepInv ==
    ASSUME PageInv, NEW i \in Sides, PageStep(i)
    PROVE  PageInv'
BY DeliverStep, CreationDoneStep, DriveStep, AppliedStep, FlushesStep, GathersStep, ChannelOpensStep,
   ChannelClosesStep, AnsweredStep, EngineRejectedStep, ZenonT(60) DEF PageStep

LEMMA HandshakeInv ==
    ASSUME PageInv, Handshake
    PROVE  PageInv'
BY OfferCreatedStep, OfferMadeStep, AnswersStep, StartsNegotiationStep, SendsOfferStep,
   SendsAnswerStep, Zenon DEF Handshake

LEMMA PageNext ==
    ASSUME PageInv, [Next]_vars
    PROVE  PageInv'
<1>1. CASE Next
    <2>1. ASSUME NEW i \in Sides,
                 \/ PageStep(i) \/ Connects(i) \/ CreationFails(i) \/ CheckFails(i) \/ ConnectionFails(i)
                 \/ HearsCancel(i) \/ NegotiationTimeout(i) \/ Cancel(i) \/ Reload(i) \/ SocketDrops(i)
                 \/ Unmount(i) \/ GhostCreated(i) \/ Mount(i)
          PROVE  PageInv'
        BY <2>1, PageStepInv, ConnectsStep, CreationFailsStep, CheckFailsStep, ConnectionFailsStep,
           HearsCancelStep, NegotiationTimeoutStep, CancelStep, ReloadStep, SocketDropsStep,
           UnmountStep, GhostCreatedStep, MountStep, ZenonT(60)
    <2> QED
        BY <1>1, <2>1, CreateOfferStep, HandshakeInv, SelectFileStep, SelectTooLargeStep, RejectStep,
           ExpireStep, SlotTakenStep, ZenonT(60) DEF Next
<1>2. CASE UNCHANGED vars
    <2>1. /\ page' = page /\ session' = session /\ tasks' = tasks /\ wire' = wire
          /\ row' = row /\ forwarded' = forwarded
        BY <1>2 DEF vars
    <2>2. Shape' /\ BeforeOffer'
        BY <2>1, Zenon DEF PageInv, Shape, Pair, BeforeOffer
    <2>3. \A i \in Sides : SideOK(i, page'[i], session'[i], tasks'[i], wire'[i], forwarded')
        BY <2>1, Zenon DEF PageInv
    <2> QED
        BY <2>2, <2>3, Zenon DEF PageInv
<1> QED
    BY <1>1, <1>2, Zenon

\* The invariant holds of every behaviour of the two pages.
THEOREM PageInvariant == Spec => []PageInv
BY PageInit, PageNext, PTL DEF Spec

-----------------------------------------------------------------------------
(* What a flush that broke off has lost.  PageInv says nothing of `troubles': *)
(* that candidates are lost only when something went wrong is an invariant   *)
(* of its own.                                                               *)

LostInv == troubles \in Nat /\ \A i \in Sides : session[i].lost # {} => troubles > 0

Grows == troubles' = troubles \/ troubles' = troubles + 1 \/ (troubles = 0 /\ troubles' = 1)

\* No session has lost more than before.
Tame == \A i \in Sides : session'[i].lost \in {session[i].lost, {}}

LEMMA TameStep ==
    ASSUME LostInv, Grows, Tame
    PROVE  LostInv'
<1>1. troubles' \in Nat /\ (troubles > 0 => troubles' > 0)
    BY DEF LostInv, Grows
<1>2. ASSUME NEW i \in Sides, session'[i].lost # {}
      PROVE  troubles' > 0
    <2>1. session[i].lost # {}
        BY <1>2, Zenon DEF Tame
    <2> QED
        BY <1>1, <2>1, Zenon DEF LostInv
<1> QED
    BY <1>1, <1>2, Zenon DEF LostInv

LEMMA SameTame == ASSUME session' = session PROVE Tame
BY Zenon DEF Tame

LEMMA PutTame ==
    ASSUME PageInv, NEW i \in Sides, NEW t, session' = [session EXCEPT ![i] = t],
           t.lost = session[i].lost \/ t.lost = {}
    PROVE  Tame
<1>1. Pair(session)
    BY Zenon DEF PageInv, Shape
<1>2. Put(session, session', i, t)
    BY <1>1, SetSide, Zenon
<1> QED
    BY <1>2, Zenon DEF Tame, Put

LEMMA CalmTame ==
    ASSUME PageInv, NEW i \in Sides, NEW t, session' = [session EXCEPT ![i] = t],
           Calm(session[i], t) \/ Shut(session[i], t)
    PROVE  Tame
BY PutTame, Zenon DEF Calm, Shut

\* What Becomes() is used for.
LEMMA SetTame ==
    ASSUME PageInv, NEW i \in Sides, NEW s, Calm(session[i], s), NEW state, state # "closed",
           session' = [session EXCEPT ![i] = SetState(s, state)]
    PROVE  Tame
<1>1. IsSession(s)
    BY Zenon DEF Calm
<1>2. Calm(s, SetState(s, state))
    BY <1>1, SetStateCalm, Zenon
<1> QED
    BY <1>2, CalmTrans, CalmTame, Zenon

LEMMA CandidateLost ==
    ASSUME NEW s, IsSession(s), NEW c
    PROVE  /\ TakeCandidate(s, c).lost = s.lost /\ Flushed(s, c).lost = s.lost
           /\ RemoteSet(s).lost = s.lost
<1>1. TakeCandidate(s, c).lost = s.lost
    BY Zenon DEF IsSession, SessionFields, TakeCandidate
<1>2. Flushed(s, c).lost = s.lost
    BY Zenon DEF IsSession, SessionFields, Flushed
<1>3. RemoteSet(s).lost = s.lost
    BY Zenon DEF IsSession, SessionFields, RemoteSet
<1> QED
    BY <1>1, <1>2, <1>3, Zenon

LEMMA HandleTame ==
    ASSUME PageInv, NEW i \in Sides, NEW m, NEW p, NEW handled, NEW threw,
           HandleSignal(i, m, p, handled, threw)
    PROVE  Grows /\ Tame
<1>1. IsSession(session[i])
    BY Before, Zenon
<1>2. Grows
    BY Zenon DEF HandleSignal, Grows, Trouble, Unwell
<1>3. \/ session' = session
      \/ session' = [session EXCEPT ![i] = TakeCandidate(session[i], m.n)]
      \/ session' = [session EXCEPT ![i] = Negotiate(session[i])]
    BY Zenon DEF HandleSignal
<1>4. TakeCandidate(session[i], m.n).lost = session[i].lost
    BY <1>1, CandidateLost, Zenon
<1>5. Calm(session[i], Negotiate(session[i]))
    BY <1>1, NegotiateCalm, Zenon
<1>6. CASE session' = [session EXCEPT ![i] = TakeCandidate(session[i], m.n)]
    BY <1>2, <1>4, <1>6, PutTame, Zenon
<1>7. CASE session' = [session EXCEPT ![i] = Negotiate(session[i])]
    BY <1>2, <1>5, <1>7, CalmTame, Zenon
<1> QED
    BY <1>2, <1>3, <1>6, <1>7, SameTame, Zenon

LEMMA DeliverTame ==
    ASSUME PageInv, NEW i \in Sides, Deliver(i)
    PROVE  Grows /\ Tame
<1> DEFINE m == Head(wire[i])
<1>1. \/ DeliverNotice(i, m)
      \/ \E p : HandleSignal(i, m, p, p, Failed(p))
      \/ \E p : DeliverEarlySignal(i, m, p)
    BY Zenon DEF Deliver
<1> HIDE DEF m
<1>2. CASE DeliverNotice(i, m)
    <2>1. Grows
        BY <1>2 DEF DeliverNotice, Grows
    <2>2. \/ session' = session
          \/ session' = [session EXCEPT ![i] = IF page[i].held /\ MayStart(session[i])
                                               THEN Negotiate(session[i]) ELSE session[i]]
        BY <1>2, Zenon DEF DeliverNotice
    <2>3. /\ Calm(session[i], Negotiate(session[i])) /\ Calm(session[i], session[i])
        BY Before, NegotiateCalm, CalmSelf, Zenon
    <2> QED
        BY <2>1, <2>2, <2>3, SameTame, CalmTame, Zenon
<1>3. CASE \E p : HandleSignal(i, m, p, p, Failed(p))
    BY <1>3, HandleTame, Zenon
<1>4. CASE \E p : DeliverEarlySignal(i, m, p)
    <2>1. Grows
        BY <1>4, Zenon DEF DeliverEarlySignal, Grows, Unwell
    <2>2. session' = session
        BY <1>4 DEF DeliverEarlySignal
    <2> QED
        BY <2>1, <2>2, SameTame, Zenon
<1> QED
    BY <1>1, <1>2, <1>3, <1>4, Zenon

LEMMA DriveTame ==
    ASSUME PageInv, NEW i \in Sides, Drive(i)
    PROVE  Grows /\ Tame
BY HandleTame, Zenon DEF Drive

LEMMA CreationDoneTame ==
    ASSUME PageInv, NEW i \in Sides, CreationDone(i)
    PROVE  Grows /\ Tame
<1>1. Grows
    BY DEF CreationDone, Grows
<1>2. NewSession.lost = {} /\ Negotiate(NewSession).lost = {}
    <2>1. NewSession.lost = {} /\ IsSession(NewSession)
        BY FreshFacts DEF NewSession, Fresh
    <2> QED
        BY <2>1, NegotiateCalm, Zenon DEF Calm
<1>3. \/ session' = session
      \/ \E x : session' = [session EXCEPT ![i] = IF x THEN Negotiate(NewSession) ELSE NewSession]
    BY Zenon DEF CreationDone, SessionCreated
<1> QED
    BY <1>1, <1>2, <1>3, SameTame, PutTame, Zenon

LEMMA OfferMadeTame ==
    ASSUME PageInv, OfferMade
    PROVE  Grows /\ Tame
<1> DEFINE i == "sender"
           s == [session[i] EXCEPT !.offer = TRUE]
<1>1. Grows
    BY Zenon DEF OfferMade, Sent, Offline, Trouble, Grows
<1>2. session' = [session EXCEPT ![i] = s] \/ session' = [session EXCEPT ![i] = SetState(s, "failed")]
    BY Zenon DEF OfferMade
<1>3. i \in Sides /\ "failed" # "closed"
    BY DEF Sides
<1> HIDE DEF i
<1>4. Calm(session[i], s)
    BY <1>3, Before, FieldCalm, Zenon
<1> QED
    BY <1>1, <1>2, <1>3, <1>4, CalmTame, SetTame, Zenon

LEMMA AnswersTame ==
    ASSUME PageInv, Answers
    PROVE  Grows /\ Tame
<1> DEFINE i == "recipient"
           s == [session[i] EXCEPT !.material = TRUE]
<1>1. Grows
    BY Zenon DEF Answers, Sent, Offline, Trouble, Grows
<1>2. session' = [session EXCEPT ![i] = s]
    BY DEF Answers
<1>3. i \in Sides
    BY DEF Sides
<1> HIDE DEF i
<1>4. Calm(session[i], s)
    BY <1>3, Before, MaterialCalm, Zenon
<1> QED
    BY <1>1, <1>2, <1>3, <1>4, CalmTame, Zenon

LEMMA StartsNegotiationTame ==
    ASSUME PageInv, StartsNegotiation
    PROVE  Grows /\ Tame
<1> DEFINE i == "sender"
           s == [session[i] EXCEPT !.material = TRUE]
           t == [s EXCEPT !.channel = "made"]
<1>1. Grows
    BY Zenon DEF StartsNegotiation, Unwell, Grows
<1>2. session' = [session EXCEPT ![i] = s] \/ session' = [session EXCEPT ![i] = t]
    BY Zenon DEF StartsNegotiation
<1>3. i \in Sides
    BY DEF Sides
<1> HIDE DEF i
<1>4. Calm(session[i], s) /\ IsSession(s)
    BY <1>3, Before, MaterialCalm, Zenon DEF Calm
<1> HIDE DEF s
<1>5. t.lost = session[i].lost
    BY <1>4, Zenon DEF Calm, IsSession, SessionFields
<1> HIDE DEF t
<1> QED
    BY <1>1, <1>2, <1>3, <1>4, <1>5, CalmTame, PutTame, Zenon

LEMMA DescribesTame ==
    ASSUME PageInv, NEW i \in Sides, NEW task, NEW type, NEW answered,
           Describes(i, task, type, answered)
    PROVE  Grows /\ Tame
<1>1. Grows
    BY Zenon DEF Describes, Sent, Offline, Trouble, Throws, Unwell, Grows
<1>2. session' = session \/ session' = [session EXCEPT ![i].local = TRUE]
    BY Zenon DEF Describes
<1>3. Calm(session[i], [session[i] EXCEPT !.local = TRUE])
    BY Before, FieldCalm, Zenon
<1> QED
    BY <1>1, <1>2, <1>3, SameTame, CalmTame, Zenon

LEMMA SendsTame ==
    ASSUME PageInv, SendsOffer \/ SendsAnswer
    PROVE  Grows /\ Tame
<1>1. "sender" \in Sides /\ "recipient" \in Sides
    BY DEF Sides
<1> QED
    BY <1>1, DescribesTame, Zenon DEF SendsOffer, SendsAnswer

LEMMA AppliedTame ==
    ASSUME PageInv, NEW i \in Sides, Applied(i)
    PROVE  Grows /\ Tame
<1>1. Grows
    BY Zenon DEF Applied, Throws, Unwell, Grows
<1>2. session' = session \/ session' = [session EXCEPT ![i] = RemoteSet(session[i])]
    BY Zenon DEF Applied
<1>3. RemoteSet(session[i]).lost = session[i].lost
    BY Before, CandidateLost, Zenon
<1> QED
    BY <1>1, <1>2, <1>3, SameTame, PutTame, Zenon

\* The one step that loses candidates is a trouble, or comes after one.
LEMMA FlushesLost ==
    ASSUME PageInv, LostInv, NEW i \in Sides, Flushes(i)
    PROVE  LostInv'
<1>1. Grows
    BY Zenon DEF Flushes, Unwell, Trouble, Grows
<1>2. \/ session' = session
      \/ \E c : session' = [session EXCEPT ![i] = Flushed(session[i], c)]
      \/ Trouble \/ Unwell
    BY Zenon DEF Flushes
<1>3. CASE session' = session
    BY <1>1, <1>3, SameTame, TameStep, Zenon
<1>4. CASE \E c : session' = [session EXCEPT ![i] = Flushed(session[i], c)]
    <2>1. \A c : Flushed(session[i], c).lost = session[i].lost
        BY Before, CandidateLost, Zenon
    <2> QED
        BY <1>1, <1>4, <2>1, PutTame, TameStep, Zenon
<1>5. CASE Trouble \/ Unwell
    BY <1>5 DEF Trouble, Unwell, LostInv
<1> QED
    BY <1>2, <1>3, <1>4, <1>5, Zenon

LEMMA GathersTame ==
    ASSUME PageInv, NEW i \in Sides, Gathers(i)
    PROVE  Grows /\ Tame
<1> DEFINE x == session[i].gathered + 1
           s == [session[i] EXCEPT !.gathered = x]
<1>1. Grows
    BY Zenon DEF Gathers, Sent, Offline, Trouble, Grows
<1>2. session' = [session EXCEPT ![i] = s] \/ session' = [session EXCEPT ![i] = SetState(s, "failed")]
    BY Zenon DEF Gathers, Becomes
<1>3. "failed" # "closed"
    OBVIOUS
<1>4. Calm(session[i], s)
    <2>1. session[i].gathered \in Nat
        BY Before, Zenon DEF IsSession
    <2>2. x \in Nat
        BY <2>1
    <2> HIDE DEF x
    <2> QED
        BY <2>2, Before, FieldCalm, Zenon
<1> HIDE DEF s
<1> QED
    BY <1>1, <1>2, <1>3, <1>4, CalmTame, SetTame, Zenon

LEMMA ChannelOpensTame ==
    ASSUME PageInv, NEW i \in Sides, ChannelOpens(i)
    PROVE  Grows /\ Tame
<1> DEFINE s == Opened(session[i])
           t == SetState(s, "connected")
<1>1. Grows
    BY DEF ChannelOpens, Grows
<1>2. session' = [session EXCEPT ![i] = t]
    BY Zenon DEF ChannelOpens
<1>3. s.lost = session[i].lost /\ IsSession(s)
    BY Before, Zenon DEF IsSession, SessionFields, Opened
<1>4. "connected" # "closed"
    OBVIOUS
<1> HIDE DEF s
<1>5. Calm(s, t)
    BY <1>3, <1>4, SetStateCalm, Zenon
<1> QED
    BY <1>1, <1>2, <1>3, <1>5, PutTame, Zenon DEF Calm

LEMMA ConnectionTame ==
    ASSUME PageInv, NEW i \in Sides, Connects(i) \/ ConnectionFails(i)
    PROVE  Grows /\ Tame
<1>1. Grows
    BY DEF Connects, ConnectionFails, Trouble, Grows
<1>2. /\ session[i].connection \in {"new", "connected"}
      /\ \E x \in {"connected", "failed"} :
            session' = [session EXCEPT ![i] = SetState([session[i] EXCEPT !.connection = x], x)]
    BY Zenon DEF Connects, ConnectionFails, Becomes
<1>3. PICK x \in {"connected", "failed"} :
            session' = [session EXCEPT ![i] = SetState([session[i] EXCEPT !.connection = x], x)]
    BY <1>2, Zenon
<1>4. x # "closed"
    BY <1>3
<1>5. Calm(session[i], [session[i] EXCEPT !.connection = x])
    BY <1>2, <1>3, Before, ConnectionCalm, Zenon
<1> QED
    BY <1>1, <1>3, <1>4, <1>5, SetTame, Zenon

LEMMA ChannelClosesTame ==
    ASSUME PageInv, NEW i \in Sides, ChannelCloses(i)
    PROVE  Grows /\ Tame
<1>1. Grows
    BY DEF ChannelCloses, Grows
<1>2. /\ session[i].channel = "open"
      /\ session' = [session EXCEPT ![i] =
                        SetState([session[i] EXCEPT !.channel = "closed"], "closed")]
    BY Zenon DEF ChannelCloses
<1> QED
    BY <1>1, <1>2, Before, ChannelShut, CalmTame, Zenon

LEMMA NegotiationTimeoutTame ==
    ASSUME PageInv, NEW i \in Sides, NegotiationTimeout(i)
    PROVE  Grows /\ Tame
<1> DEFINE s == [session[i] EXCEPT !.timer = FALSE]
<1>1. Grows
    BY DEF NegotiationTimeout, Trouble, Grows
<1>2. session' = [session EXCEPT ![i] = s] \/ session' = [session EXCEPT ![i] = SetState(s, "failed")]
    BY Zenon DEF NegotiationTimeout, Becomes
<1>3. "failed" # "closed"
    OBVIOUS
<1>4. Calm(session[i], s)
    BY Before, FieldCalm, Zenon
<1> HIDE DEF s
<1> QED
    BY <1>1, <1>2, <1>3, <1>4, CalmTame, SetTame, Zenon

LEMMA SelectFileTame ==
    ASSUME PageInv, SelectFile
    PROVE  Grows /\ Tame
<1> DEFINE i == "sender"
<1>1. Grows
    BY DEF SelectFile, Grows
<1>2. session' = session \/ session' = [session EXCEPT ![i] = Negotiate(session[i])]
    BY Zenon DEF SelectFile
<1>3. i \in Sides
    BY DEF Sides
<1> HIDE DEF i
<1>4. Calm(session[i], Negotiate(session[i]))
    BY <1>3, Before, NegotiateCalm, Zenon
<1> QED
    BY <1>1, <1>2, <1>3, <1>4, SameTame, CalmTame, Zenon

LEMMA CleanedUpTame ==
    ASSUME PageInv, NEW i \in Sides, Answered(i) \/ EngineRejected(i)
    PROVE  Grows /\ Tame
<1>1. Grows
    BY DEF Answered, EngineRejected, Grows
<1>2. \/ session' = session
      \/ \E x : session' = [session EXCEPT ![i] = IF x THEN Close(session[i]) ELSE session[i]]
    BY Zenon DEF Answered, EngineRejected, CleanedUp
<1>3. Shut(session[i], Close(session[i]))
    BY Before, CloseShut, Zenon
<1> QED
    BY <1>1, <1>2, <1>3, SameTame, PutTame, Zenon DEF Shut

LEMMA GoneTame ==
    ASSUME PageInv, NEW i \in Sides, Reload(i) \/ Unmount(i)
    PROVE  Grows /\ Tame
<1>1. Grows
    BY DEF Reload, Unmount, Trouble, Grows
<1>2. session' = [session EXCEPT ![i] = NoSession]
    BY Zenon DEF Reload, Unmount
<1>3. NoSession.lost = {}
    BY DEF NoSession, NewSession
<1> QED
    BY <1>1, <1>2, <1>3, PutTame, Zenon

\* The steps that leave the sessions alone.
LEMMA OtherTame ==
    ASSUME \/ CreateOffer \/ OfferCreated \/ SelectTooLarge \/ Reject \/ Expire \/ SlotTaken
           \/ \E i \in Sides :
                 \/ CreationFails(i) \/ CheckFails(i) \/ HearsCancel(i) \/ Cancel(i)
                 \/ SocketDrops(i) \/ GhostCreated(i) \/ Mount(i)
    PROVE  Grows /\ Tame
<1>1. ASSUME CreateOffer \/ OfferCreated \/ SelectTooLarge \/ Expire \/ SlotTaken
      PROVE  Grows /\ session' = session
    BY <1>1 DEF CreateOffer, OfferCreated, SelectTooLarge, Expire, SlotTaken, Trouble, Grows
<1>2. ASSUME Reject \/ \E i \in Sides : Cancel(i)
      PROVE  Grows /\ session' = session
    BY <1>2 DEF Reject, Cancel, EndsRow, Trouble, Grows
<1>3. ASSUME NEW i \in Sides,
             \/ CreationFails(i) \/ CheckFails(i) \/ HearsCancel(i)
             \/ SocketDrops(i) \/ GhostCreated(i) \/ Mount(i)
      PROVE  Grows /\ session' = session
    BY <1>3 DEF CreationFails, CheckFails, HearsCancel, SocketDrops, GhostCreated, Mount, Trouble, Grows
<1> QED
    BY <1>1, <1>2, <1>3, SameTame, Zenon

LEMMA LostNext ==
    ASSUME PageInv, LostInv, [Next]_vars
    PROVE  LostInv'
<1>1. CASE Next
    <2>1. ASSUME NEW i \in Sides, PageStep(i)
          PROVE  LostInv'
        BY <2>1, TameStep, DeliverTame, CreationDoneTame, DriveTame, AppliedTame, FlushesLost,
           GathersTame, ChannelOpensTame, ChannelClosesTame, CleanedUpTame, ZenonT(60) DEF PageStep
    <2>2. ASSUME NEW i \in Sides,
                 \/ Connects(i) \/ CreationFails(i) \/ CheckFails(i) \/ ConnectionFails(i)
                 \/ HearsCancel(i) \/ NegotiationTimeout(i) \/ Cancel(i) \/ Reload(i) \/ SocketDrops(i)
                 \/ Unmount(i) \/ GhostCreated(i) \/ Mount(i)
          PROVE  LostInv'
        BY <2>2, TameStep, ConnectionTame, OtherTame, NegotiationTimeoutTame, GoneTame, ZenonT(60)
    <2>3. CASE Handshake
        BY <2>3, TameStep, OtherTame, OfferMadeTame, AnswersTame, StartsNegotiationTame, SendsTame,
           ZenonT(60) DEF Handshake
    <2> QED
        BY <1>1, <2>1, <2>2, <2>3, TameStep, OtherTame, SelectFileTame, ZenonT(60) DEF Next
<1>2. CASE UNCHANGED vars
    <2>1. Grows /\ session' = session
        BY <1>2 DEF vars, Grows
    <2> QED
        BY <2>1, SameTame, TameStep, Zenon
<1> QED
    BY <1>1, <1>2, Zenon

LEMMA LostInvariant == Spec => []LostInv
<1>1. Init => LostInv
    BY DEF Init, LostInv, NoSession, NewSession
<1> QED
    BY <1>1, LostNext, PageInvariant, PTL DEF Spec

-----------------------------------------------------------------------------
(* The theorems *)

\* Of the connections a page loses sight of while they are open, all are of a
\* session that close() took for closed, or were made after the page went away:
\* createTestSession() never makes a second session while one is there or being
\* made, whatever arrives during the look-ups.
THEOREM OneSessionTheorem == Spec => []OneSession
<1>1. PageInv => OneSession
    BY ZenonT(60) DEF PageInv, SideOK, PageOK, Accounted, OneSession
<1> QED
    BY <1>1, PageInvariant, PTL

\* What cleanupTransferRuntime() has let go does not come back.
THEOREM GoneTheorem == Spec => []GoneAfterCleanup
<1>1. PageInv => GoneAfterCleanup
    BY ZenonT(60) DEF PageInv, SideOK, PageOK, Tied, GoneAfterCleanup
<1> QED
    BY <1>1, PageInvariant, PTL

\* No candidate that handleIceCandidate() took is forgotten on its way to the
\* connection, through the pending list and flushCandidates(): it waits, is being
\* flushed by a handler that is still running, is added, or was lost in a flush
\* that broke off, and then something had gone wrong.
THEOREM CandidatesTheorem == Spec => []CandidatesKept
<1>1. ASSUME PageInv, LostInv
      PROVE  CandidatesKept
    <2>1. ASSUME NEW i \in Sides
          PROVE  /\ SessionOK(session[i]) /\ Tied(page[i], session[i], tasks[i])
                 /\ session[i].lost # {} => troubles > 0
        BY <1>1, <2>1, Zenon DEF PageInv, SideOK, LostInv
    <2> QED
        BY <2>1, ZenonT(60) DEF SessionOK, Tied, CandidatesKept
<1> QED
    BY <1>1, PageInvariant, LostInvariant, PTL

\* A page that was there from the start has its engine listening when its channel
\* opens, the key material being always there first; or the constructor threw
\* inbound_busy and the page shows the failure.
THEOREM EngineTheorem == Spec => []EngineListens
<1>1. ASSUME PageInv, NEW i \in Sides, session[i].channel = "open", ~page[i].reloaded
      PROVE  \/ page[i].engine \in {"live", "over"}
             \/ page[i].engine = "refused" /\ page[i].taken /\ page[i].run \in {"failed", "cancelled"}
    <2>1. page[i].engine # "none" /\ EngineOK(page[i].engine, page[i].run, page[i].taken)
        BY <1>1, Zenon DEF PageInv, SideOK, PageOK, Tied
    <2> QED
        BY <2>1 DEF EngineOK
<1>2. PageInv => EngineListens
    BY <1>1, Zenon DEF EngineListens
<1> QED
    BY <1>2, PageInvariant, PTL

=============================================================================
