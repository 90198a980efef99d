--------------------------- MODULE PresenceProofs ---------------------------
(***************************************************************************)
(* Proofs about Presence, for any devices, sockets, logouts, notifiers and *)
(* limits.                                                                 *)
(***************************************************************************)
EXTENDS Presence, FiniteSetTheorems, TLAPS

Payloads == [kind : {"transfer", "presence"}, devices : SUBSET Devices]

QueueRecords ==
    [tabled : BOOLEAN, q : Seq(Payloads), bytes : Nat, failed : BOOLEAN,
     writer : {"none", "get", "send", "closing", "ended"}, held : Payloads, cancel : BOOLEAN]

\* queued_bytes is what the queue holds, within both limits.
Exact(o) ==
    /\ o.bytes = Bytes(o.q)
    /\ o.bytes <= MaxQueueBytes
    /\ Len(o.q) <= MaxQueueMessages

QueueSet == {o \in QueueRecords : Exact(o)}

Pcs ==
    {"free", "lookup", "accept", "snapshot", "listed", "read", "publish", "gather", "enqueue",
     "serve", "beat", "gone", "remove", "disconnect", "send", "ended"}

TaskSet ==
    [pc : Pcs, dev : Devices \cup {None}, doomed : Seq(Conns), todo : SUBSET Conns,
     seen : SUBSET Devices, first : BOOLEAN]

PType ==
    /\ now \in Nat /\ active \subseteq Devices
    /\ current \in [Devices -> Conns \cup {None}]
    /\ out \in [Conns -> QueueSet]
    /\ task \in [Tasks -> TaskSet]
    /\ open \in [Conns -> {"no", "open", "closed"}]

\* Where a coroutine has nothing to stop, and where it has a device.
TaskOK(k) ==
    /\ task[k].pc \in {"lookup", "accept", "disconnect"} => task[k].doomed = <<>>
    /\ task[k].pc = "free" /\ k \notin Notifiers => task[k].doomed = <<>>
    /\ task[k].pc \in {"lookup", "accept", "disconnect", "send"} => task[k].dev \in Devices

\* The queue's writer runs, and nobody is stopping it.
Live(o) == o.tabled /\ ~o.failed /\ ~o.cancel /\ o.writer \in {"get", "send"}

Doomed(c) == \E k \in Tasks : c \in Range(task[k].doomed)

Fresh(c) == task[c].pc \in {"free", "lookup", "accept"}

\* The two tables, the coroutines that stop queues, and the sockets.
SocketOK(c) ==
    /\ Registered(c) => Live(out[c]) /\ ~Doomed(c)
    /\ Fresh(c) => ~Registered(c) /\ ~Doomed(c)
    /\ out[c].tabled => Registered(c) \/ Doomed(c)
    /\ open[c] = "open" =>
         \/ Registered(c) \/ Doomed(c)
         \/ out[c].writer = "closing" /\ ~out[c].cancel

\* A device has one socket; a queue is stopped by one coroutine, first of all.
TablesOK ==
    /\ \A d, e \in Devices : current[d] = current[e] /\ current[d] # None => d = e
    /\ \A k, l \in Tasks : \A c \in Conns :
         c \in Range(task[k].doomed) /\ c \in Range(task[l].doomed) => k = l
    /\ \A k \in Tasks : task[k].doomed # <<>> => ~out[Head(task[k].doomed)].tabled

SInv ==
    /\ PType
    /\ \A k \in Tasks : TaskOK(k)
    /\ \A c \in Conns : SocketOK(c)
    /\ TablesOK

-----------------------------------------------------------------------------
(* Sequences of sockets, and the table *)

LEMMA RangeFacts ==
    ASSUME NEW s \in Seq(Conns), s # <<>>
    PROVE  /\ Head(s) \in Conns
           /\ Tail(s) \in Seq(Conns)
           /\ Range(s) = {Head(s)} \cup Range(Tail(s))
           /\ Range(s) \subseteq Conns
<1>1. Len(s) \in Nat /\ Len(s) > 0 /\ DOMAIN s = 1..Len(s)
  OBVIOUS
<1>2. /\ Head(s) = s[1] /\ Head(s) \in Conns /\ Tail(s) \in Seq(Conns)
      /\ Len(Tail(s)) = Len(s) - 1
      /\ \A i \in 1..(Len(s) - 1) : Tail(s)[i] = s[i + 1]
  BY <1>1
<1>3. DOMAIN Tail(s) = 1..(Len(s) - 1)
  BY <1>1, <1>2
<1>4. Range(s) \subseteq Conns
  BY <1>1 DEF Range
<1>5. ASSUME NEW x \in Range(s)
      PROVE  x = Head(s) \/ x \in Range(Tail(s))
  <2>1. PICK i \in 1..Len(s) : x = s[i]
    BY <1>1, <1>5 DEF Range
  <2>2. CASE i = 1
    BY <2>1, <2>2, <1>2
  <2>3. CASE i # 1
    <3>1. i - 1 \in 1..(Len(s) - 1) /\ (i - 1) + 1 = i
      BY <2>3, <1>1
    <3>2. x = Tail(s)[i - 1]
      BY <3>1, <2>1, <1>2
    <3> QED BY <3>1, <3>2, <1>3, Zenon DEF Range
  <2> QED BY <2>2, <2>3
<1>6. Head(s) \in Range(s)
  BY <1>1, <1>2 DEF Range
<1>7. ASSUME NEW x \in Range(Tail(s))
      PROVE  x \in Range(s)
  <2>1. PICK i \in 1..(Len(s) - 1) : x = Tail(s)[i]
    BY <1>3, <1>7 DEF Range
  <2>2. i + 1 \in 1..Len(s) /\ x = s[i + 1]
    BY <2>1, <1>1, <1>2
  <2> QED BY <2>2, <1>1 DEF Range
<1> QED BY <1>2, <1>4, <1>5, <1>6, <1>7

LEMMA SingleFacts ==
    /\ Range(<<>>) = {}
    /\ \A c : Range(<<c>>) = {c} /\ Head(<<c>>) = c /\ <<c>> # <<>>
    /\ \A c \in Conns : <<c>> \in Seq(Conns)
<1>1. Range(<<>>) = {}
  BY DEF Range
<1>2. ASSUME NEW c
      PROVE  Range(<<c>>) = {c} /\ Head(<<c>>) = c /\ <<c>> # <<>>
  <2>1. DOMAIN <<c>> = {1} /\ <<c>>[1] = c /\ <<c>> # <<>>
    OBVIOUS
  <2>2. Head(<<c>>) = c
    OBVIOUS
  <2> QED BY <2>1, <2>2 DEF Range
<1> QED BY <1>1, <1>2

LEMMA OnlineFacts ==
    ASSUME PType
    PROVE  /\ OnlineConns \subseteq Conns
           /\ \A d \in Devices : current[d] # None => current[d] \in Conns /\ Registered(current[d])
           /\ \A c \in Conns : Registered(c) <=> \E d \in Devices : current[d] = c
<1>1. \A c \in Conns : c # None
  BY PresenceAssumption
<1>2. \A d \in Devices : current[d] \in Conns \cup {None}
  BY DEF PType
<1> QED BY <1>1, <1>2 DEF OnlineConns, Registered

LEMMA WithoutFacts ==
    ASSUME PType, NEW cs \in SUBSET Conns, current' = Without(cs),
           \A d, e \in Devices : current[d] = current[e] /\ current[d] # None => d = e
    PROVE  /\ current' \in [Devices -> Conns \cup {None}]
           /\ \A c \in Conns : Registered(c)' <=> Registered(c) /\ c \notin cs
           /\ \A d, e \in Devices : current'[d] = current'[e] /\ current'[d] # None => d = e
<1>1. \A c \in Conns : c # None
  BY PresenceAssumption
<1>2. current \in [Devices -> Conns \cup {None}]
  BY DEF PType
<1>3. \A d \in Devices : current'[d] = IF current[d] \in cs THEN None ELSE current[d]
  BY DEF Without
<1>4. current' \in [Devices -> Conns \cup {None}]
  BY <1>2 DEF Without
<1>5. \A c \in Conns : Registered(c)' <=> Registered(c) /\ c \notin cs
  BY <1>1, <1>3 DEF Registered, OnlineConns
<1>6. \A d, e \in Devices : current'[d] = current'[e] /\ current'[d] # None => d = e
  BY <1>3
<1> QED BY <1>4, <1>5, <1>6

\* prune_expired() goes through all the expired sockets, and there is at
\* least one.
LEMMA OrderFacts ==
    ASSUME PType, Expired # {}, NEW s \in Orders(Expired)
    PROVE  s \in Seq(Conns) /\ s # <<>> /\ Range(s) = Expired /\ Expired \subseteq OnlineConns
<1>1. Expired \subseteq OnlineConns /\ OnlineConns \subseteq Conns
  BY OnlineFacts DEF Expired
<1>2. IsFiniteSet(OnlineConns)
  <2>1. IsFiniteSet({current[d] : d \in Devices})
    <3>1. current \in Surjection(Devices, {current[d] : d \in Devices})
      BY DEF Surjection, PType
    <3> QED BY <3>1, FS_Surjection, PresenceAssumption
  <2> QED BY <2>1, FS_Subset DEF OnlineConns
<1>3. IsFiniteSet(Expired)
  BY <1>1, <1>2, FS_Subset
<1>4. Cardinality(Expired) \in Nat /\ Cardinality(Expired) # 0
  BY <1>3, FS_CardinalityType, FS_EmptySet
<1> DEFINE n == Cardinality(Expired)
<1>5. /\ s \in [1..n -> Expired]
      /\ \A x \in Expired : \E i \in 1..n : s[i] = x
  BY DEF Orders, Bijection, Injection, Surjection
<1>6. n \in Nat /\ n # 0
  BY <1>4
<1> HIDE DEF n
<1>7. s \in Seq(Conns)
  BY <1>1, <1>5, <1>6
<1>8. Len(s) = n /\ s # <<>>
  BY <1>5, <1>6, <1>7
<1>9. Range(s) = Expired
  BY <1>5 DEF Range
<1> QED BY <1>1, <1>7, <1>8, <1>9

-----------------------------------------------------------------------------
(* What a step does to sockets and coroutines, preserves the invariant *)

\* A queue is filled, or its writer goes on.
SameLife(o, p) ==
    /\ p.tabled = o.tabled /\ p.failed = o.failed /\ p.cancel = o.cancel
    /\ p.writer = o.writer \/ (p.writer \in {"get", "send"} /\ o.writer \in {"get", "send"})

\* The tables and the sockets to be stopped stay; sockets are only closed.
LEMMA CalmKeeps ==
    ASSUME SInv, PType', \A k \in Tasks : TaskOK(k)', current' = current,
           \A k \in Tasks : task'[k].doomed = task[k].doomed,
           \A c \in Conns : Fresh(c)' => Fresh(c),
           \A c \in Conns : open'[c] = "open" => open[c] = "open",
           \A c \in Conns : SameLife(out[c], out'[c])
    PROVE  SInv'
<1>1. \A c \in Conns : Registered(c)' <=> Registered(c)
  BY DEF Registered, OnlineConns
<1>2. \A c \in Conns : Doomed(c)' <=> Doomed(c)
  BY DEF Doomed, Tasks
<1>3. ASSUME NEW c \in Conns
      PROVE  SocketOK(c)'
  <2>1. SocketOK(c)
    BY DEF SInv
  <2>2. Registered(c) => Live(out'[c])
    BY <2>1 DEF SocketOK, Live, SameLife
  <2>3. out'[c].tabled = out[c].tabled
    BY DEF SameLife
  <2>4. out[c].writer = "closing" /\ ~out[c].cancel => out'[c].writer = "closing" /\ ~out'[c].cancel
    BY DEF SameLife
  <2> QED BY <2>1, <2>2, <2>3, <2>4, <1>1, <1>2 DEF SocketOK
<1>4. TablesOK'
  <2>1. TablesOK
    BY DEF SInv
  <2>2. \A k \in Tasks : task[k].doomed # <<>> => Head(task[k].doomed) \in Conns
    <3>1. \A k \in Tasks : task[k].doomed \in Seq(Conns)
      BY DEF SInv, PType, TaskSet
    <3> QED BY <3>1, RangeFacts
  <2>3. \A c \in Conns : out'[c].tabled = out[c].tabled
    BY DEF SameLife
  <2> QED BY <2>1, <2>2, <2>3 DEF TablesOK
<1> QED BY <1>3, <1>4 DEF SInv, Tasks

\* The sockets a coroutine has yet to stop.
LEMMA DoomedFacts ==
    ASSUME SInv
    PROVE  /\ \A k \in Tasks : task[k].doomed \in Seq(Conns)
           /\ \A k \in Tasks : Range(task[k].doomed) \subseteq Conns
           /\ \A k \in Tasks : task[k].doomed # <<>> =>
                /\ Head(task[k].doomed) \in Conns
                /\ Head(task[k].doomed) \in Range(task[k].doomed)
                /\ Doomed(Head(task[k].doomed))
<1>1. \A k \in Tasks : task[k].doomed \in Seq(Conns)
  BY DEF SInv, PType, TaskSet
<1>2. ASSUME NEW k \in Tasks, task[k].doomed # <<>>
      PROVE  /\ Range(task[k].doomed) \subseteq Conns
             /\ Head(task[k].doomed) \in Conns
             /\ Head(task[k].doomed) \in Range(task[k].doomed)
             /\ Doomed(Head(task[k].doomed))
  BY <1>1, <1>2, RangeFacts DEF Doomed
<1>3. \A k \in Tasks : task[k].doomed = <<>> => Range(task[k].doomed) = {}
  BY SingleFacts
<1> QED BY <1>1, <1>2, <1>3, Zenon

\* The writer of a socket that is no longer in the table ends.
LEMMA EndKeeps ==
    ASSUME SInv, PType', NEW c \in Conns, current' = current, task' = task,
           ~Live(out[c]), out'[c].tabled = out[c].tabled,
           \A x \in Conns \ {c} : out'[x] = out[x] /\ open'[x] = open[x],
           open'[c] # "open" \/ (out[c].cancel /\ open'[c] = open[c])
    PROVE  SInv'
<1>1. \A x \in Conns : (Registered(x)' <=> Registered(x)) /\ (Fresh(x)' <=> Fresh(x))
  BY DEF Registered, OnlineConns, Fresh
<1>2. \A x \in Conns : Doomed(x)' <=> Doomed(x)
  BY DEF Doomed, Tasks
<1>3. ASSUME NEW x \in Conns
      PROVE  SocketOK(x)'
  <2>1. SocketOK(x) /\ SocketOK(c)
    BY DEF SInv
  <2>2. CASE x = c
    BY <2>1, <2>2, <1>1, <1>2 DEF SocketOK
  <2>3. CASE x # c
    BY <2>1, <2>3, <1>1, <1>2 DEF SocketOK
  <2> QED BY <2>2, <2>3
<1>4. TablesOK'
  <2>1. TablesOK
    BY DEF SInv
  <2>2. \A x \in Conns : out'[x].tabled = out[x].tabled
    OBVIOUS
  <2> QED BY <2>1, <2>2, DoomedFacts DEF TablesOK
<1>5. \A k \in Tasks : TaskOK(k)'
  BY DEF SInv, TaskOK
<1> QED BY <1>3, <1>4, <1>5 DEF SInv, Tasks

\* A writer whose write failed takes its own socket out of the table.
LEMMA FailKeeps ==
    ASSUME SInv, PType', NEW c \in Conns, current' = Without({c}), task' = task, open' = open,
           out[c].writer = "send",
           out'[c].tabled => out[c].tabled /\ ~Registered(c),
           out'[c].writer = "closing" /\ ~out'[c].cancel,
           \A x \in Conns \ {c} : out'[x] = out[x]
    PROVE  SInv'
<1>0. TablesOK /\ PType
  BY DEF SInv
<1>1. /\ \A x \in Conns : Registered(x)' <=> Registered(x) /\ x # c
      /\ \A d, e \in Devices : current'[d] = current'[e] /\ current'[d] # None => d = e
  <2> DEFINE cs == {c}
  <2>1. cs \in SUBSET Conns /\ current' = Without(cs)
    OBVIOUS
  <2>2. \A x : x \notin cs <=> x # c
    OBVIOUS
  <2> HIDE DEF cs
  <2>3. /\ \A x \in Conns : Registered(x)' <=> Registered(x) /\ x \notin cs
        /\ \A d, e \in Devices : current'[d] = current'[e] /\ current'[d] # None => d = e
    BY <1>0, <2>1, WithoutFacts, Zenon DEF TablesOK
  <2> QED BY <2>2, <2>3
<1>2. \A x \in Conns : (Doomed(x)' <=> Doomed(x)) /\ (Fresh(x)' <=> Fresh(x))
  BY DEF Doomed, Tasks, Fresh
<1>3. ASSUME NEW x \in Conns
      PROVE  SocketOK(x)'
  <2>1. SocketOK(x)
    BY DEF SInv
  <2>2. CASE x = c
    BY <2>1, <2>2, <1>1, <1>2 DEF SocketOK
  <2>3. CASE x # c
    BY <2>1, <2>3, <1>1, <1>2 DEF SocketOK
  <2> QED BY <2>2, <2>3
<1>4. TablesOK'
  <2>2. \A x \in Conns : out'[x].tabled => out[x].tabled
    OBVIOUS
  <2> QED BY <1>0, <1>1, <2>2, DoomedFacts, Zenon DEF TablesOK
<1>5. \A k \in Tasks : TaskOK(k)'
  BY DEF SInv, TaskOK
<1> QED BY <1>3, <1>4, <1>5 DEF SInv, Tasks

\* A coroutine takes sockets out of the table and stops the first queue.
LEMMA DoomKeeps ==
    ASSUME SInv, PType', \A l \in Tasks : TaskOK(l)', open' = open,
           NEW k \in Tasks, NEW s \in Seq(Conns), s # <<>>, Range(s) \subseteq OnlineConns,
           current' = Without(Range(s)),
           task[k].doomed = <<>>, task'[k].doomed = s,
           \A l \in Tasks \ {k} : task'[l].doomed = task[l].doomed,
           \A c \in Conns : Fresh(c)' => Fresh(c),
           ~out'[Head(s)].tabled,
           \A c \in Conns \ {Head(s)} : SameLife(out[c], out'[c])
    PROVE  SInv'
<1>0. TablesOK /\ PType
  BY DEF SInv
<1>1. /\ \A x \in Conns : Registered(x)' <=> Registered(x) /\ x \notin Range(s)
      /\ \A d, e \in Devices : current'[d] = current'[e] /\ current'[d] # None => d = e
  BY <1>0, WithoutFacts, RangeFacts DEF TablesOK
<1>2. Head(s) \in Conns /\ Head(s) \in Range(s) /\ Range(s) \subseteq Conns
  BY RangeFacts
<1>3. Range(task[k].doomed) = {}
  BY SingleFacts
<1>4. \A x \in Conns : Doomed(x)' <=> Doomed(x) \/ x \in Range(s)
  <2>1. \A x \in Conns : Doomed(x)' => Doomed(x) \/ x \in Range(s)
    BY DEF Doomed, Tasks
  <2>2. \A x \in Conns : x \in Range(s) => Doomed(x)'
    BY DEF Doomed, Tasks
  <2>3. \A x \in Conns : Doomed(x) => Doomed(x)'
    BY <1>3 DEF Doomed, Tasks
  <2> QED BY <2>1, <2>2, <2>3
<1>5. \A x \in Conns : x \in Range(s) => Registered(x) /\ ~Doomed(x)
  BY DEF SInv, SocketOK, Registered
<1>6. ASSUME NEW x \in Conns
      PROVE  SocketOK(x)'
  <2>1. SocketOK(x)
    BY DEF SInv
  <2>2. CASE x = Head(s)
    BY <2>1, <2>2, <1>1, <1>2, <1>4, <1>5, Zenon DEF SocketOK
  <2>3. CASE x # Head(s)
    <3>1. Registered(x) => Live(out'[x])
      BY <2>1, <2>3 DEF SocketOK, Live, SameLife
    <3>2. out'[x].tabled = out[x].tabled
      BY <2>3 DEF SameLife
    <3>3. out[x].writer = "closing" /\ ~out[x].cancel =>
            out'[x].writer = "closing" /\ ~out'[x].cancel
      BY <2>3 DEF SameLife
    <3> QED BY <2>1, <3>1, <3>2, <3>3, <1>1, <1>4, <1>5 DEF SocketOK
  <2> QED BY <2>2, <2>3
<1>7. \A l, m \in Tasks : \A c \in Conns :
        c \in Range(task'[l].doomed) /\ c \in Range(task'[m].doomed) => l = m
  <2>1. \A l \in Tasks \ {k} : \A c \in Conns : c \in Range(task'[l].doomed) => c \notin Range(s)
    BY <1>5 DEF Doomed
  <2> QED BY <1>0, <2>1 DEF TablesOK
<1>8. ASSUME NEW l \in Tasks, task'[l].doomed # <<>>
      PROVE  ~out'[Head(task'[l].doomed)].tabled
  <2>1. CASE l = k
    BY <2>1
  <2>2. CASE l # k
    <3> DEFINE c == Head(task[l].doomed)
    <3>1. task'[l].doomed = task[l].doomed /\ task[l].doomed # <<>>
      BY <2>2, <1>8, Zenon
    <3>2. c \in Conns /\ Doomed(c) /\ ~out[c].tabled
      BY <3>1, <1>0, DoomedFacts DEF TablesOK
    <3>3. c # Head(s)
      BY <3>2, <1>5, <1>2
    <3>4. out'[c].tabled = out[c].tabled
      BY <3>2, <3>3 DEF SameLife
    <3> QED BY <3>1, <3>2, <3>4
  <2> QED BY <2>1, <2>2
<1>9. TablesOK'
  BY <1>1, <1>7, <1>8 DEF TablesOK, Tasks
<1> QED BY <1>6, <1>9 DEF SInv, Tasks

\* A coroutine closes the socket whose writer has ended and stops the next.
LEMMA ReapKeeps ==
    ASSUME SInv, PType', NEW k \in Tasks, Reap(k)
    PROVE  SInv'
<1>0. TablesOK /\ PType
  BY DEF SInv
<1> DEFINE s == task[k].doomed
           c == Head(task[k].doomed)
           rest == Tail(task[k].doomed)
<1>1. /\ s \in Seq(Conns) /\ s # <<>> /\ c \in Conns /\ rest \in Seq(Conns)
      /\ Range(s) = {c} \cup Range(rest)
      /\ c = Head(s)
  BY DoomedFacts, RangeFacts DEF Reap
<1>2. /\ task' = [task EXCEPT ![k].doomed = rest] /\ current' = current
      /\ open' = [open EXCEPT ![c] = "closed"]
      /\ out' = IF rest = <<>> THEN out ELSE [out EXCEPT ![Head(rest)] = StopOutbound(@)]
  BY DEF Reap
<1>3. ~out[c].tabled
  BY <1>0, <1>1 DEF TablesOK
<1>4. /\ task'[k].doomed = rest /\ task'[k].pc = task[k].pc /\ task'[k].dev = task[k].dev
      /\ \A l \in Tasks \ {k} : task'[l] = task[l]
  BY <1>0, <1>2 DEF PType, TaskSet
<1>5. rest # <<>> => Head(rest) \in Conns /\ Head(rest) \in Range(rest)
  BY <1>1, RangeFacts, Zenon
<1>6. open'[c] = "closed" /\ \A x \in Conns \ {c} : open'[x] = open[x]
  BY <1>0, <1>1, <1>2, Zenon DEF PType
<1>7. ASSUME NEW x \in Conns
      PROVE  \/ rest # <<>> /\ x = Head(rest) /\ ~out'[x].tabled
             \/ out'[x] = out[x]
  BY <1>0, <1>2, <1>5 DEF PType, QueueSet, QueueRecords, StopOutbound
<1>a. task[k].doomed = s
  OBVIOUS
<1> HIDE DEF s, c, rest
<1>8. \A x \in Conns : (Registered(x)' <=> Registered(x)) /\ (Fresh(x)' <=> Fresh(x))
  <2>1. \A x \in Conns : task'[x].pc = task[x].pc
    BY <1>4 DEF Tasks
  <2> QED BY <1>2, <2>1 DEF Registered, OnlineConns, Fresh
<1>9. /\ \A x \in Conns : Doomed(x)' => Doomed(x)
      /\ \A x \in Conns : Doomed(x) /\ x # c => Doomed(x)'
      /\ \A x \in Range(rest) : Doomed(x)' /\ Doomed(x)
  <2>1. \A l \in Tasks : Range(task'[l].doomed) \subseteq Range(task[l].doomed)
    BY <1>1, <1>4, <1>a
  <2>2. \A l \in Tasks : \A x \in Range(task[l].doomed) : x # c => x \in Range(task'[l].doomed)
    BY <1>1, <1>4, <1>a
  <2>3. \A x \in Range(rest) : x \in Range(task'[k].doomed) /\ x \in Range(task[k].doomed)
    BY <1>1, <1>4, <1>a
  <2> QED BY <2>1, <2>2, <2>3 DEF Doomed, Tasks
<1>10. ASSUME NEW x \in Conns
       PROVE  SocketOK(x)'
  <2>1. SocketOK(x)
    BY DEF SInv
  <2>2. CASE rest # <<>> /\ x = Head(rest) /\ ~out'[x].tabled
    <3>1. Doomed(x)' /\ Doomed(x)
      BY <2>2, <1>5, <1>9
    <3>2. ~Registered(x) /\ ~Fresh(x)
      BY <2>1, <3>1 DEF SocketOK
    <3> QED BY <2>2, <3>1, <3>2, <1>8 DEF SocketOK
  <2>3. CASE out'[x] = out[x] /\ x = c
    <3>1. ~out'[x].tabled /\ open'[x] # "open"
      BY <2>3, <1>3, <1>6
    <3> QED BY <2>1, <2>3, <3>1, <1>8, <1>9 DEF SocketOK
  <2>4. CASE out'[x] = out[x] /\ x # c
    BY <2>1, <2>4, <1>6, <1>8, <1>9 DEF SocketOK
  <2> QED BY <1>7, <2>2, <2>3, <2>4
<1>11. TablesOK'
  <2>1. \A l \in Tasks : Range(task'[l].doomed) \subseteq Range(task[l].doomed)
    BY <1>1, <1>4, <1>a
  <2>2. \A l, m \in Tasks : \A x \in Conns :
          x \in Range(task'[l].doomed) /\ x \in Range(task'[m].doomed) => l = m
    BY <2>1, <1>0 DEF TablesOK
  <2>3. \A x \in Conns : out'[x].tabled => out[x].tabled
    BY <1>7
  <2>4. ASSUME NEW l \in Tasks, task'[l].doomed # <<>>
        PROVE  ~out'[Head(task'[l].doomed)].tabled
    <3>1. CASE l = k
      <4>1. task'[l].doomed = rest /\ rest # <<>>
        BY <3>1, <2>4, <1>4
      <4>2. ~out'[Head(rest)].tabled
        <5>1. out' = [out EXCEPT ![Head(rest)] = StopOutbound(@)]
          BY <4>1, <1>2
        <5> QED BY <5>1, <4>1, <1>5, <1>0 DEF PType, QueueSet, QueueRecords, StopOutbound
      <4> QED BY <4>1, <4>2
    <3>2. CASE l # k
      <4>1. task'[l].doomed = task[l].doomed
        BY <3>2, <1>4
      <4>2. Head(task[l].doomed) \in Conns /\ ~out[Head(task[l].doomed)].tabled
        BY <4>1, <2>4, <1>0, DoomedFacts DEF TablesOK
      <4> QED BY <4>1, <4>2, <2>3
    <3> QED BY <3>1, <3>2
  <2>5. \A d, e \in Devices : current'[d] = current'[e] /\ current'[d] # None => d = e
    BY <1>0, <1>2 DEF TablesOK
  <2> QED BY <2>2, <2>4, <2>5 DEF TablesOK, Tasks
<1>12. \A l \in Tasks : TaskOK(l)'
  <2>1. \A l \in Tasks \ {k} : TaskOK(l)'
    BY <1>4 DEF SInv, TaskOK
  <2>2. TaskOK(k)'
    BY <1>1, <1>4, <1>a DEF SInv, TaskOK
  <2> QED BY <2>1, <2>2
<1> QED BY <1>10, <1>11, <1>12 DEF SInv, Tasks

\* A socket is registered; the one it replaces is to be stopped.
LEMMA RegisterKeeps ==
    ASSUME SInv, PType', \A l \in Tasks : TaskOK(l)',
           NEW c \in Conns, NEW d \in Devices, Fresh(c), ~Fresh(c)',
           current' = [current EXCEPT ![d] = c],
           task[c].doomed = <<>>, task'[c].doomed = Replaced(current[d]),
           \A l \in Tasks \ {c} : task'[l] = task[l],
           \A x \in Conns \ {c} : open'[x] = open[x],
           out' = RegisteredQueues(c, current[d])
    PROVE  SInv'
<1>0. TablesOK /\ PType /\ c \in Tasks
  BY DEF SInv, Tasks
<1> DEFINE prev == current[d]
<1>1. /\ prev \in Conns \cup {None} /\ (prev # None => prev \in Conns /\ Registered(prev))
      /\ \A x \in Conns : x # None
  BY <1>0, OnlineFacts, PresenceAssumption DEF PType
<1>2. ~Registered(c) /\ ~Doomed(c) /\ c # prev
  <2>1. ~Registered(c) /\ ~Doomed(c)
    BY DEF SInv, SocketOK
  <2> QED BY <2>1, <1>1
<1>3. /\ task'[c].doomed = IF prev = None THEN <<>> ELSE <<prev>>
      /\ current' = [current EXCEPT ![d] = c] /\ prev = current[d]
  BY DEF Replaced
<1>4. /\ out'[c] = NewQueue
      /\ prev # None => out'[prev] = StopOutbound(out[prev])
      /\ \A x \in Conns \ {c, prev} : out'[x] = out[x]
  BY <1>1, <1>2 DEF RegisteredQueues
<1> HIDE DEF prev
<1>5. /\ \A x \in Conns : Registered(x)' <=> x = c \/ (Registered(x) /\ x # prev)
      /\ \A a, b \in Devices : current'[a] = current'[b] /\ current'[a] # None => a = b
  <2>1. /\ \A a \in Devices : current'[a] = IF a = d THEN c ELSE current[a]
    BY <1>0, <1>3 DEF PType
  <2>2. \A a \in Devices : current[a] # c
    BY <1>0, <1>2, OnlineFacts, Zenon
  <2>3. \A a, b \in Devices : current[a] = current[b] /\ current[a] # None => a = b
    BY <1>0 DEF TablesOK
  <2>4. \A a, b \in Devices : current'[a] = current'[b] /\ current'[a] # None => a = b
    BY <2>1, <2>2, <2>3
  <2>5. ASSUME NEW x \in Conns
        PROVE  (\E a \in Devices : current'[a] = x)
                 <=> (x = c \/ ((\E a \in Devices : current[a] = x) /\ x # prev))
    <3>1. x # None
      BY <1>1, Zenon
    <3>2. CASE x = c
      BY <2>1, <3>2
    <3>3. CASE x # c
      <4>1. ASSUME NEW a \in Devices, current'[a] = x
            PROVE  current[a] = x /\ x # prev
        BY <4>1, <3>1, <3>3, <2>1, <2>3, <1>3, Zenon
      <4>2. ASSUME NEW a \in Devices, current[a] = x, x # prev
            PROVE  current'[a] = x
        BY <4>2, <2>1, <1>3
      <4> QED BY <3>3, <4>1, <4>2, Zenon
    <3> QED BY <3>2, <3>3, Zenon
  <2>6. \A x \in Conns : Registered(x)' <=> \E a \in Devices : current'[a] = x
    BY <1>1 DEF Registered, OnlineConns
  <2>7. \A x \in Conns : Registered(x) <=> \E a \in Devices : current[a] = x
    BY <1>1 DEF Registered, OnlineConns
  <2> QED BY <2>4, <2>5, <2>6, <2>7, Zenon
<1>6. Range(task[c].doomed) = {} /\ Range(task'[c].doomed) = {prev} \ {None}
  <2>1. Range(task[c].doomed) = {}
    BY SingleFacts
  <2>2. CASE prev = None
    <3>1. task'[c].doomed = <<>>
      BY <1>3, <2>2
    <3> QED BY <2>1, <2>2, <3>1, SingleFacts
  <2>3. CASE prev # None
    <3>1. task'[c].doomed = <<prev>>
      BY <1>3, <2>3
    <3> QED BY <2>1, <2>3, <3>1, SingleFacts
  <2> QED BY <2>2, <2>3
<1>7. \A x \in Conns : Doomed(x)' <=> Doomed(x) \/ x = prev
  <2>1. \A x \in Conns : Doomed(x)' => Doomed(x) \/ x = prev
    BY <1>6 DEF Doomed, Tasks
  <2>2. \A x \in Conns : x = prev => x \in Range(task'[c].doomed)
    BY <1>1, <1>6
  <2>3. \A x \in Conns : x = prev => Doomed(x)'
    BY <2>2, <1>0, Zenon DEF Doomed, Tasks
  <2>4. \A x \in Conns : Doomed(x) => Doomed(x)'
    BY <1>6, Zenon DEF Doomed, Tasks
  <2> QED BY <2>1, <2>3, <2>4, Zenon
<1>8. prev # None => ~Doomed(prev)
  BY <1>1 DEF SInv, SocketOK
<1>9. ASSUME NEW x \in Conns
      PROVE  SocketOK(x)'
  <2>1. SocketOK(x)
    BY Zenon DEF SInv
  <2>2. CASE x = c
    <3>1. Live(out'[x])
      BY <2>2, <1>4, Zenon DEF Live, NewQueue, NoQueue
    <3>2. Registered(x)' /\ ~Doomed(x)' /\ ~Fresh(x)'
      BY <2>2, <1>2, <1>5, <1>7, Zenon
    <3> QED BY <3>1, <3>2 DEF SocketOK
  <2>3. CASE x # c /\ x = prev
    <3>1. prev # None /\ ~Registered(x)' /\ Doomed(x)' /\ Registered(x)
      BY <2>3, <1>1, <1>5, <1>7, Zenon
    <3>2. ~Fresh(x)'
      BY <2>1, <2>3, <3>1, ZenonT(60) DEF SocketOK, Fresh, Tasks
    <3> QED BY <3>1, <3>2, Zenon DEF SocketOK
  <2>4. CASE x # c /\ x # prev
    <3>1. out'[x] = out[x] /\ open'[x] = open[x] /\ (Fresh(x)' <=> Fresh(x))
      BY <2>4, <1>4, Zenon DEF Fresh, Tasks
    <3>2. (Registered(x)' <=> Registered(x)) /\ (Doomed(x)' <=> Doomed(x))
      BY <2>4, <1>5, <1>7, ZenonT(60)
    <3> QED BY <2>1, <3>1, <3>2 DEF SocketOK
  <2> QED BY <2>2, <2>3, <2>4
<1>10. \A l, m \in Tasks : \A x \in Conns :
         x \in Range(task'[l].doomed) /\ x \in Range(task'[m].doomed) => l = m
  <2>1. \A l \in Tasks \ {c} : prev # None => prev \notin Range(task'[l].doomed)
    BY <1>8, Zenon DEF Doomed
  <2> QED BY <1>0, <1>6, <2>1 DEF TablesOK
<1>11. ASSUME NEW l \in Tasks, task'[l].doomed # <<>>
       PROVE  ~out'[Head(task'[l].doomed)].tabled
  <2>1. CASE l = c
    <3>1. prev # None /\ task'[l].doomed = <<prev>>
      BY <2>1, <1>3, <1>11
    <3>2. Head(task'[l].doomed) = prev
      BY <3>1, SingleFacts
    <3>3. ~out'[prev].tabled
      BY <3>1, <1>1, <1>4, <1>0, Zenon DEF StopOutbound, PType, QueueSet, QueueRecords
    <3> QED BY <3>2, <3>3, Zenon
  <2>2. CASE l # c
    <3> DEFINE x == Head(task[l].doomed)
    <3>1. task'[l].doomed = task[l].doomed /\ task[l].doomed # <<>>
      BY <2>2, <1>11, Zenon
    <3>2. x \in Conns /\ Doomed(x) /\ ~out[x].tabled
      BY <3>1, <1>0, DoomedFacts, Zenon DEF TablesOK
    <3>3. x # c /\ x # prev
      BY <3>2, <1>1, <1>2, <1>8, Zenon
    <3>4. out'[x] = out[x]
      BY <3>2, <3>3, <1>4, Zenon
    <3> QED BY <3>1, <3>2, <3>4, Zenon
  <2> QED BY <2>1, <2>2
<1>12. TablesOK'
  BY <1>5, <1>10, <1>11 DEF TablesOK, Tasks
<1> QED BY <1>9, <1>12, Zenon DEF SInv, Tasks

-----------------------------------------------------------------------------
(* Queues *)

LEMMA ShiftCardinality ==
    ASSUME NEW A \in SUBSET Nat, NEW B \in SUBSET Nat, IsFiniteSet(A),
           \A i \in A : i + 1 \in B, \A j \in B : j - 1 \in A
    PROVE  IsFiniteSet(B) /\ Cardinality(B) = Cardinality(A)
<1> DEFINE f == [i \in A |-> i + 1]
<1>1. f \in [A -> B] /\ \A i, j \in A : f[i] = f[j] => i = j
  OBVIOUS
<1>2. \A j \in B : j - 1 \in A /\ f[j - 1] = j
  OBVIOUS
<1> HIDE DEF f
<1>3. f \in Bijection(A, B)
  BY <1>1, <1>2 DEF Bijection, Injection, Surjection, IsInjective
<1>4. ExistsBijection(A, B)
  BY <1>3 DEF ExistsBijection
<1> QED BY <1>4, FS_Bijection

\* The positions of the transfer messages in a queue, and of the others.
At(q) == {i \in DOMAIN q : q[i] = Notice}
NotAt(q) == DOMAIN q \ At(q)

LEMMA BytesFacts ==
    ASSUME NEW q \in Seq(Payloads)
    PROVE  /\ Bytes(q) = NoticeBytes * Cardinality(At(q)) + Cardinality(NotAt(q))
           /\ IsFiniteSet(At(q)) /\ IsFiniteSet(NotAt(q))
           /\ Cardinality(At(q)) \in Nat /\ Cardinality(NotAt(q)) \in Nat
           /\ Bytes(q) \in Nat
<1>1. Bytes(q) = NoticeBytes * Cardinality(At(q)) + Cardinality(NotAt(q))
  BY DEF Bytes, At, NotAt
<1>2. IsFiniteSet(DOMAIN q)
  <2>1. DOMAIN q = 1..Len(q) /\ 1 \in Int /\ Len(q) \in Int
    OBVIOUS
  <2>2. IsFiniteSet(1..Len(q))
    BY <2>1, FS_Interval
  <2> QED BY <2>1, <2>2
<1>3. IsFiniteSet(At(q)) /\ IsFiniteSet(NotAt(q))
  BY <1>2, FS_Subset DEF At, NotAt
<1>4. Cardinality(At(q)) \in Nat /\ Cardinality(NotAt(q)) \in Nat
  BY <1>3, FS_CardinalityType
<1>5. \A n \in Nat : NoticeBytes * n \in Nat
  BY PresenceAssumption
<1>6. Bytes(q) \in Nat
  <2> DEFINE m == NoticeBytes * Cardinality(At(q))
             n == Cardinality(NotAt(q))
  <2>1. m \in Nat /\ n \in Nat /\ Bytes(q) = m + n
    BY <1>1, <1>4, <1>5
  <2> HIDE DEF m, n
  <2> QED BY <2>1
<1> QED BY <1>1, <1>3, <1>4, <1>6

LEMMA BytesEmpty == Bytes(<<>>) = 0
<1>1. At(<<>>) = {} /\ NotAt(<<>>) = {}
  BY DEF At, NotAt
<1>2. Cardinality({}) = 0
  BY FS_EmptySet
<1>3. <<>> \in Seq(Payloads)
  OBVIOUS
<1>4. NoticeBytes * 0 = 0
  BY PresenceAssumption
<1>5. Bytes(<<>>) = NoticeBytes * Cardinality(At(<<>>)) + Cardinality(NotAt(<<>>))
  BY <1>3, BytesFacts, Zenon
<1>6. Bytes(<<>>) = NoticeBytes * 0 + 0
  BY <1>1, <1>2, <1>5
<1> QED BY <1>4, <1>6

\* One message more adds its size.
LEMMA BytesMore ==
    ASSUME NEW p \in Payloads, NEW a \in Nat, NEW b \in Nat, NEW c \in Nat, NEW d \in Nat,
           IF p = Notice THEN c = a + 1 /\ d = b ELSE c = a /\ d = b + 1
    PROVE  NoticeBytes * c + d = NoticeBytes * a + b + Size(p)
<1>1. \A n \in Nat : NoticeBytes * (n + 1) = NoticeBytes * n + NoticeBytes
  BY PresenceAssumption
<1>2. \A n \in Nat : NoticeBytes * n \in Nat
  BY PresenceAssumption
<1>3. CASE p = Notice
  <2>1. c = a + 1 /\ d = b /\ Size(p) = NoticeBytes
    BY <1>3 DEF Size
  <2>2. NoticeBytes * c = NoticeBytes * a + NoticeBytes
    BY <2>1, <1>1
  <2> QED BY <2>1, <2>2, <1>2, PresenceAssumption
<1>4. CASE p # Notice
  <2>1. c = a /\ d = b + 1 /\ Size(p) = 1
    BY <1>4 DEF Size
  <2> QED BY <2>1, <1>2
<1> QED BY <1>3, <1>4

LEMMA BytesAppend ==
    ASSUME NEW q \in Seq(Payloads), NEW p \in Payloads
    PROVE  Bytes(Append(q, p)) = Bytes(q) + Size(p)
<1> DEFINE r == Append(q, p)
           n == Len(q) + 1
<1>1. /\ r \in Seq(Payloads) /\ DOMAIN q = 1..Len(q) /\ DOMAIN r = DOMAIN q \cup {n}
      /\ n \notin DOMAIN q /\ r[n] = p /\ \A i \in DOMAIN q : r[i] = q[i]
  OBVIOUS
<1> HIDE DEF r, n
<1>2. /\ At(r) = IF p = Notice THEN At(q) \cup {n} ELSE At(q)
      /\ NotAt(r) = IF p = Notice THEN NotAt(q) ELSE NotAt(q) \cup {n}
      /\ n \notin At(q) /\ n \notin NotAt(q)
  BY <1>1 DEF At, NotAt
<1>3. /\ Cardinality(At(q) \cup {n}) = Cardinality(At(q)) + 1
      /\ Cardinality(NotAt(q) \cup {n}) = Cardinality(NotAt(q)) + 1
  BY <1>2, BytesFacts, FS_AddElement, Zenon
<1>4. IF p = Notice
      THEN Cardinality(At(r)) = Cardinality(At(q)) + 1 /\ Cardinality(NotAt(r)) = Cardinality(NotAt(q))
      ELSE Cardinality(At(r)) = Cardinality(At(q)) /\ Cardinality(NotAt(r)) = Cardinality(NotAt(q)) + 1
  BY <1>2, <1>3
<1>5. /\ Cardinality(At(q)) \in Nat /\ Cardinality(NotAt(q)) \in Nat
      /\ Cardinality(At(r)) \in Nat /\ Cardinality(NotAt(r)) \in Nat
      /\ Bytes(q) = NoticeBytes * Cardinality(At(q)) + Cardinality(NotAt(q))
      /\ Bytes(r) = NoticeBytes * Cardinality(At(r)) + Cardinality(NotAt(r))
  BY <1>1, BytesFacts
<1>6. NoticeBytes * Cardinality(At(r)) + Cardinality(NotAt(r))
        = NoticeBytes * Cardinality(At(q)) + Cardinality(NotAt(q)) + Size(p)
  BY <1>4, <1>5, BytesMore
<1> QED BY <1>5, <1>6 DEF r

LEMMA BytesTail ==
    ASSUME NEW q \in Seq(Payloads), q # <<>>
    PROVE  Bytes(q) = Bytes(Tail(q)) + Size(Head(q))
<1> DEFINE r == Tail(q)
           p == Head(q)
<1>1. /\ r \in Seq(Payloads) /\ p \in Payloads /\ p = q[1] /\ Len(q) \in Nat \ {0}
      /\ DOMAIN q = 1..Len(q) /\ Len(r) = Len(q) - 1 /\ DOMAIN r = 1..Len(r)
  OBVIOUS
<1>2. /\ \A i \in DOMAIN r : i \in Nat /\ i + 1 \in DOMAIN q /\ i + 1 # 1 /\ q[i + 1] = r[i]
      /\ \A j \in DOMAIN q : j # 1 => j \in Nat /\ j - 1 \in DOMAIN r /\ r[j - 1] = q[j]
      /\ 1 \in DOMAIN q
  BY <1>1
<1> HIDE DEF r, p
<1> DEFINE A == At(q) \ {1}
           B == NotAt(q) \ {1}
<1>3. /\ At(r) \in SUBSET Nat /\ NotAt(r) \in SUBSET Nat /\ A \in SUBSET Nat /\ B \in SUBSET Nat
  BY <1>2 DEF At, NotAt
<1>4. /\ \A i \in At(r) : i + 1 \in A
      /\ \A j \in A : j - 1 \in At(r)
  BY <1>2 DEF At
<1>5. /\ \A i \in NotAt(r) : i + 1 \in B
      /\ \A j \in B : j - 1 \in NotAt(r)
  BY <1>2 DEF At, NotAt
<1>6. /\ At(q) = IF p = Notice THEN A \cup {1} ELSE A
      /\ NotAt(q) = IF p = Notice THEN B ELSE B \cup {1}
      /\ 1 \notin A /\ 1 \notin B
  BY <1>1, <1>2 DEF At, NotAt
<1> HIDE DEF A, B
<1>7. /\ IsFiniteSet(A) /\ Cardinality(A) = Cardinality(At(r))
      /\ IsFiniteSet(B) /\ Cardinality(B) = Cardinality(NotAt(r))
  <2>1. IsFiniteSet(At(r)) /\ IsFiniteSet(NotAt(r))
    BY <1>1, BytesFacts, Zenon
  <2>2. IsFiniteSet(A) /\ Cardinality(A) = Cardinality(At(r))
    BY <2>1, <1>3, <1>4, ShiftCardinality
  <2>3. IsFiniteSet(B) /\ Cardinality(B) = Cardinality(NotAt(r))
    BY <2>1, <1>3, <1>5, ShiftCardinality
  <2> QED BY <2>2, <2>3
<1>8. /\ Cardinality(A \cup {1}) = Cardinality(A) + 1
      /\ Cardinality(B \cup {1}) = Cardinality(B) + 1
  BY <1>6, <1>7, FS_AddElement, Zenon
<1>9. IF p = Notice
      THEN Cardinality(At(q)) = Cardinality(At(r)) + 1 /\ Cardinality(NotAt(q)) = Cardinality(NotAt(r))
      ELSE Cardinality(At(q)) = Cardinality(At(r)) /\ Cardinality(NotAt(q)) = Cardinality(NotAt(r)) + 1
  BY <1>6, <1>7, <1>8
<1>10. /\ Cardinality(At(q)) \in Nat /\ Cardinality(NotAt(q)) \in Nat
       /\ Cardinality(At(r)) \in Nat /\ Cardinality(NotAt(r)) \in Nat
       /\ Bytes(q) = NoticeBytes * Cardinality(At(q)) + Cardinality(NotAt(q))
       /\ Bytes(r) = NoticeBytes * Cardinality(At(r)) + Cardinality(NotAt(r))
  BY <1>1, BytesFacts
<1>11. NoticeBytes * Cardinality(At(q)) + Cardinality(NotAt(q))
         = NoticeBytes * Cardinality(At(r)) + Cardinality(NotAt(r)) + Size(p)
  BY <1>1, <1>9, <1>10, BytesMore
<1> QED BY <1>10, <1>11 DEF r, p

LEMMA PayloadFacts ==
    /\ Notice \in Payloads
    /\ \A ds \in SUBSET Devices : PresenceEvent(ds) \in Payloads
    /\ \A p : Size(p) \in Nat
  BY PresenceAssumption DEF Notice, PresenceEvent, Payloads, Size

LEMMA QueueFacts ==
    ASSUME NEW o \in QueueSet
    PROVE  /\ o \in QueueRecords /\ Exact(o)
           /\ \A r \in QueueRecords : r.q = o.q /\ r.bytes = o.bytes => r \in QueueSet
  BY DEF QueueSet, Exact

LEMMA EmptyQueue ==
    ASSUME NEW r \in QueueRecords, r.q = <<>>, r.bytes = 0
    PROVE  r \in QueueSet
<1>1. Len(<<>>) = 0 /\ 0 <= MaxQueueBytes /\ 0 <= MaxQueueMessages
  BY PresenceAssumption
<1> QED BY <1>1, BytesEmpty DEF QueueSet, Exact

LEMMA NewFacts == NoQueue \in QueueSet /\ NewQueue \in QueueSet
<1>1. NoQueue \in QueueRecords /\ NoQueue.q = <<>> /\ NoQueue.bytes = 0
  BY PayloadFacts DEF NoQueue, QueueRecords
<1>2. NewQueue \in QueueRecords /\ NewQueue.q = <<>> /\ NewQueue.bytes = 0
  BY <1>1, Zenon DEF NewQueue, QueueRecords
<1> QED BY <1>1, <1>2, EmptyQueue, Zenon

LEMMA StopFacts ==
    ASSUME NEW o \in QueueSet
    PROVE  StopOutbound(o) \in QueueSet /\ ~StopOutbound(o).tabled
<1>1. o \in QueueRecords
  BY QueueFacts
<1> DEFINE e == <<>>
           r == StopOutbound(o)
<1>a. e \in Seq(Payloads)
  OBVIOUS
<1>b. r = [o EXCEPT !.tabled = FALSE, !.failed = TRUE, !.bytes = 0, !.q = e, !.cancel = TRUE]
  BY DEF StopOutbound
<1> HIDE DEF e, r
<1>c. r \in QueueRecords /\ ~r.tabled /\ r.q = e /\ r.bytes = 0
  BY <1>1, <1>a, <1>b, Zenon DEF QueueRecords
<1>2. /\ StopOutbound(o) \in QueueRecords /\ ~StopOutbound(o).tabled
      /\ StopOutbound(o).q = <<>> /\ StopOutbound(o).bytes = 0
  BY <1>c DEF r, e
<1> QED BY <1>2, EmptyQueue

LEMMA FillFacts ==
    ASSUME NEW o \in QueueSet, NEW p \in Payloads,
           ~(Len(o.q) >= MaxQueueMessages \/ o.bytes + Size(p) > MaxQueueBytes)
    PROVE  Queued(o, p) \in QueueSet /\ SameLife(o, Queued(o, p))
<1>1. o \in QueueRecords /\ Exact(o) /\ Size(p) \in Nat
  BY QueueFacts, PayloadFacts
<1>2. o.q \in Seq(Payloads) /\ o.bytes \in Nat
  BY <1>1 DEF QueueRecords
<1> DEFINE r == Queued(o, p)
           b == o.bytes + Size(p)
           s == Append(o.q, p)
<1>3. b \in Nat /\ s \in Seq(Payloads) /\ Len(s) = Len(o.q) + 1
  BY <1>1, <1>2
<1>4. r = [o EXCEPT !.q = s, !.bytes = b]
  BY DEF Queued
<1>5. b <= MaxQueueBytes /\ Len(s) <= MaxQueueMessages
  BY <1>1, <1>2, <1>3, PresenceAssumption
<1>6. b = Bytes(s)
  BY <1>1, <1>2, BytesAppend DEF Exact
<1> HIDE DEF r, b, s
<1>7. r \in QueueRecords /\ r.q = s /\ r.bytes = b
  BY <1>1, <1>3, <1>4, Zenon DEF QueueRecords
<1>8. SameLife(o, r)
  BY <1>1, <1>4 DEF SameLife, QueueRecords
<1>9. r \in QueueSet
  BY <1>5, <1>6, <1>7 DEF QueueSet, Exact
<1> QED BY <1>8, <1>9 DEF r

\* The writer takes the first message: the clamp at zero never bites.
LEMMA TakeFacts ==
    ASSUME NEW o \in QueueSet, o.q # <<>>, o.writer = "get", NEW r,
           r = [o EXCEPT !.writer = "send", !.held = Head(o.q), !.q = Tail(o.q),
                         !.bytes = IF o.bytes - Size(Head(o.q)) > 0
                                   THEN o.bytes - Size(Head(o.q)) ELSE 0]
    PROVE  r \in QueueSet /\ SameLife(o, r)
<1>1. o \in QueueRecords /\ Exact(o)
  BY QueueFacts
<1>2. o.q \in Seq(Payloads) /\ o.bytes \in Nat
  BY <1>1 DEF QueueRecords
<1> DEFINE h == Head(o.q)
           s == Tail(o.q)
           b == IF o.bytes - Size(Head(o.q)) > 0 THEN o.bytes - Size(Head(o.q)) ELSE 0
<1>3. h \in Payloads /\ s \in Seq(Payloads) /\ Len(s) = Len(o.q) - 1 /\ Len(o.q) \in Nat
  BY <1>2
<1>4. o.bytes = Bytes(s) + Size(h) /\ Bytes(s) \in Nat /\ Size(h) \in Nat
  BY <1>1, <1>2, <1>3, BytesTail, BytesFacts, PayloadFacts, Zenon DEF Exact
<1>5. b = Bytes(s) /\ b \in Nat /\ b <= MaxQueueBytes /\ Len(s) <= MaxQueueMessages
  BY <1>1, <1>2, <1>3, <1>4, PresenceAssumption, SMTT(20) DEF Exact
<1>6. r = [o EXCEPT !.writer = "send", !.held = h, !.q = s, !.bytes = b]
  OBVIOUS
<1> HIDE DEF h, s, b
<1>7. r \in QueueRecords /\ r.q = s /\ r.bytes = b
  BY <1>1, <1>3, <1>5, <1>6, Zenon DEF QueueRecords
<1>8. SameLife(o, r)
  BY <1>1, <1>6 DEF SameLife, QueueRecords
<1> QED BY <1>5, <1>7, <1>8, Zenon DEF QueueSet, Exact

-----------------------------------------------------------------------------
(* Coroutines *)

LEMMA NoTaskFacts == NoTask \in TaskSet /\ NoTask.pc = "free" /\ NoTask.doomed = <<>>
<1>1. <<>> \in Seq(Conns)
  OBVIOUS
<1> QED BY <1>1 DEF NoTask, TaskSet, Pcs

\* One coroutine moves.
LEMMA TaskMove ==
    ASSUME SInv, NEW k \in Tasks, NEW t \in TaskSet, task' = [task EXCEPT ![k] = t],
           t.pc \in {"lookup", "accept", "disconnect"} => t.doomed = <<>>,
           t.pc \in {"lookup", "accept", "disconnect", "send"} => t.dev \in Devices,
           t.pc = "free" => k \in Notifiers,
           t.pc \in {"lookup", "accept"} /\ k \in Conns => Fresh(k)
    PROVE  /\ task' \in [Tasks -> TaskSet]
           /\ task'[k] = t
           /\ \A l \in Tasks \ {k} : task'[l] = task[l]
           /\ \A l \in Tasks : TaskOK(l)'
           /\ \A c \in Conns : Fresh(c)' => Fresh(c)
<1>1. task \in [Tasks -> TaskSet]
  BY DEF SInv, PType
<1>2. task' \in [Tasks -> TaskSet] /\ task'[k] = t /\ \A l \in Tasks \ {k} : task'[l] = task[l]
  BY <1>1
<1>3. ASSUME NEW l \in Tasks
      PROVE  TaskOK(l)'
  <2>1. CASE l = k
    BY <2>1, <1>2, Zenon DEF TaskOK
  <2>2. CASE l # k
    BY <2>2, <1>2 DEF TaskOK, SInv
  <2> QED BY <2>1, <2>2
<1>4. ASSUME NEW c \in Conns, Fresh(c)'
      PROVE  Fresh(c)
  <2>1. CASE c = k
    BY <2>1, <1>2, <1>4, PresenceAssumption DEF Fresh
  <2>2. CASE c # k
    BY <2>2, <1>2, <1>4, ZenonT(60) DEF Fresh, Tasks
  <2> QED BY <2>1, <2>2
<1> QED BY <1>2, <1>3, <1>4

\* A coroutine moves, and at most closes a socket or fills queues.
LEMMA CalmMove ==
    ASSUME SInv, NEW k \in Tasks, NEW t \in TaskSet, task' = [task EXCEPT ![k] = t],
           t.pc \in {"lookup", "accept", "disconnect"} => t.doomed = <<>>,
           t.pc \in {"lookup", "accept", "disconnect", "send"} => t.dev \in Devices,
           t.pc = "free" => k \in Notifiers,
           t.pc \in {"lookup", "accept"} /\ k \in Conns => Fresh(k),
           t.doomed = task[k].doomed,
           now' = now, active' \subseteq Devices, current' = current,
           open' = open \/ \E c \in Conns : open' = [open EXCEPT ![c] = "closed"],
           out' \in [Conns -> QueueSet], \A c \in Conns : SameLife(out[c], out'[c])
    PROVE  SInv'
<1>1. /\ task' \in [Tasks -> TaskSet]
      /\ task'[k] = t
      /\ \A l \in Tasks \ {k} : task'[l] = task[l]
      /\ \A l \in Tasks : TaskOK(l)'
      /\ \A c \in Conns : Fresh(c)' => Fresh(c)
  BY TaskMove, Zenon
<1>2. \A l \in Tasks : task'[l].doomed = task[l].doomed
  BY <1>1, Zenon
<1>3. /\ open' \in [Conns -> {"no", "open", "closed"}]
      /\ \A c \in Conns : open'[c] = "open" => open[c] = "open"
  BY Zenon DEF SInv, PType
<1>4. PType'
  BY <1>1, <1>3, Zenon DEF SInv, PType, Tasks
<1>5. \A l \in Tasks : TaskOK(l)'
  BY <1>1, Zenon
<1> QED BY <1>1, <1>2, <1>3, <1>4, <1>5, CalmKeeps DEF Tasks

\* A coroutine moves and takes sockets out of the table.
LEMMA DoomMove ==
    ASSUME SInv, NEW k \in Tasks, NEW t \in TaskSet, task' = [task EXCEPT ![k] = t],
           t.pc \notin {"lookup", "accept", "disconnect"},
           t.pc = "send" => t.dev \in Devices,
           t.pc = "free" => k \in Notifiers,
           task[k].doomed = <<>>, t.doomed # <<>>, Range(t.doomed) \subseteq OnlineConns,
           now' = now, active' = active, open' = open, current' = Without(Range(t.doomed)),
           out' \in [Conns -> QueueSet], ~out'[Head(t.doomed)].tabled,
           \A c \in Conns \ {Head(t.doomed)} : SameLife(out[c], out'[c])
    PROVE  SInv'
<1>1. /\ task' \in [Tasks -> TaskSet]
      /\ task'[k] = t
      /\ \A l \in Tasks \ {k} : task'[l] = task[l]
      /\ \A l \in Tasks : TaskOK(l)'
      /\ \A c \in Conns : Fresh(c)' => Fresh(c)
  BY TaskMove, Zenon
<1> DEFINE s == t.doomed
<1>2. s \in Seq(Conns) /\ s # <<>> /\ Range(s) \subseteq Conns
  BY RangeFacts, Zenon DEF TaskSet
<1>3. current' \in [Devices -> Conns \cup {None}]
  BY <1>2, WithoutFacts, Zenon DEF SInv, TablesOK
<1>4. PType'
  BY <1>1, <1>3, Zenon DEF SInv, PType, Tasks
<1>5. /\ task'[k].doomed = s /\ \A l \in Tasks \ {k} : task'[l].doomed = task[l].doomed
      /\ Range(s) \subseteq OnlineConns /\ current' = Without(Range(s)) /\ ~out'[Head(s)].tabled
      /\ \A c \in Conns \ {Head(s)} : SameLife(out[c], out'[c])
  BY <1>1, Zenon
<1>6. \A l \in Tasks : TaskOK(l)'
  BY <1>1, Zenon
<1> HIDE DEF s
<1> QED BY <1>1, <1>2, <1>4, <1>5, <1>6, DoomKeeps

\* A coroutine moves and leaves the queues alone.
LEMMA QuietMove ==
    ASSUME SInv, NEW k \in Tasks, NEW t \in TaskSet, task' = [task EXCEPT ![k] = t],
           t.pc \in {"lookup", "accept", "disconnect"} => t.doomed = <<>>,
           t.pc \in {"lookup", "accept", "disconnect", "send"} => t.dev \in Devices,
           t.pc = "free" => k \in Notifiers,
           t.pc \in {"lookup", "accept"} /\ k \in Conns => Fresh(k),
           t.doomed = task[k].doomed,
           now' = now, active' \subseteq Devices, current' = current,
           open' = open \/ \E c \in Conns : open' = [open EXCEPT ![c] = "closed"],
           out' = out
    PROVE  SInv'
<1>1. out' \in [Conns -> QueueSet]
  BY Zenon DEF SInv, PType
<1>2. \A c \in Conns : SameLife(out[c], out'[c])
  BY DEF SameLife
<1> QED BY <1>1, <1>2, CalmMove, Zenon

LEMMA GotoMove ==
    ASSUME SInv, NEW k \in Tasks,
           NEW pc \in {"snapshot", "listed", "read", "publish", "gather", "enqueue", "serve",
                       "beat", "gone", "remove", "ended"},
           Goto(k, pc), now' = now, active' = active, current' = current,
           open' = open \/ \E c \in Conns : open' = [open EXCEPT ![c] = "closed"],
           out' = out
    PROVE  SInv'
<1> DEFINE t == [task[k] EXCEPT !.pc = pc]
<1>0. task \in [Tasks -> TaskSet] /\ task[k] \in TaskSet /\ active' \subseteq Devices
  BY DEF SInv, PType
<1>1. t \in TaskSet /\ t.pc = pc /\ t.doomed = task[k].doomed
  BY <1>0, Zenon DEF TaskSet, Pcs
<1>2. task' = [task EXCEPT ![k] = t]
  BY <1>0 DEF Goto
<1> HIDE DEF t
<1> QED BY <1>0, <1>1, <1>2, QuietMove, Zenon

LEMMA ConnectStep ==
    ASSUME SInv, NEW c \in Conns, Connect(c)
    PROVE  SInv'
<1>1. PICK d \in active : task' = [task EXCEPT ![c].pc = "lookup", ![c].dev = d]
  BY Zenon DEF Connect
<1>2. /\ task \in [Tasks -> TaskSet] /\ c \in Tasks /\ task[c] \in TaskSet
      /\ d \in Devices /\ active \subseteq Devices /\ c \notin Notifiers
  BY PresenceAssumption DEF SInv, PType, Tasks
<1>3. task[c].pc = "free" /\ task[c].doomed = <<>> /\ Fresh(c)
  BY <1>2 DEF SInv, TaskOK, Connect, Fresh
<1> DEFINE t == [task[c] EXCEPT !.pc = "lookup", !.dev = d]
<1>4. t \in TaskSet /\ t.pc = "lookup" /\ t.doomed = task[c].doomed /\ t.dev = d
  BY <1>2, Zenon DEF TaskSet, Pcs
<1>5. task' = [task EXCEPT ![c] = t]
  BY <1>1, <1>2, Zenon
<1> HIDE DEF t
<1>6. now' = now /\ active' \subseteq Devices /\ current' = current /\ open' = open /\ out' = out
  BY <1>2 DEF Connect
<1> QED BY <1>2, <1>3, <1>4, <1>5, <1>6, QuietMove, Zenon

LEMMA LookupStep ==
    ASSUME SInv, NEW c \in Conns, Lookup(c)
    PROVE  SInv'
<1>1. /\ task \in [Tasks -> TaskSet] /\ c \in Tasks /\ task[c] \in TaskSet
      /\ active \subseteq Devices
  BY DEF SInv, PType, Tasks
<1>2. task[c].pc = "lookup" /\ task[c].doomed = <<>> /\ task[c].dev \in Devices /\ Fresh(c)
  BY <1>1 DEF SInv, TaskOK, Lookup, Fresh
<1>3. PICK pc \in {"accept", "ended"} : Goto(c, pc)
  BY DEF Lookup
<1> DEFINE t == [task[c] EXCEPT !.pc = pc]
<1>4. t \in TaskSet /\ t.pc = pc /\ t.doomed = task[c].doomed /\ t.dev = task[c].dev
  BY <1>1, Zenon DEF TaskSet, Pcs
<1>5. task' = [task EXCEPT ![c] = t]
  BY <1>1, <1>3 DEF Goto
<1> HIDE DEF t
<1>6. now' = now /\ active' \subseteq Devices /\ current' = current /\ open' = open /\ out' = out
  BY <1>1 DEF Lookup
<1> QED BY <1>1, <1>2, <1>4, <1>5, <1>6, QuietMove, Zenon

LEMMA RegisterStep ==
    ASSUME SInv, NEW c \in Conns, Register(c)
    PROVE  SInv'
<1>1. /\ task \in [Tasks -> TaskSet] /\ c \in Tasks /\ task[c] \in TaskSet /\ PType
      /\ active \subseteq Devices
  BY DEF SInv, PType, Tasks
<1>2. task[c].pc = "accept" /\ task[c].doomed = <<>> /\ task[c].dev \in Devices /\ Fresh(c)
  BY <1>1 DEF SInv, TaskOK, Register, Fresh
<1> DEFINE d == task[c].dev
<1>3. CASE current[d] = None /\ ~HasCapacity
  <2>1. /\ Goto(c, "ended") /\ open' = [open EXCEPT ![c] = "closed"]
        /\ now' = now /\ active' = active /\ current' = current /\ out' = out
    BY <1>3 DEF Register
  <2> QED BY <2>1, <1>1, GotoMove, Zenon
<1>4. CASE ~(current[d] = None /\ ~HasCapacity)
  <2> DEFINE r == Replaced(current[d])
             t == [task[c] EXCEPT !.pc = "snapshot", !.first = TRUE, !.doomed = r]
  <2>1. /\ current' = [current EXCEPT ![d] = c]
        /\ out' = RegisteredQueues(c, current[d])
        /\ open' = [open EXCEPT ![c] = "open"]
        /\ task' = [task EXCEPT ![c].pc = "snapshot", ![c].first = TRUE, ![c].doomed = r]
        /\ now' = now /\ active' = active
    BY <1>4 DEF Register
  <2>2. d \in Devices /\ current[d] \in Conns \cup {None}
    BY <1>1, <1>2 DEF PType
  <2>3. r \in Seq(Conns)
    BY <2>2, SingleFacts DEF Replaced
  <2>4. task' = [task EXCEPT ![c] = t]
    BY <1>1, <2>1, Zenon
  <2>5. r = Replaced(current[d])
    OBVIOUS
  <2> HIDE DEF r
  <2>6. t \in TaskSet /\ t.pc = "snapshot" /\ t.doomed = r
    BY <1>1, <2>3, Zenon DEF TaskSet, Pcs
  <2> HIDE DEF t
  <2>7. /\ task' \in [Tasks -> TaskSet] /\ task'[c] = t
        /\ \A l \in Tasks \ {c} : task'[l] = task[l]
        /\ \A l \in Tasks : TaskOK(l)'
    BY <1>1, <2>4, <2>6, TaskMove, Zenon
  <2>8. out' \in [Conns -> QueueSet]
    <3>1. \A x \in Conns : out[x] \in QueueSet /\ StopOutbound(out[x]) \in QueueSet
      BY <1>1, StopFacts DEF PType
    <3> QED BY <2>1, <3>1, NewFacts DEF RegisteredQueues
  <2>9. /\ open' \in [Conns -> {"no", "open", "closed"}]
        /\ \A x \in Conns \ {c} : open'[x] = open[x]
        /\ current' \in [Devices -> Conns \cup {None}]
    BY <1>1, <2>1, <2>2 DEF PType
  <2>10. PType'
    BY <1>1, <2>1, <2>7, <2>8, <2>9, Zenon DEF PType, Tasks
  <2>11. task'[c].doomed = Replaced(current[d]) /\ ~Fresh(c)'
    BY <2>5, <2>6, <2>7 DEF Fresh
  <2>12. \A l \in Tasks : TaskOK(l)'
    BY <2>7
  <2> HIDE DEF d
  <2> QED BY <1>2, <2>1, <2>2, <2>7, <2>9, <2>10, <2>11, <2>12, RegisterKeeps, Zenon
<1> QED BY <1>3, <1>4

-----------------------------------------------------------------------------
(* Sockets taken out of the table *)

LEMMA StopQueue ==
    ASSUME SInv, NEW c \in Conns, out' = [out EXCEPT ![c] = StopOutbound(@)]
    PROVE  /\ out' \in [Conns -> QueueSet] /\ ~out'[c].tabled
           /\ \A x \in Conns \ {c} : SameLife(out[x], out'[x])
<1>1. out \in [Conns -> QueueSet] /\ out[c] \in QueueSet
  BY DEF SInv, PType
<1> DEFINE r == StopOutbound(out[c])
<1>2. r \in QueueSet /\ ~r.tabled
  BY <1>1, StopFacts
<1>3. out' = [out EXCEPT ![c] = r]
  OBVIOUS
<1> HIDE DEF r
<1>4. out' \in [Conns -> QueueSet] /\ ~out'[c].tabled /\ \A x \in Conns \ {c} : out'[x] = out[x]
  BY <1>1, <1>2, <1>3
<1> QED BY <1>4 DEF SameLife

\* One coroutine takes sockets out of the table and stops the first queue.
LEMMA StopMove ==
    ASSUME SInv, NEW k \in Tasks, NEW t \in TaskSet, task' = [task EXCEPT ![k] = t],
           t.pc \notin {"lookup", "accept", "disconnect"},
           t.pc = "send" => t.dev \in Devices,
           t.pc = "free" => k \in Notifiers,
           task[k].doomed = <<>>, t.doomed # <<>>, Range(t.doomed) \subseteq OnlineConns,
           now' = now, active' = active, open' = open, current' = Without(Range(t.doomed)),
           out' = [out EXCEPT ![Head(t.doomed)] = StopOutbound(@)]
    PROVE  SInv'
<1> DEFINE c == Head(t.doomed)
<1>1. c \in Conns
  BY RangeFacts, Zenon DEF TaskSet
<1>2. out' = [out EXCEPT ![c] = StopOutbound(@)]
  OBVIOUS
<1> HIDE DEF c
<1>3. /\ out' \in [Conns -> QueueSet] /\ ~out'[c].tabled
      /\ \A x \in Conns \ {c} : SameLife(out[x], out'[x])
  BY <1>1, <1>2, StopQueue, Zenon
<1>4. /\ ~out'[Head(t.doomed)].tabled
      /\ \A x \in Conns \ {Head(t.doomed)} : SameLife(out[x], out'[x])
  BY <1>3 DEF c
<1> QED BY <1>3, <1>4, DoomMove, Zenon

LEMMA DoomStep ==
    ASSUME SInv, NEW k \in Tasks, NEW s \in Seq(Conns), s # <<>>, Range(s) \subseteq OnlineConns,
           NEW pc \in Pcs \ {"lookup", "accept", "disconnect", "send"},
           pc = "free" => k \in Notifiers,
           task[k].doomed = <<>>, Doom(k, s, pc),
           now' = now, active' = active, open' = open
    PROVE  SInv'
<1> DEFINE t == [task[k] EXCEPT !.doomed = s, !.pc = pc]
<1>1. task \in [Tasks -> TaskSet] /\ task[k] \in TaskSet
  BY DEF SInv, PType
<1>2. t \in TaskSet /\ t.pc = pc /\ t.doomed = s
  BY <1>1, Zenon DEF TaskSet
<1>3. /\ task' = [task EXCEPT ![k] = t] /\ current' = Without(Range(s))
      /\ out' = [out EXCEPT ![Head(s)] = StopOutbound(@)]
  BY <1>1, Zenon DEF Doom
<1> HIDE DEF t
<1>4. /\ t.doomed # <<>> /\ Range(t.doomed) \subseteq OnlineConns
      /\ current' = Without(Range(t.doomed))
      /\ out' = [out EXCEPT ![Head(t.doomed)] = StopOutbound(@)]
  BY <1>2, <1>3
<1>5. /\ t.pc \notin {"lookup", "accept", "disconnect"} /\ t.pc # "send"
      /\ t.pc = "free" => k \in Notifiers
  BY <1>2
<1> QED BY <1>2, <1>3, <1>4, <1>5, StopMove, Zenon

LEMMA DoomOne ==
    ASSUME SInv, NEW k \in Tasks, NEW c \in Conns, Registered(c),
           NEW pc \in Pcs \ {"lookup", "accept", "disconnect", "send"},
           pc = "free" => k \in Notifiers,
           task[k].doomed = <<>>, Doom(k, <<c>>, pc),
           now' = now, active' = active, open' = open
    PROVE  SInv'
<1> DEFINE s == <<c>>
<1>1. s \in Seq(Conns) /\ s # <<>> /\ Range(s) \subseteq OnlineConns /\ Doom(k, s, pc)
  BY SingleFacts DEF Registered
<1> HIDE DEF s
<1> QED BY <1>1, DoomStep

-----------------------------------------------------------------------------
(* broadcast_presence() *)

LEMMA ListStep ==
    ASSUME SInv, NEW k \in Tasks, List(k), now' = now, active' = active, open' = open
    PROVE  SInv'
<1> DEFINE on == OnlineConns
           pc == IF OnlineConns = {} THEN AfterBroadcast(k) ELSE "read"
           t == [task[k] EXCEPT !.todo = on, !.seen = {}, !.pc = pc]
<1>1. task \in [Tasks -> TaskSet] /\ task[k] \in TaskSet /\ on \subseteq Conns
  BY OnlineFacts DEF SInv, PType
<1>2. pc \in {"serve", "ended", "read"}
  BY DEF AfterBroadcast
<1>3. task' = [task EXCEPT ![k] = t] /\ current' = current /\ out' = out
  BY <1>1, Zenon DEF List
<1> HIDE DEF on, pc
<1>4. t \in TaskSet /\ t.pc = pc /\ t.doomed = task[k].doomed
  BY <1>1, <1>2, Zenon DEF TaskSet, Pcs
<1> HIDE DEF t
<1>5. t.pc \notin {"free", "lookup", "accept", "disconnect", "send"}
  BY <1>2, <1>4
<1>6. active' \subseteq Devices
  BY DEF SInv, PType
<1> QED BY <1>3, <1>4, <1>5, <1>6, QuietMove, Zenon

LEMMA PruneStep ==
    ASSUME SInv, NEW k \in Tasks, task[k].doomed = <<>>, Expired # {},
           NEW s \in Orders(Expired), NEW pc \in {"listed", "gather"}, Doom(k, s, pc),
           now' = now, active' = active, open' = open
    PROVE  SInv'
<1>1. s \in Seq(Conns) /\ s # <<>> /\ Range(s) \subseteq OnlineConns
  BY OrderFacts, Zenon DEF SInv
<1>2. pc \in Pcs \ {"lookup", "accept", "disconnect", "send"} /\ pc # "free"
  BY DEF Pcs
<1> QED BY <1>1, <1>2, DoomStep, Zenon

LEMMA SnapshotStep ==
    ASSUME SInv, NEW k \in Tasks, Snapshot(k)
    PROVE  SInv'
<1>1. now' = now /\ active' = active /\ open' = open
  BY DEF Snapshot
<1>2. CASE List(k)
  BY <1>1, <1>2, ListStep, Zenon
<1>3. ASSUME Running(k, "snapshot"), Expired # {},
             NEW s \in Orders(Expired), Doom(k, s, "listed")
      PROVE  SInv'
  BY <1>1, <1>3, PruneStep DEF Running
<1> QED BY <1>2, <1>3 DEF Snapshot

LEMMA ReadDeviceStep ==
    ASSUME SInv, NEW k \in Tasks, ReadDevice(k)
    PROVE  SInv'
<1>1. PICK c \in task[k].todo :
        task' = [task EXCEPT ![k].todo = @ \ {c},
                             ![k].seen = @ \cup ({task[c].dev} \cap active),
                             ![k].pc = IF task[k].todo = {c} THEN "publish" ELSE "read"]
  BY Zenon DEF ReadDevice
<1> DEFINE todo == task[k].todo \ {c}
           seen == task[k].seen \cup ({task[c].dev} \cap active)
           pc == IF task[k].todo = {c} THEN "publish" ELSE "read"
           t == [task[k] EXCEPT !.todo = todo, !.seen = seen, !.pc = pc]
<1>2. task \in [Tasks -> TaskSet] /\ task[k] \in TaskSet /\ active \subseteq Devices
  BY Zenon DEF SInv, PType
<1>3. todo \in SUBSET Conns /\ seen \in SUBSET Devices /\ pc \in {"publish", "read"}
  BY <1>2 DEF TaskSet
<1>4. task' = [task EXCEPT ![k] = t]
  BY <1>1, <1>2, Zenon
<1> HIDE DEF todo, seen, pc
<1>5. t \in TaskSet /\ t.pc = pc /\ t.doomed = task[k].doomed
  BY <1>2, <1>3, Zenon DEF TaskSet, Pcs
<1> HIDE DEF t
<1>6. t.pc \notin {"free", "lookup", "accept", "disconnect", "send"}
  BY <1>3, <1>5
<1>7. now' = now /\ active' \subseteq Devices /\ current' = current /\ open' = open /\ out' = out
  BY <1>2 DEF ReadDevice
<1> QED BY <1>4, <1>5, <1>6, <1>7, QuietMove, Zenon

\* The queues that were not full take the event.
LEMMA FilledFacts ==
    ASSUME SInv, NEW some \in SUBSET Conns, NEW p \in Payloads, NEW f,
           \A c \in some : ~(Accepting(c) /\ Overflows(c, p)),
           f = [c \in Conns |-> IF c \in some /\ Accepting(c) THEN Queued(out[c], p) ELSE out[c]]
    PROVE  f \in [Conns -> QueueSet] /\ \A c \in Conns : SameLife(out[c], f[c])
<1>1. ASSUME NEW c \in Conns
      PROVE  f[c] \in QueueSet /\ SameLife(out[c], f[c])
  <2>1. out[c] \in QueueSet
    BY DEF SInv, PType
  <2>2. CASE c \in some /\ Accepting(c)
    <3>1. f[c] = Queued(out[c], p)
      BY <2>2
    <3>2. ~(Len(out[c].q) >= MaxQueueMessages \/ out[c].bytes + Size(p) > MaxQueueBytes)
      BY <2>2, Zenon DEF Overflows
    <3>3. Queued(out[c], p) \in QueueSet /\ SameLife(out[c], Queued(out[c], p))
      BY <2>1, <3>2, FillFacts, Zenon
    <3> QED BY <3>1, <3>3
  <2>3. CASE ~(c \in some /\ Accepting(c))
    BY <2>1, <2>3 DEF SameLife
  <2> QED BY <2>2, <2>3
<1>2. f \in [Conns -> QueueSet]
  <2>1. f = [c \in Conns |-> f[c]]
    OBVIOUS
  <2> QED BY <1>1, <2>1
<1> QED BY <1>1, <1>2

LEMMA EnqueueAllStep ==
    ASSUME SInv, NEW k \in Tasks, NEW cs \in SUBSET Conns, task[k].doomed = <<>>,
           EnqueueAll(k, cs), now' = now, active' = active, open' = open
    PROVE  SInv'
<1> DEFINE p == PresenceEvent(task[k].seen)
           Filled(some) == [c \in Conns |-> IF c \in some /\ Accepting(c)
                                            THEN Queued(out[c], p) ELSE out[c]]
           full == {c \in cs : Accepting(c) /\ Overflows(c, p)}
<1>0. /\ task \in [Tasks -> TaskSet] /\ task[k] \in TaskSet /\ p \in Payloads
      /\ active' \subseteq Devices
  <2>1. task[k].seen \in SUBSET Devices
    BY DEF SInv, PType, TaskSet
  <2> QED BY <2>1, PayloadFacts DEF SInv, PType
<1>1. ASSUME full = {}, out' = Filled(cs), current' = current,
             task' = [task EXCEPT ![k].pc = AfterBroadcast(k), ![k].todo = {}, ![k].seen = {}]
      PROVE  SInv'
  <2> DEFINE pc == AfterBroadcast(k)
             t == [task[k] EXCEPT !.pc = pc, !.todo = {}, !.seen = {}]
  <2>1. \A c \in cs : ~(Accepting(c) /\ Overflows(c, p))
    BY <1>1
  <2>2. out' = [c \in Conns |-> IF c \in cs /\ Accepting(c) THEN Queued(out[c], p) ELSE out[c]]
    BY <1>1
  <2> HIDE DEF p
  <2>3. out' \in [Conns -> QueueSet] /\ \A c \in Conns : SameLife(out[c], out'[c])
    BY <2>1, <2>2, <1>0, FilledFacts, Zenon
  <2>4. pc \in {"serve", "ended"}
    BY DEF AfterBroadcast
  <2>5. task' = [task EXCEPT ![k] = t]
    BY <1>0, <1>1, Zenon
  <2> HIDE DEF pc
  <2>6. t \in TaskSet /\ t.pc = pc /\ t.doomed = task[k].doomed
    BY <1>0, <2>4, Zenon DEF TaskSet, Pcs
  <2> HIDE DEF t
  <2>7. t.pc \notin {"free", "lookup", "accept", "disconnect", "send"}
    BY <2>4, <2>6
  <2> QED BY <1>0, <1>1, <2>3, <2>5, <2>6, <2>7, CalmMove, Zenon
<1>2. ASSUME NEW c \in full, NEW before \in SUBSET (cs \ full),
             out' = [Filled(before) EXCEPT ![c] = StopOutbound(@)],
             current' = Without({c}),
             task' = [task EXCEPT ![k].pc = "enqueue", ![k].doomed = <<c>>,
                                  ![k].todo = cs \ (before \cup {c})]
      PROVE  SInv'
  <2> DEFINE todo == cs \ (before \cup {c})
             s == <<c>>
             t == [task[k] EXCEPT !.pc = "enqueue", !.doomed = s, !.todo = todo]
             f == Filled(before)
             q == StopOutbound(f[c])
  <2>1. c \in Conns /\ Registered(c) /\ before \in SUBSET Conns
        /\ \A x \in before : ~(Accepting(x) /\ Overflows(x, p))
    BY Zenon DEF Accepting
  <2>2. f = [x \in Conns |-> IF x \in before /\ Accepting(x) THEN Queued(out[x], p) ELSE out[x]]
    OBVIOUS
  <2>3. task' = [task EXCEPT ![k] = t] /\ out' = [f EXCEPT ![c] = q]
    BY <1>0, <1>2, Zenon
  <2>4. /\ s \in Seq(Conns) /\ s # <<>> /\ Range(s) = {c} /\ Head(s) = c
        /\ todo \in SUBSET Conns
    BY <2>1, SingleFacts
  <2>5. f \in [Conns -> QueueSet] /\ \A x \in Conns : SameLife(out[x], f[x])
    <3> HIDE DEF p, f
    <3> QED BY <2>1, <2>2, <1>0, FilledFacts, Zenon
  <2>6. q \in QueueSet /\ ~q.tabled
    <3>1. f[c] \in QueueSet
      BY <2>1, <2>5, Zenon
    <3> HIDE DEF f
    <3> QED BY <3>1, StopFacts, Zenon
  <2> HIDE DEF f, q, p, full, Filled, s, todo
  <2>7. /\ out' \in [Conns -> QueueSet] /\ ~out'[c].tabled
        /\ \A x \in Conns \ {c} : SameLife(out[x], out'[x])
    <3>1. /\ out' \in [Conns -> QueueSet] /\ out'[c] = q
          /\ \A x \in Conns \ {c} : out'[x] = f[x]
      BY <2>1, <2>3, <2>5, <2>6
    <3> QED BY <3>1, <2>5, <2>6
  <2>8. t \in TaskSet /\ t.pc = "enqueue" /\ t.doomed = s
    BY <1>0, <2>4, Zenon DEF TaskSet, Pcs
  <2> HIDE DEF t
  <2>9. /\ t.doomed # <<>> /\ Range(t.doomed) \subseteq OnlineConns
        /\ current' = Without(Range(t.doomed)) /\ ~out'[Head(t.doomed)].tabled
        /\ \A x \in Conns \ {Head(t.doomed)} : SameLife(out[x], out'[x])
    BY <1>2, <2>1, <2>4, <2>7, <2>8, Zenon DEF Registered
  <2> QED BY <2>3, <2>7, <2>8, <2>9, DoomMove, Zenon
<1> QED BY <1>1, <1>2, Zenon DEF EnqueueAll

LEMMA PublishStep ==
    ASSUME SInv, NEW k \in Tasks, Publish(k)
    PROVE  SInv'
<1>1. now' = now /\ active' = active /\ open' = open /\ task[k].doomed = <<>>
  BY DEF Publish, Running
<1>2. Audience(k) \in SUBSET Conns /\ task[k].todo \in SUBSET Conns
  BY OnlineFacts, Zenon DEF Audience, SInv, PType, TaskSet
<1>3. ASSUME NEW cs \in {Audience(k), task[k].todo}, EnqueueAll(k, cs)
      PROVE  SInv'
  BY <1>1, <1>2, <1>3, EnqueueAllStep, Zenon
<1>4. ASSUME Expired # {}, NEW s \in Orders(Expired), Doom(k, s, "gather")
      PROVE  SInv'
  BY <1>1, <1>4, PruneStep
<1> QED BY <1>3, <1>4, Zenon DEF Publish

LEMMA BroadcastFailsStep ==
    ASSUME SInv, NEW k \in Tasks, BroadcastFails(k)
    PROVE  SInv'
<1> DEFINE t == [task[k] EXCEPT !.pc = "ended", !.todo = {}, !.seen = {}]
<1>1. task \in [Tasks -> TaskSet] /\ task[k] \in TaskSet /\ active \subseteq Devices
  BY DEF SInv, PType
<1>2. t \in TaskSet /\ t.pc = "ended" /\ t.doomed = task[k].doomed
  BY <1>1, Zenon DEF TaskSet, Pcs
<1>3. task' = [task EXCEPT ![k] = t]
  BY <1>1, Zenon DEF BroadcastFails
<1> HIDE DEF t
<1>4. /\ now' = now /\ active' \subseteq Devices /\ current' = current /\ out' = out
      /\ open' = open \/ \E c \in Conns : open' = [open EXCEPT ![c] = "closed"]
  BY <1>1, Zenon DEF BroadcastFails
<1> QED BY <1>2, <1>3, <1>4, QuietMove, Zenon

-----------------------------------------------------------------------------
(* _serve_connection() and the handlers *)

LEMMA ServeStep ==
    ASSUME SInv, NEW c \in Conns, Heartbeat(c) \/ Beat(c) \/ ServeEnds(c)
    PROVE  SInv'
<1>1. c \in Tasks
  BY Zenon DEF Tasks
<1>2. PICK pc \in {"beat", "gone", "serve", "remove"} : Goto(c, pc)
  BY Zenon DEF Heartbeat, Beat, ServeEnds
<1>3. /\ now' = now /\ active' = active /\ current' = current /\ out' = out
      /\ open' = open \/ open' = [open EXCEPT ![c] = "closed"]
  BY DEF Heartbeat, Beat, ServeEnds
<1> QED BY <1>1, <1>2, <1>3, GotoMove

LEMMA SessionGoneStep ==
    ASSUME SInv, NEW c \in Conns, SessionGone(c)
    PROVE  SInv'
<1>1. c \in Tasks /\ now' = now /\ active' = active /\ task[c].doomed = <<>>
  BY Zenon DEF Tasks, SessionGone, Running
<1>2. CASE Registered(c)
  <2>1. Doom(c, <<c>>, "remove") /\ open' = open
    BY <1>2 DEF SessionGone
  <2>2. "remove" \in Pcs \ {"lookup", "accept", "disconnect", "send"} /\ "remove" # "free"
    BY DEF Pcs
  <2> QED BY <1>1, <1>2, <2>1, <2>2, DoomOne
<1>3. CASE ~Registered(c)
  BY <1>1, <1>3, GotoMove DEF SessionGone
<1> QED BY <1>2, <1>3

LEMMA RemoveSocketStep ==
    ASSUME SInv, NEW c \in Conns, RemoveSocket(c)
    PROVE  SInv'
<1>1. /\ c \in Tasks /\ now' = now /\ active' = active /\ open' = open
      /\ task[c].doomed = <<>>
  BY DEF Tasks, RemoveSocket, Running
<1>2. CASE Registered(c)
  <2> DEFINE s == <<c>>
             t == [task[c] EXCEPT !.pc = "snapshot", !.first = FALSE, !.doomed = s]
  <2>1. task \in [Tasks -> TaskSet] /\ task[c] \in TaskSet
    BY <1>1 DEF SInv, PType
  <2>2. /\ s \in Seq(Conns) /\ s # <<>> /\ Range(s) = {c} /\ Head(s) = c
    BY SingleFacts
  <2>3. /\ task' = [task EXCEPT ![c] = t] /\ current' = Without({c})
        /\ out' = [out EXCEPT ![c] = StopOutbound(@)]
    BY <1>1, <1>2, <2>1, Zenon DEF RemoveSocket
  <2> HIDE DEF s
  <2>4. t \in TaskSet /\ t.pc = "snapshot" /\ t.doomed = s
    BY <2>1, <2>2, Zenon DEF TaskSet, Pcs
  <2> HIDE DEF t
  <2>5. /\ t.doomed # <<>> /\ Range(t.doomed) \subseteq OnlineConns
        /\ current' = Without(Range(t.doomed))
        /\ out' = [out EXCEPT ![Head(t.doomed)] = StopOutbound(@)]
    BY <1>2, <2>2, <2>3, <2>4, Zenon DEF Registered
  <2> QED BY <1>1, <2>3, <2>4, <2>5, StopMove, Zenon
<1>3. CASE ~Registered(c)
  BY <1>1, <1>3, GotoMove DEF RemoveSocket
<1> QED BY <1>2, <1>3

LEMMA LogoutStep ==
    ASSUME SInv, NEW k \in Logouts, Logout(k)
    PROVE  SInv'
<1>1. PICK d \in active : active' = active \ {d}
        /\ task' = [task EXCEPT ![k].pc = "disconnect", ![k].dev = d]
  BY Zenon DEF Logout
<1>2. /\ task \in [Tasks -> TaskSet] /\ k \in Tasks /\ task[k] \in TaskSet
      /\ d \in Devices /\ active' \subseteq Devices /\ k \notin Notifiers /\ k \notin Conns
  BY <1>1, PresenceAssumption DEF SInv, PType, Tasks
<1>3. task[k].doomed = <<>>
  BY <1>2 DEF SInv, TaskOK, Logout
<1> DEFINE t == [task[k] EXCEPT !.pc = "disconnect", !.dev = d]
<1>4. t \in TaskSet /\ t.pc = "disconnect" /\ t.doomed = task[k].doomed /\ t.dev = d
  BY <1>2, Zenon DEF TaskSet, Pcs
<1>5. task' = [task EXCEPT ![k] = t]
  BY <1>1, <1>2, Zenon
<1> HIDE DEF t
<1>6. now' = now /\ current' = current /\ open' = open /\ out' = out
  BY DEF Logout
<1> QED BY <1>2, <1>3, <1>4, <1>5, <1>6, QuietMove, Zenon

LEMMA DisconnectDeviceStep ==
    ASSUME SInv, NEW k \in Logouts, DisconnectDevice(k)
    PROVE  SInv'
<1>1. /\ k \in Tasks /\ now' = now /\ active' = active /\ open' = open
      /\ task[k].doomed = <<>> /\ task[k].dev \in Devices
  BY Zenon DEF Tasks, DisconnectDevice, SInv, TaskOK
<1> DEFINE c == current[task[k].dev]
<1>2. CASE c = None
  BY <1>1, <1>2, GotoMove, Zenon DEF DisconnectDevice
<1>3. CASE c # None
  <2>1. c \in Conns /\ Registered(c)
    BY <1>1, <1>3, OnlineFacts, Zenon DEF SInv
  <2>2. Doom(k, <<c>>, "snapshot")
    BY <1>3 DEF DisconnectDevice
  <2>3. "snapshot" \in Pcs \ {"lookup", "accept", "disconnect", "send"} /\ "snapshot" # "free"
    BY DEF Pcs
  <2> HIDE DEF c
  <2> QED BY <1>1, <2>1, <2>2, <2>3, DoomOne, Zenon
<1> QED BY <1>2, <1>3, Zenon

LEMMA SendToStep ==
    ASSUME SInv, NEW k \in Notifiers, NEW d \in Devices, task[k].doomed = <<>>, SendTo(k, d),
           now' = now, active' = active, open' = open
    PROVE  SInv'
<1> DEFINE c == current[d]
           t == [task[k] EXCEPT !.pc = "free"]
<1>1. /\ k \in Tasks /\ task \in [Tasks -> TaskSet] /\ task[k] \in TaskSet
      /\ active' \subseteq Devices
  BY DEF Tasks, SInv, PType
<1>2. t \in TaskSet /\ t.pc = "free" /\ t.doomed = task[k].doomed
  BY <1>1, Zenon DEF TaskSet, Pcs
<1>3. Goto(k, "free") => task' = [task EXCEPT ![k] = t]
  BY <1>1, Zenon DEF Goto
<1> HIDE DEF t
<1>4. CASE c = None \/ ~Accepting(c)
  <2>1. Goto(k, "free") /\ current' = current /\ out' = out
    BY <1>4, Zenon DEF SendTo
  <2> QED BY <1>1, <1>2, <1>3, <2>1, QuietMove
<1>5. CASE ~(c = None \/ ~Accepting(c)) /\ Overflows(c, Notice)
  <2>1. c \in Conns /\ Registered(c)
    BY <1>5, OnlineFacts, Zenon DEF SInv
  <2>2. Doom(k, <<c>>, "free")
    BY <1>5, Zenon DEF SendTo
  <2>3. "free" \in Pcs \ {"lookup", "accept", "disconnect", "send"}
    BY Zenon DEF Pcs
  <2> HIDE DEF c
  <2> QED BY <1>1, <2>1, <2>2, <2>3, DoomOne, Zenon
<1>6. CASE ~(c = None \/ ~Accepting(c)) /\ ~Overflows(c, Notice)
  <2>1. c \in Conns /\ out \in [Conns -> QueueSet] /\ out[c] \in QueueSet
    BY <1>6, OnlineFacts, ZenonT(60) DEF SInv, PType
  <2> DEFINE r == Queued(out[c], Notice)
  <2>2. /\ out' = [out EXCEPT ![c] = r] /\ Goto(k, "free") /\ current' = current
    BY <1>6 DEF SendTo
  <2>3. ~(Len(out[c].q) >= MaxQueueMessages \/ out[c].bytes + Size(Notice) > MaxQueueBytes)
    BY <1>6, Zenon DEF Overflows
  <2> HIDE DEF c
  <2>4. r \in QueueSet /\ SameLife(out[c], r)
    BY <2>1, <2>3, FillFacts, PayloadFacts, Zenon
  <2> HIDE DEF r
  <2>5. out' \in [Conns -> QueueSet] /\ \A x \in Conns : SameLife(out[x], out'[x])
    <3>1. /\ out' \in [Conns -> QueueSet] /\ out'[c] = r
          /\ \A x \in Conns \ {c} : out'[x] = out[x]
      BY <2>1, <2>2, <2>4, Zenon
    <3>2. \A x \in Conns \ {c} : SameLife(out[x], out'[x])
      BY <3>1 DEF SameLife
    <3> QED BY <3>1, <3>2, <2>4, Zenon
  <2> QED BY <1>1, <1>2, <1>3, <2>2, <2>5, CalmMove, Zenon
<1> QED BY <1>4, <1>5, <1>6, Zenon

LEMMA SendToDeviceStep ==
    ASSUME SInv, NEW k \in Notifiers, SendToDevice(k)
    PROVE  SInv'
<1>1. /\ k \in Tasks /\ now' = now /\ active' = active /\ open' = open
      /\ task[k].doomed = <<>> /\ task \in [Tasks -> TaskSet]
  BY Zenon DEF Tasks, SendToDevice, Running, SInv, PType
<1>2. ASSUME NEW d \in Devices, SendTo(k, d)
      PROVE  SInv'
  BY <1>1, <1>2, SendToStep, Zenon
<1>3. ASSUME NEW d \in Devices, Expired # {}, NEW s \in Orders(Expired),
             current' = Without(Range(s)),
             out' = [out EXCEPT ![Head(s)] = StopOutbound(@)],
             task' = [task EXCEPT ![k] = [NoTask EXCEPT !.pc = "send", !.dev = d, !.doomed = s]]
      PROVE  SInv'
  <2> DEFINE t == [NoTask EXCEPT !.pc = "send", !.dev = d, !.doomed = s]
  <2>1. s \in Seq(Conns) /\ s # <<>> /\ Range(s) \subseteq OnlineConns
    BY <1>3, OrderFacts DEF SInv
  <2>2. t \in TaskSet /\ t.pc = "send" /\ t.doomed = s /\ t.dev = d
    <3>1. NoTask \in TaskSet
      BY NoTaskFacts
    <3> QED BY <3>1, <2>1, Zenon DEF TaskSet, Pcs
  <2>3. task' = [task EXCEPT ![k] = t]
    BY <1>3
  <2> HIDE DEF t
  <2>4. /\ t.doomed # <<>> /\ Range(t.doomed) \subseteq OnlineConns
        /\ current' = Without(Range(t.doomed))
        /\ out' = [out EXCEPT ![Head(t.doomed)] = StopOutbound(@)]
    BY <1>3, <2>1, <2>2
  <2> QED BY <1>1, <2>2, <2>3, <2>4, StopMove, Zenon
<1>4. ASSUME Running(k, "send"), SendTo(k, task[k].dev)
      PROVE  SInv'
  <2>1. task[k].dev \in Devices
    BY <1>1, <1>4, Zenon DEF SInv, TaskOK, Running
  <2> QED BY <1>2, <1>4, <2>1, Zenon
<1> QED BY <1>2, <1>3, <1>4, Zenon DEF SendToDevice

-----------------------------------------------------------------------------
(* _drain_outbound() *)

\* The writer of one socket works on its queue.
LEMMA TakeStep ==
    ASSUME SInv, NEW c \in Conns, Take(c) \/ Sent(c)
    PROVE  SInv'
<1>1. out \in [Conns -> QueueSet] /\ out[c] \in QueueSet /\ PType
  BY DEF SInv, PType
<1>2. out[c] \in QueueRecords
  BY <1>1, QueueFacts
<1>3. PICK r \in QueueSet : out' = [out EXCEPT ![c] = r] /\ SameLife(out[c], r)
  <2>1. CASE Take(c)
    <3> DEFINE o == out[c]
               r == [o EXCEPT !.writer = "send", !.held = Head(o.q), !.q = Tail(o.q),
                              !.bytes = IF o.bytes - Size(Head(o.q)) > 0
                                        THEN o.bytes - Size(Head(o.q)) ELSE 0]
    <3>1. out' = [out EXCEPT ![c] = r]
      BY <2>1, <1>1, <1>2 DEF Take, QueueRecords
    <3>2. o \in QueueSet /\ o.q # <<>> /\ o.writer = "get"
      BY <2>1, <1>1 DEF Take
    <3> HIDE DEF o
    <3>3. r \in QueueSet /\ SameLife(o, r)
      BY <3>2, TakeFacts, Zenon
    <3> HIDE DEF r
    <3> QED BY <3>1, <3>3, Zenon DEF o
  <2>2. CASE Sent(c)
    <3> DEFINE r == [out[c] EXCEPT !.writer = "get", !.held = Notice]
    <3>1. out' = [out EXCEPT ![c] = r] /\ out[c].writer = "send"
      BY <2>2, <1>1, <1>2, Zenon DEF Sent, QueueRecords
    <3>2. r \in QueueRecords /\ r.q = out[c].q /\ r.bytes = out[c].bytes
      BY <1>2, PayloadFacts, Zenon DEF QueueRecords
    <3>3. SameLife(out[c], r)
      BY <1>2, <3>1 DEF SameLife, QueueRecords
    <3> HIDE DEF r
    <3> QED BY <1>1, <3>1, <3>2, <3>3, QueueFacts, Zenon
  <2> QED BY <2>1, <2>2
<1>4. /\ now' = now /\ active' = active /\ current' = current /\ open' = open /\ task' = task
  BY DEF Take, Sent
<1>5. out' \in [Conns -> QueueSet] /\ \A x \in Conns : SameLife(out[x], out'[x])
  <2>1. /\ out' \in [Conns -> QueueSet] /\ out'[c] = r
        /\ \A x \in Conns \ {c} : out'[x] = out[x]
    BY <1>1, <1>3, Zenon
  <2>2. \A x \in Conns \ {c} : SameLife(out[x], out'[x])
    BY <2>1 DEF SameLife
  <2> QED BY <1>3, <2>1, <2>2
<1>6. PType'
  BY <1>1, <1>4, <1>5, Zenon DEF PType, Tasks
<1>7. \A k \in Tasks : TaskOK(k)'
  BY <1>4 DEF SInv, TaskOK
<1>8. \A x \in Conns : Fresh(x)' => Fresh(x)
  BY <1>4, Zenon DEF Fresh
<1> QED BY <1>4, <1>5, <1>6, <1>7, <1>8, CalmKeeps, Zenon DEF Tasks

LEMMA WriterEndsStep ==
    ASSUME SInv, NEW c \in Conns, WriterCloses(c) \/ WriterCancelled(c)
    PROVE  SInv'
<1>1. out \in [Conns -> QueueSet] /\ out[c] \in QueueSet /\ PType
  BY DEF SInv, PType
<1>2. out[c] \in QueueRecords
  BY <1>1, QueueFacts
<1>3. PICK r \in QueueSet : out' = [out EXCEPT ![c] = r] /\ r.tabled = out[c].tabled
  <2>1. CASE WriterCloses(c)
    <3> DEFINE r == [out[c] EXCEPT !.writer = "ended"]
    <3>1. out' = [out EXCEPT ![c] = r]
      BY <2>1, <1>1, <1>2 DEF WriterCloses, QueueRecords
    <3>2. /\ r \in QueueRecords /\ r.q = out[c].q /\ r.bytes = out[c].bytes
          /\ r.tabled = out[c].tabled
      BY <1>2 DEF QueueRecords
    <3> HIDE DEF r
    <3> QED BY <1>1, <3>1, <3>2, QueueFacts, Zenon
  <2>2. CASE WriterCancelled(c)
    <3> DEFINE r == [out[c] EXCEPT !.writer = "ended", !.held = Notice, !.failed = TRUE]
    <3>1. out' = [out EXCEPT ![c] = r]
      BY <2>2, <1>1, <1>2, Zenon DEF WriterCancelled, QueueRecords
    <3>2. /\ r \in QueueRecords /\ r.q = out[c].q /\ r.bytes = out[c].bytes
          /\ r.tabled = out[c].tabled
      BY <1>2, PayloadFacts, Zenon DEF QueueRecords
    <3> HIDE DEF r
    <3> QED BY <1>1, <3>1, <3>2, QueueFacts, Zenon
  <2> QED BY <2>1, <2>2
<1>4. /\ now' = now /\ active' = active /\ current' = current /\ task' = task
      /\ \/ open' = [open EXCEPT ![c] = "closed"] /\ out[c].writer = "closing"
         \/ open' = open /\ out[c].cancel
  BY DEF WriterCloses, WriterCancelled
<1>5. /\ out' \in [Conns -> QueueSet] /\ out'[c].tabled = out[c].tabled
      /\ \A x \in Conns \ {c} : out'[x] = out[x]
  BY <1>1, <1>3
<1>6. /\ open' \in [Conns -> {"no", "open", "closed"}]
      /\ \A x \in Conns \ {c} : open'[x] = open[x]
      /\ open'[c] # "open" \/ (out[c].cancel /\ open'[c] = open[c])
  BY <1>1, <1>4 DEF PType
<1>7. PType'
  BY <1>1, <1>4, <1>5, <1>6, Zenon DEF PType, Tasks
<1>8. ~Live(out[c])
  BY <1>4 DEF Live
<1> QED BY <1>4, <1>5, <1>6, <1>7, <1>8, EndKeeps, Zenon

LEMMA SendFailsStep ==
    ASSUME SInv, NEW c \in Conns, SendFails(c)
    PROVE  SInv'
<1>1. out \in [Conns -> QueueSet] /\ out[c] \in QueueSet /\ PType /\ TablesOK
  BY DEF SInv, PType
<1>2. out[c] \in QueueRecords
  BY <1>1, QueueFacts
<1>3. PICK r \in QueueSet :
        /\ out' = [out EXCEPT ![c] = r]
        /\ r.tabled => out[c].tabled /\ ~Registered(c)
        /\ r.writer = "closing" /\ ~r.cancel
  <2>1. CASE Registered(c)
    <3> DEFINE o == StopOutbound(out[c])
               r == [o EXCEPT !.cancel = FALSE, !.writer = "closing", !.held = Notice]
    <3>1. out' = [out EXCEPT ![c] = r]
      BY <2>1 DEF SendFails
    <3>2. o \in QueueSet /\ ~o.tabled
      BY <1>1, StopFacts
    <3>3. o \in QueueRecords
      BY <3>2, QueueFacts
    <3> HIDE DEF o
    <3>4. /\ r \in QueueRecords /\ r.q = o.q /\ r.bytes = o.bytes
          /\ ~r.tabled /\ r.writer = "closing" /\ ~r.cancel
      BY <3>2, <3>3, PayloadFacts, Zenon DEF QueueRecords
    <3> HIDE DEF r
    <3> QED BY <3>1, <3>2, <3>4, QueueFacts, Zenon
  <2>2. CASE ~Registered(c)
    <3> DEFINE r == [out[c] EXCEPT !.failed = TRUE, !.writer = "closing", !.held = Notice]
    <3>1. out' = [out EXCEPT ![c] = r] /\ ~out[c].cancel
      BY <2>2 DEF SendFails
    <3>2. /\ r \in QueueRecords /\ r.q = out[c].q /\ r.bytes = out[c].bytes
          /\ r.tabled = out[c].tabled /\ r.writer = "closing" /\ ~r.cancel
      BY <1>2, <3>1, PayloadFacts, Zenon DEF QueueRecords
    <3> HIDE DEF r
    <3> QED BY <1>1, <2>2, <3>1, <3>2, QueueFacts, Zenon
  <2> QED BY <2>1, <2>2
<1>4. /\ now' = now /\ active' = active /\ open' = open /\ task' = task
      /\ current' = Without({c}) /\ out[c].writer = "send"
  BY DEF SendFails
<1>5. /\ out' \in [Conns -> QueueSet] /\ out'[c] = r
      /\ \A x \in Conns \ {c} : out'[x] = out[x]
  BY <1>1, <1>3, Zenon
<1>6. current' \in [Devices -> Conns \cup {None}]
  <2> DEFINE cs == {c}
  <2>1. cs \in SUBSET Conns /\ current' = Without(cs)
    BY <1>4
  <2> HIDE DEF cs
  <2> QED BY <1>1, <2>1, WithoutFacts DEF TablesOK
<1>7. PType'
  BY <1>1, <1>4, <1>5, <1>6, Zenon DEF PType, Tasks
<1> QED BY <1>3, <1>4, <1>5, <1>7, FailKeeps, Zenon

\* Steps that touch neither queues nor coroutines.
LEMMA OutsideStep ==
    ASSUME SInv, current' = current, out' = out, task' = task, now' \in Nat,
           active' \subseteq Devices,
           open' = open \/ \E c \in Conns : open' = [open EXCEPT ![c] = "closed"]
    PROVE  SInv'
<1>1. /\ open' \in [Conns -> {"no", "open", "closed"}]
      /\ \A c \in Conns : open'[c] = "open" => open[c] = "open"
  BY DEF SInv, PType
<1>2. PType'
  BY <1>1, Zenon DEF SInv, PType, Tasks
<1>3. \A k \in Tasks : TaskOK(k)'
  BY DEF SInv, TaskOK
<1>4. \A x \in Conns : Fresh(x)' => Fresh(x)
  BY DEF Fresh
<1>5. \A c \in Conns : SameLife(out[c], out'[c])
  BY Zenon DEF SameLife
<1> QED BY <1>1, <1>2, <1>3, <1>4, <1>5, CalmKeeps, Zenon DEF Tasks

LEMMA ReapType ==
    ASSUME SInv, NEW k \in Tasks, Reap(k)
    PROVE  PType'
<1> DEFINE rest == Tail(task[k].doomed)
           c == Head(task[k].doomed)
           t == [task[k] EXCEPT !.doomed = rest]
<1>1. /\ task \in [Tasks -> TaskSet] /\ task[k] \in TaskSet /\ out \in [Conns -> QueueSet]
      /\ PType /\ task[k].doomed # <<>>
  BY Zenon DEF SInv, PType, Reap
<1>2. c \in Conns /\ rest \in Seq(Conns)
  BY <1>1, RangeFacts DEF TaskSet
<1>3. /\ task' = [task EXCEPT ![k] = t] /\ open' = [open EXCEPT ![c] = "closed"]
      /\ out' = IF rest = <<>> THEN out ELSE [out EXCEPT ![Head(rest)] = StopOutbound(@)]
      /\ now' = now /\ active' = active /\ current' = current
  BY <1>1 DEF Reap
<1> HIDE DEF rest, c
<1>4. t \in TaskSet
  BY <1>1, <1>2, Zenon DEF TaskSet
<1> HIDE DEF t
<1>5. task' \in [Tasks -> TaskSet] /\ open' \in [Conns -> {"no", "open", "closed"}]
  BY <1>1, <1>2, <1>3, <1>4 DEF PType
<1>6. out' \in [Conns -> QueueSet]
  <2>1. CASE rest = <<>>
    BY <2>1, <1>1, <1>3
  <2>2. CASE rest # <<>>
    <3> DEFINE h == Head(rest)
    <3>1. h \in Conns /\ out' = [out EXCEPT ![h] = StopOutbound(@)]
      BY <2>2, <1>2, <1>3, RangeFacts
    <3> HIDE DEF h
    <3> QED BY <3>1, StopQueue, Zenon
  <2> QED BY <2>1, <2>2
<1> QED BY <1>1, <1>3, <1>5, <1>6 DEF PType, Tasks

-----------------------------------------------------------------------------
(* The theorems *)

LEMMA SInit == PInit => SInv
<1> SUFFICES ASSUME PInit PROVE SInv
  OBVIOUS
<1>1. NoTask \in TaskSet /\ NoTask.pc = "free" /\ NoTask.doomed = <<>>
  BY NoTaskFacts
<1>2. \A k \in Tasks : task[k] = NoTask
  BY Zenon DEF PInit
<1>3. PType
  BY <1>1, NewFacts DEF PInit, PType
<1>4. \A k \in Tasks : TaskOK(k)
  BY <1>1, <1>2, Zenon DEF TaskOK
<1>5. \A k \in Tasks : task[k].doomed = <<>> /\ Range(task[k].doomed) = {}
  BY <1>1, <1>2, SingleFacts
<1>6. \A c \in Conns : ~Doomed(c)
  BY <1>5 DEF Doomed
<1>7. \A d \in Devices : current[d] = None
  BY DEF PInit
<1>8. \A c \in Conns : ~Registered(c)
  BY <1>7 DEF Registered, OnlineConns
<1>9. \A c \in Conns : ~out[c].tabled /\ open[c] = "no"
  BY DEF PInit, NoQueue
<1>10. \A c \in Conns : SocketOK(c)
  BY <1>6, <1>8, <1>9, Zenon DEF SocketOK
<1>11. TablesOK
  BY <1>5, <1>7 DEF TablesOK
<1> QED BY <1>3, <1>4, <1>10, <1>11 DEF SInv

LEMMA SNext == SInv /\ [PNext]_pvars => SInv'
<1> SUFFICES ASSUME SInv, [PNext]_pvars PROVE SInv'
  OBVIOUS
<1>1. ASSUME NEW c \in Conns, Connect(c) \/ Handle(c) \/ Writer(c) \/ ClientLeaves(c)
      PROVE  SInv'
  <2>1. CASE Connect(c)
    BY <2>1, ConnectStep
  <2>2. CASE Handle(c)
    BY <2>2, LookupStep, RegisterStep, ServeStep, SessionGoneStep, RemoveSocketStep DEF Handle
  <2>3. CASE Writer(c)
    BY <2>3, TakeStep, SendFailsStep, WriterEndsStep DEF Writer
  <2>4. CASE ClientLeaves(c)
    BY <2>4, OutsideStep, Zenon DEF ClientLeaves, SInv, PType
  <2> QED BY <1>1, <2>1, <2>2, <2>3, <2>4
<1>2. ASSUME NEW k \in Tasks, Broadcast(k) \/ BroadcastFails(k)
      PROVE  SInv'
  <2>1. CASE Reap(k)
    <3>1. PType'
      BY <2>1, ReapType
    <3> QED BY <2>1, <3>1, ReapKeeps
  <2> QED BY <1>2, <2>1, SnapshotStep, ReadDeviceStep, PublishStep, BroadcastFailsStep
          DEF Broadcast
<1>3. ASSUME NEW k \in Logouts, Logout(k) \/ DisconnectDevice(k)
      PROVE  SInv'
  BY <1>3, LogoutStep, DisconnectDeviceStep, Zenon
<1>4. ASSUME NEW k \in Notifiers, SendToDevice(k)
      PROVE  SInv'
  BY <1>4, SendToDeviceStep
<1>5. ASSUME NEW d \in Devices, Login(d)
      PROVE  SInv'
  BY <1>5, OutsideStep, Zenon DEF Login, SInv, PType
<1>6. CASE Tick
  BY <1>6, OutsideStep DEF Tick, SInv, PType
<1>7. CASE UNCHANGED pvars
  BY <1>7, OutsideStep DEF pvars, SInv, PType
<1> QED BY <1>1, <1>2, <1>3, <1>4, <1>5, <1>6, <1>7 DEF PNext

LEMMA SInvariant == PSpec => []SInv
<1>1. PInit => SInv
  BY SInit
<1>2. SInv /\ [PNext]_pvars => SInv'
  BY SNext
<1> QED BY <1>1, <1>2, PTL DEF PSpec

\* Who is about to stop a socket.
LEMMA DoomingFacts ==
    ASSUME SInv, NEW c \in Conns, Doomed(c)
    PROVE  Dooming(c) # {} /\ Cardinality(Dooming(c)) = 1
<1>1. PICK k \in Tasks : c \in Range(task[k].doomed)
  BY Zenon DEF Doomed
<1>2. Dooming(c) = {k}
  BY <1>1 DEF Dooming, SInv, TablesOK
<1> QED BY <1>2, FS_Singleton

\* Whatever awaits come between a registration, a removal, an overflow, a
\* prune, a logout and a failed write: every registered socket has a queue
\* whose writer runs, and every other queue left in the table is about to be
\* stopped by exactly one coroutine.
THEOREM QueuesTheorem == PSpec => []QueuesMatchSockets
<1>1. SInv => QueuesMatchSockets
  <2> SUFFICES ASSUME SInv, NEW c \in Conns
               PROVE  /\ Registered(c) => /\ out[c].tabled /\ ~out[c].failed
                                          /\ out[c].writer \in {"get", "send"}
                      /\ out[c].tabled /\ ~Registered(c) => Cardinality(Dooming(c)) = 1
    BY DEF QueuesMatchSockets
  <2>1. SocketOK(c)
    BY Zenon DEF SInv
  <2>2. Registered(c) => out[c].tabled /\ ~out[c].failed /\ out[c].writer \in {"get", "send"}
    BY <2>1, Zenon DEF SocketOK, Live
  <2>3. out[c].tabled /\ ~Registered(c) => Cardinality(Dooming(c)) = 1
    BY <2>1, DoomingFacts, Zenon DEF SocketOK
  <2> QED BY <2>2, <2>3, Zenon
<1> QED BY <1>1, SInvariant, PTL

\* _enqueue_outbound() and _drain_outbound() keep queued_bytes equal to the
\* bytes in the queue, and both limits, for any limits and message sizes.
THEOREM QueueTheorem == PSpec => []QueueExact
<1>1. SInv => QueueExact
  <2> SUFFICES ASSUME SInv, NEW c \in Conns
               PROVE  /\ out[c].bytes = Bytes(out[c].q)
                      /\ out[c].bytes <= MaxQueueBytes
                      /\ Len(out[c].q) <= MaxQueueMessages
    BY DEF QueueExact
  <2>1. out[c] \in QueueSet
    BY Zenon DEF SInv, PType
  <2> QED BY <2>1 DEF QueueSet, Exact
<1> QED BY <1>1, SInvariant, PTL

\* No open socket is forgotten: it is in the table, or the coroutine that took
\* it out, or its own writer, is about to close it.
THEOREM OwnedTheorem == PSpec => []OpenIsOwned
<1>1. SInv => OpenIsOwned
  <2> SUFFICES ASSUME SInv, NEW c \in Conns, open[c] = "open", ~Registered(c)
               PROVE  Dooming(c) # {} \/ out[c].writer = "closing"
    BY DEF OpenIsOwned
  <2>1. SocketOK(c)
    BY DEF SInv
  <2> QED BY <2>1, DoomingFacts DEF SocketOK
<1> QED BY <1>1, SInvariant, PTL

=============================================================================
