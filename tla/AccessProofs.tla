---------------------------- MODULE AccessProofs ----------------------------
(***************************************************************************)
(* Proofs about Access, for any number of devices, requests, sessions,     *)
(* codes and challenges.                                                   *)
(***************************************************************************)
EXTENDS Access, TLAPS

Pcs == {"idle", "issue", "create code", "issuer", "mark failed", "consume code",
        "insert device", "find", "register", "conflict", "open session", "opening",
        "verify", "consume login", "touch", "logout", "logout sessions", "logout commit"}

\* A request that has used up a challenge and has not opened its session yet.
Using == {"consume code", "insert device", "find", "register", "touch", "open session"}

Proofs == Registrations \cup Logins
Items == Proofs \cup Sessions \cup Bootstraps
Saws == {"none", "active", "inactive", "issued", "consumed"}

ReqSet ==
    [pc : Pcs, dev : Devices \cup {None}, item : Items \cup {None}, code : Codes \cup {None},
     saw : Saws, victims : SUBSET Sessions]

SessionSet ==
    [status : {"none", "opening", "live", "revoked"}, dev : Devices \cup {None},
     by : Proofs \cup {None}, raced : BOOLEAN]

LoginSet == [status : {"none", "issued", "consumed"}, dev : Devices \cup {None}]

CodeSet ==
    [status : {"none", "active", "expired", "consumed"}, issuer : Devices \cup {None}, fails : Nat]

RegSet ==
    [status : {"none", "issued", "gone"}, dev : Devices \cup {None}, code : Codes \cup {None},
     by : Bootstraps \cup {None}, fails : Nat]

AType ==
    /\ device \in [Devices -> {"none", "active", "inactive"}]
    /\ session \in [Sessions -> SessionSet]
    /\ login \in [Logins -> LoginSet]
    /\ code \in [Codes -> CodeSet]
    /\ codeLock \in [Codes -> Requests \cup {None}]
    /\ reg \in [Registrations -> RegSet]
    /\ boot \in [Bootstraps -> {"none", "issued", "gone"}]
    /\ req \in [Requests -> ReqSet]
    /\ links \in [Codes -> Nat]

\* What a row refers to, and what a request holds where it needs it.
Rows ==
    /\ \A s \in Sessions : session[s].status # "none" => session[s].dev \in Devices
    /\ \A c \in Logins : login[c].status # "none" => login[c].dev \in Devices
    /\ \A g \in Registrations : reg[g].status = "issued" => reg[g].dev \in Devices

Holding(q) ==
    /\ q.pc \in Using \cup {"create code", "verify", "consume login", "opening",
                            "issuer", "issue", "logout sessions", "logout commit"} => q.dev \in Devices
    /\ q.pc \in {"issuer", "mark failed", "consume code", "insert device"} => q.code \in Codes
    /\ q.pc = "issue" => q.item \in Bootstraps
    /\ q.pc \in {"verify", "consume login", "touch"} => q.item \in Logins
    /\ q.pc \in {"consume code", "insert device", "find", "register"} => q.item \in Registrations
    /\ q.pc = "open session" => q.item \in Proofs
    /\ q.pc = "opening" => q.item \in Sessions

Local == \A r \in Requests : Holding(req[r])

\* The linking codes: the holder of a code's row finds it still good, and a code
\* is consumed when it has enrolled a device.
LockInv ==
    \A r \in Requests : req[r].pc = "insert device" =>
        /\ codeLock[req[r].code] = r
        /\ code[req[r].code].status = "active"
        /\ code[req[r].code].fails < MaxFailures

CodeInv == LockInv /\ CodeLinksOnce

\* Sessions that are being opened belong to one request each; one that is live or
\* will be while its device is not active was raced; and so was every one that a
\* logout about to commit has not found.
Opening ==
    \A r \in Requests : req[r].pc = "opening" => session[req[r].item].status = "opening"
OneOpener ==
    \A r, q \in Requests :
        req[r].pc = "opening" /\ req[q].pc = "opening" /\ r # q => req[r].item # req[q].item
LateIsRaced ==
    \A s \in Sessions :
        session[s].status \in {"live", "opening"} /\ device[session[s].dev] # "active"
            => session[s].raced
CommitFinds ==
    \A r \in Requests, s \in Sessions :
        req[r].pc = "logout commit" /\ session[s].dev = req[r].dev =>
            /\ session[s].status = "opening" => session[s].raced
            /\ session[s].status = "live" => session[s].raced \/ s \in req[r].victims
VictimsLived ==
    \A r \in Requests, s \in Sessions :
        req[r].pc = "logout commit" /\ s \in req[r].victims => session[s].status \in {"live", "revoked"}

OpenInv == Opening /\ OneOpener /\ LateIsRaced /\ CommitFinds /\ VictimsLived

\* The challenge has been answered.
Spent(x) ==
    \/ x \in Registrations /\ reg[x].status = "gone"
    \/ x \in Logins /\ login[x].status = "consumed"

\* A proof that is being used or has made a session is spent, and nothing else is
\* made with it.
UseInv ==
    /\ \A r \in Requests : req[r].pc \in Using =>
        /\ Spent(req[r].item)
        /\ \A s \in Sessions : session[s].by # req[r].item
        /\ \A q \in Requests : q # r /\ req[q].pc \in Using => req[q].item # req[r].item
    /\ \A s \in Sessions : session[s].by # None => Spent(session[s].by)
    /\ \A s, t \in Sessions : s # t /\ session[s].by # None => session[s].by # session[t].by

\* The same for the e-mail proofs behind registrations.
MailInv ==
    /\ \A g \in Registrations : reg[g].by # None => boot[reg[g].by] = "gone"
    /\ \A g, h \in Registrations : g # h /\ reg[g].by # None => reg[g].by # reg[h].by

AInv == AType /\ Rows /\ Local /\ CodeInv /\ OpenInv /\ UseInv /\ MailInv

LEMMA Parameters ==
    /\ First \in Devices /\ FirstSession \in Sessions /\ MaxFailures \in Nat \ {0}
    /\ None \notin Devices /\ None \notin Requests /\ None \notin Codes
    /\ None \notin Logins /\ None \notin Registrations /\ Logins \cap Registrations = {}
BY AccessAssumption

-----------------------------------------------------------------------------
(* What the assignments to a request's locals do *)

\* The step of request r leaves the other requests alone.
Upd(r) == req' \in [Requests -> ReqSet] /\ \A q \in Requests : q # r => req'[q] = req[q]

LEMMA SetsPc ==
    ASSUME req \in [Requests -> ReqSet], NEW r \in Requests,
           NEW p \in Pcs,
           req' = [req EXCEPT ![r].pc = p]
    PROVE /\ Upd(r) /\ req'[r].pc = p /\ req'[r].dev = req[r].dev
          /\ req'[r].item = req[r].item /\ req'[r].code = req[r].code /\ req'[r].victims = req[r].victims
<1> DEFINE x == [req[r] EXCEPT !.pc = p]
<1>1. req[r] \in ReqSet
  OBVIOUS
<1>2. req' = [req EXCEPT ![r] = x]
  BY <1>1, Zenon DEF ReqSet
<1>3. x \in ReqSet
  BY <1>1, Zenon DEF ReqSet
<1>4. /\ x.pc = p /\ x.dev = req[r].dev /\ x.item = req[r].item
      /\ x.code = req[r].code /\ x.victims = req[r].victims
  BY <1>1, Zenon DEF ReqSet
<1> HIDE DEF x
<1>5. Upd(r) /\ req'[r] = x
  BY <1>1, <1>2, <1>3 DEF Upd
<1> QED BY <1>4, <1>5

WithPcDev(r, p, d) == [req EXCEPT ![r].pc = p, ![r].dev = d]

LEMMA SetsPcDev ==
    ASSUME req \in [Requests -> ReqSet], NEW r \in Requests,
           NEW p \in Pcs, NEW d \in Devices \cup {None},
           req' = WithPcDev(r, p, d)
    PROVE /\ Upd(r) /\ req'[r].pc = p /\ req'[r].dev = d
          /\ req'[r].item = req[r].item /\ req'[r].code = req[r].code /\ req'[r].victims = req[r].victims
<1> DEFINE x == [req[r] EXCEPT !.pc = p, !.dev = d]
<1>1. req[r] \in ReqSet
  OBVIOUS
<1>2. req' = [req EXCEPT ![r] = x]
  BY <1>1, Zenon DEF ReqSet, WithPcDev
<1>3. x \in ReqSet
  BY <1>1, Zenon DEF ReqSet
<1>4. /\ x.pc = p /\ x.dev = d /\ x.item = req[r].item
      /\ x.code = req[r].code /\ x.victims = req[r].victims
  BY <1>1, Zenon DEF ReqSet
<1> HIDE DEF x
<1>5. Upd(r) /\ req'[r] = x
  BY <1>1, <1>2, <1>3 DEF Upd
<1> QED BY <1>4, <1>5

WithPcDevItem(r, p, d, i) == [req EXCEPT ![r].pc = p, ![r].dev = d, ![r].item = i]

LEMMA SetsPcDevItem ==
    ASSUME req \in [Requests -> ReqSet], NEW r \in Requests,
           NEW p \in Pcs, NEW d \in Devices \cup {None}, NEW i \in Items \cup {None},
           req' = WithPcDevItem(r, p, d, i)
    PROVE /\ Upd(r) /\ req'[r].pc = p /\ req'[r].dev = d
          /\ req'[r].item = i /\ req'[r].code = req[r].code /\ req'[r].victims = req[r].victims
<1> DEFINE x == [req[r] EXCEPT !.pc = p, !.dev = d, !.item = i]
<1>1. req[r] \in ReqSet
  OBVIOUS
<1>2. req' = [req EXCEPT ![r] = x]
  BY <1>1, Zenon DEF ReqSet, WithPcDevItem
<1>3. x \in ReqSet
  BY <1>1, Zenon DEF ReqSet
<1>4. /\ x.pc = p /\ x.dev = d /\ x.item = i
      /\ x.code = req[r].code /\ x.victims = req[r].victims
  BY <1>1, Zenon DEF ReqSet
<1> HIDE DEF x
<1>5. Upd(r) /\ req'[r] = x
  BY <1>1, <1>2, <1>3 DEF Upd
<1> QED BY <1>4, <1>5

WithPcDevCode(r, p, d, o) == [req EXCEPT ![r].pc = p, ![r].dev = d, ![r].code = o]

LEMMA SetsPcDevCode ==
    ASSUME req \in [Requests -> ReqSet], NEW r \in Requests,
           NEW p \in Pcs, NEW d \in Devices \cup {None}, NEW o \in Codes \cup {None},
           req' = WithPcDevCode(r, p, d, o)
    PROVE /\ Upd(r) /\ req'[r].pc = p /\ req'[r].dev = d
          /\ req'[r].item = req[r].item /\ req'[r].code = o /\ req'[r].victims = req[r].victims
<1> DEFINE x == [req[r] EXCEPT !.pc = p, !.dev = d, !.code = o]
<1>1. req[r] \in ReqSet
  OBVIOUS
<1>2. req' = [req EXCEPT ![r] = x]
  BY <1>1, Zenon DEF ReqSet, WithPcDevCode
<1>3. x \in ReqSet
  BY <1>1, Zenon DEF ReqSet
<1>4. /\ x.pc = p /\ x.dev = d /\ x.item = req[r].item
      /\ x.code = o /\ x.victims = req[r].victims
  BY <1>1, Zenon DEF ReqSet
<1> HIDE DEF x
<1>5. Upd(r) /\ req'[r] = x
  BY <1>1, <1>2, <1>3 DEF Upd
<1> QED BY <1>4, <1>5

WithPcCode(r, p, o) == [req EXCEPT ![r].pc = p, ![r].code = o]

LEMMA SetsPcCode ==
    ASSUME req \in [Requests -> ReqSet], NEW r \in Requests,
           NEW p \in Pcs, NEW o \in Codes \cup {None},
           req' = WithPcCode(r, p, o)
    PROVE /\ Upd(r) /\ req'[r].pc = p /\ req'[r].dev = req[r].dev
          /\ req'[r].item = req[r].item /\ req'[r].code = o /\ req'[r].victims = req[r].victims
<1> DEFINE x == [req[r] EXCEPT !.pc = p, !.code = o]
<1>1. req[r] \in ReqSet
  OBVIOUS
<1>2. req' = [req EXCEPT ![r] = x]
  BY <1>1, Zenon DEF ReqSet, WithPcCode
<1>3. x \in ReqSet
  BY <1>1, Zenon DEF ReqSet
<1>4. /\ x.pc = p /\ x.dev = req[r].dev /\ x.item = req[r].item
      /\ x.code = o /\ x.victims = req[r].victims
  BY <1>1, Zenon DEF ReqSet
<1> HIDE DEF x
<1>5. Upd(r) /\ req'[r] = x
  BY <1>1, <1>2, <1>3 DEF Upd
<1> QED BY <1>4, <1>5

WithPcSaw(r, p, w) == [req EXCEPT ![r].pc = p, ![r].saw = w]

LEMMA SetsPcSaw ==
    ASSUME req \in [Requests -> ReqSet], NEW r \in Requests,
           NEW p \in Pcs, NEW w \in Saws,
           req' = WithPcSaw(r, p, w)
    PROVE /\ Upd(r) /\ req'[r].pc = p /\ req'[r].dev = req[r].dev
          /\ req'[r].item = req[r].item /\ req'[r].code = req[r].code /\ req'[r].victims = req[r].victims
<1> DEFINE x == [req[r] EXCEPT !.pc = p, !.saw = w]
<1>1. req[r] \in ReqSet
  OBVIOUS
<1>2. req' = [req EXCEPT ![r] = x]
  BY <1>1, Zenon DEF ReqSet, WithPcSaw
<1>3. x \in ReqSet
  BY <1>1, Zenon DEF ReqSet
<1>4. /\ x.pc = p /\ x.dev = req[r].dev /\ x.item = req[r].item
      /\ x.code = req[r].code /\ x.victims = req[r].victims
  BY <1>1, Zenon DEF ReqSet
<1> HIDE DEF x
<1>5. Upd(r) /\ req'[r] = x
  BY <1>1, <1>2, <1>3 DEF Upd
<1> QED BY <1>4, <1>5

WithPcItem(r, p, i) == [req EXCEPT ![r].pc = p, ![r].item = i]

LEMMA SetsPcItem ==
    ASSUME req \in [Requests -> ReqSet], NEW r \in Requests,
           NEW p \in Pcs, NEW i \in Items \cup {None},
           req' = WithPcItem(r, p, i)
    PROVE /\ Upd(r) /\ req'[r].pc = p /\ req'[r].dev = req[r].dev
          /\ req'[r].item = i /\ req'[r].code = req[r].code /\ req'[r].victims = req[r].victims
<1> DEFINE x == [req[r] EXCEPT !.pc = p, !.item = i]
<1>1. req[r] \in ReqSet
  OBVIOUS
<1>2. req' = [req EXCEPT ![r] = x]
  BY <1>1, Zenon DEF ReqSet, WithPcItem
<1>3. x \in ReqSet
  BY <1>1, Zenon DEF ReqSet
<1>4. /\ x.pc = p /\ x.dev = req[r].dev /\ x.item = i
      /\ x.code = req[r].code /\ x.victims = req[r].victims
  BY <1>1, Zenon DEF ReqSet
<1> HIDE DEF x
<1>5. Upd(r) /\ req'[r] = x
  BY <1>1, <1>2, <1>3 DEF Upd
<1> QED BY <1>4, <1>5

WithPcVictims(r, p, v) == [req EXCEPT ![r].pc = p, ![r].victims = v]

LEMMA SetsPcVictims ==
    ASSUME req \in [Requests -> ReqSet], NEW r \in Requests,
           NEW p \in Pcs, NEW v \in SUBSET Sessions,
           req' = WithPcVictims(r, p, v)
    PROVE /\ Upd(r) /\ req'[r].pc = p /\ req'[r].dev = req[r].dev
          /\ req'[r].item = req[r].item /\ req'[r].code = req[r].code /\ req'[r].victims = v
<1> DEFINE x == [req[r] EXCEPT !.pc = p, !.victims = v]
<1>1. req[r] \in ReqSet
  OBVIOUS
<1>2. req' = [req EXCEPT ![r] = x]
  BY <1>1, Zenon DEF ReqSet, WithPcVictims
<1>3. x \in ReqSet
  BY <1>1, Zenon DEF ReqSet
<1>4. /\ x.pc = p /\ x.dev = req[r].dev /\ x.item = req[r].item
      /\ x.code = req[r].code /\ x.victims = v
  BY <1>1, Zenon DEF ReqSet
<1> HIDE DEF x
<1>5. Upd(r) /\ req'[r] = x
  BY <1>1, <1>2, <1>3 DEF Upd
<1> QED BY <1>4, <1>5

LEMMA IdleFacts == Idle \in ReqSet /\ Idle.pc = "idle"
BY DEF Idle, ReqSet, Pcs, Saws

LEMMA Returns ==
    ASSUME req \in [Requests -> ReqSet], NEW r \in Requests, Return(r)
    PROVE Upd(r) /\ req'[r].pc = "idle"
BY IdleFacts DEF Return, Upd
-----------------------------------------------------------------------------
(* Steps that leave a part of the state alone keep that part of the invariant *)

LEMMA LocalKept ==
    ASSUME AInv, NEW r \in Requests, Upd(r), Holding(req'[r])
    PROVE Local'
BY Zenon DEF AInv, Local, Upd, Holding

LEMMA CodeKept ==
    ASSUME AInv, NEW r \in Requests, Upd(r), req'[r].pc # "insert device",
           UNCHANGED <<code, codeLock, links>>
    PROVE CodeInv'
BY Zenon DEF AInv, CodeInv, LockInv, CodeLinksOnce, Upd

LEMMA OpenKept ==
    ASSUME AInv, NEW r \in Requests, Upd(r), req'[r].pc \notin {"opening", "logout commit"},
           UNCHANGED session, \A d \in Devices : device[d] = "active" => device'[d] = "active"
    PROVE OpenInv'
<1>1. \A q \in Requests : req'[q].pc \in {"opening", "logout commit"} => req'[q] = req[q]
  BY Zenon DEF Upd
<1>2. Opening'
  BY <1>1, Zenon DEF AInv, OpenInv, Opening
<1>3. OneOpener'
  BY <1>1, ZenonT(30) DEF AInv, OpenInv, OneOpener
<1>4. LateIsRaced'
  BY Zenon DEF AInv, OpenInv, LateIsRaced, Rows
<1>5. CommitFinds'
  BY <1>1, Zenon DEF AInv, OpenInv, CommitFinds
<1>6. VictimsLived'
  BY <1>1, Zenon DEF AInv, OpenInv, VictimsLived
<1> QED BY <1>2, <1>3, <1>4, <1>5, <1>6, Zenon DEF OpenInv

\* Nothing spent is ever given back.
LEMMA UseKept ==
    ASSUME AInv, NEW r \in Requests, Upd(r),
           req'[r].pc \in Using => req[r].pc \in Using /\ req'[r].item = req[r].item,
           \A s \in Sessions : session'[s].by = session[s].by,
           \A x \in Proofs : Spent(x) => Spent(x)'
    PROVE UseInv'
<1>1. \A x : Spent(x) => x \in Proofs
  BY DEF Spent, Proofs
<1>2. \A q \in Requests : req'[q].pc \in Using => req[q].pc \in Using /\ req'[q].item = req[q].item
  BY DEF Upd
<1>3. \A q \in Requests, x \in Proofs : req'[q].pc \in Using /\ x = req'[q].item => Spent(x)'
  BY <1>2 DEF AInv, UseInv
<1>4. \A s \in Sessions, x \in Proofs : session'[s].by # None /\ x = session'[s].by => Spent(x)'
  BY DEF AInv, UseInv
<1>5. \A q \in Requests : req'[q].pc \in Using => req'[q].item \in Proofs
  BY <1>1, <1>2 DEF AInv, UseInv
<1>6. \A s \in Sessions : session'[s].by # None => session'[s].by \in Proofs
  BY <1>1 DEF AInv, UseInv
<1>7. \A q \in Requests : req'[q].pc \in Using =>
        /\ \A s \in Sessions : session'[s].by # req'[q].item
        /\ \A p \in Requests : p # q /\ req'[p].pc \in Using => req'[p].item # req'[q].item
  BY <1>2 DEF AInv, UseInv
<1>8. \A s, t \in Sessions : s # t /\ session'[s].by # None => session'[s].by # session'[t].by
  BY DEF AInv, UseInv
<1> QED BY <1>3, <1>4, <1>5, <1>6, <1>7, <1>8 DEF UseInv, Spent

\* A proof is taken by a request that had none.
LEMMA UseTaken ==
    ASSUME AInv, NEW r \in Requests, Upd(r), NEW y \in Proofs,
           req'[r].pc \in Using, req'[r].item = y, ~Spent(y), Spent(y)',
           UNCHANGED session, \A x \in Proofs : Spent(x) => Spent(x)'
    PROVE UseInv'
<1>1. \A x : Spent(x) => x \in Proofs
  BY DEF Spent, Proofs
<1>2. \A q \in Requests : q # r /\ req[q].pc \in Using =>
        req[q].item # y /\ req[q].item \in Proofs /\ Spent(req[q].item)
  BY <1>1 DEF AInv, UseInv
<1>3. \A s \in Sessions : session[s].by # y /\ (session[s].by # None => session[s].by \in Proofs)
  BY <1>1, Parameters DEF AInv, UseInv, Proofs
<1>4. \A q \in Requests, x \in Proofs : req'[q].pc \in Using /\ x = req'[q].item => Spent(x)'
  BY <1>2 DEF Upd
<1>5. \A s \in Sessions, x \in Proofs : session'[s].by # None /\ x = session'[s].by => Spent(x)'
  BY DEF AInv, UseInv
<1>6. \A q \in Requests : req'[q].pc \in Using =>
        /\ req'[q].item \in Proofs
        /\ \A s \in Sessions : session'[s].by # req'[q].item
        /\ \A p \in Requests : p # q /\ req'[p].pc \in Using => req'[p].item # req'[q].item
  BY <1>2, <1>3 DEF AInv, UseInv, Upd
<1>7. \A s, t \in Sessions : s # t /\ session'[s].by # None => session'[s].by # session'[t].by
  BY DEF AInv, UseInv
<1> QED BY <1>3, <1>4, <1>5, <1>6, <1>7 DEF UseInv, Spent

LEMMA MailKept ==
    ASSUME AInv, UNCHANGED memory
    PROVE MailInv'
BY DEF AInv, MailInv, memory

\* A step that changes nothing but the request and the locks of devices.
LEMMA Moves ==
    ASSUME AInv, NEW r \in Requests, Upd(r), Holding(req'[r]),
           req'[r].pc \notin {"insert device", "opening", "logout commit"},
           req'[r].pc \in Using => req[r].pc \in Using /\ req'[r].item = req[r].item,
           UNCHANGED <<device, session, login, code, codeLock, links, memory>>
    PROVE AInv'
<1>1. UNCHANGED <<reg, boot>>
  BY Zenon DEF memory
<1>2. AType' /\ Rows'
  BY <1>1, Zenon DEF AInv, AType, Rows, Upd
<1>3. \A x \in Proofs : Spent(x) => Spent(x)'
  BY <1>1, Zenon DEF Spent
<1>4. Local' /\ CodeInv' /\ OpenInv' /\ UseInv' /\ MailInv'
  BY <1>3, LocalKept, CodeKept, OpenKept, UseKept, MailKept, Zenon
<1> QED BY <1>2, <1>4, Zenon DEF AInv

LEMMA MovesIdle ==
    ASSUME AInv, NEW r \in Requests, Return(r),
           UNCHANGED <<device, session, login, code, codeLock, links, memory>>
    PROVE AInv'
<1>1. Upd(r) /\ req'[r].pc = "idle"
  BY Returns DEF AInv, AType
<1>2. Holding(req'[r])
  BY <1>1 DEF Holding, Using
<1> QED BY <1>1, <1>2, Moves, Zenon DEF Using

-----------------------------------------------------------------------------
(* Requests that read and go on *)

LEMMA PeekBootstrapInv ==
    ASSUME AInv, NEW r \in Requests, NEW k \in Bootstraps, NEW d \in Devices, PeekBootstrap(r, k, d)
    PROVE AInv'
<1>1. req' = [req EXCEPT ![r].pc = "issue", ![r].dev = d, ![r].item = k]
      /\ UNCHANGED <<tables, memory>>
  BY DEF PeekBootstrap
<1>2. Upd(r) /\ req'[r].pc = "issue" /\ req'[r].dev = d /\ req'[r].item = k
  <2>1. req \in [Requests -> ReqSet] /\ "issue" \in Pcs /\ d \in Devices \cup {None} /\ k \in Items \cup {None}
    BY DEF AInv, AType, Pcs, Items
  <2>2. req' = WithPcDevItem(r, "issue", d, k)
    BY <1>1 DEF WithPcDevItem
  <2> QED BY <2>1, <2>2, SetsPcDevItem
<1>3. Holding(req'[r])
  BY <1>2 DEF Holding, Using
<1> QED BY <1>1, <1>2, <1>3, Moves, Zenon DEF tables, Using

LEMMA AuthenticateInv ==
    ASSUME AInv, NEW r \in Requests, NEW s \in Sessions, NEW pc \in {"create code", "logout"},
           Authenticate(r, s, pc)
    PROVE AInv'
<1>1. req' = [req EXCEPT ![r].pc = pc, ![r].dev = session[s].dev]
      /\ UNCHANGED <<tables, memory>> /\ session[s].dev \in Devices
  BY Zenon DEF Authenticate, Usable, Live, AInv, Rows
<1>2. Upd(r) /\ req'[r].pc = pc /\ req'[r].dev \in Devices
  <2>1. req \in [Requests -> ReqSet] /\ pc \in Pcs /\ session[s].dev \in Devices \cup {None}
    BY <1>1, Zenon DEF AInv, AType, Pcs
  <2>2. req' = WithPcDev(r, pc, session[s].dev)
    BY <1>1, Zenon DEF WithPcDev
  <2>3. Upd(r) /\ req'[r].pc = pc /\ req'[r].dev = session[s].dev
    BY <2>1, <2>2, SetsPcDev, Zenon
  <2> QED BY <1>1, <2>3, Zenon
<1>3. Holding(req'[r])
  BY <1>2, Zenon DEF Holding, Using
<1> QED BY <1>1, <1>2, <1>3, Moves, Zenon DEF tables, Using

LEMMA ReadCodeInv ==
    ASSUME AInv, NEW r \in Requests, NEW o \in Codes, NEW d \in Devices, ReadCode(r, o, d)
    PROVE AInv'
<1>1. CASE Return(r)
  BY <1>1, MovesIdle, Zenon DEF ReadCode, tables
<1>2. CASE req' = [req EXCEPT ![r].pc = "issuer", ![r].dev = d, ![r].code = o]
  <2>1. UNCHANGED <<tables, memory>>
    BY Zenon DEF ReadCode
  <2>2. Upd(r) /\ req'[r].pc = "issuer" /\ req'[r].dev = d /\ req'[r].code = o
    <3>1. req \in [Requests -> ReqSet] /\ "issuer" \in Pcs /\ d \in Devices \cup {None} /\ o \in Codes \cup {None}
      BY DEF AInv, AType, Pcs
    <3>2. req' = WithPcDevCode(r, "issuer", d, o)
      BY <1>2 DEF WithPcDevCode
    <3> QED BY <3>1, <3>2, SetsPcDevCode
  <2>3. Holding(req'[r])
    BY <2>2 DEF Holding, Using
  <2> QED BY <2>1, <2>2, <2>3, Moves, Zenon DEF tables, Using
<1> QED BY <1>1, <1>2, Zenon DEF ReadCode

LEMMA FindDeviceInv ==
    ASSUME AInv, NEW r \in Requests, FindDevice(r)
    PROVE AInv'
<1> DEFINE d == req[r].dev
<1>1. /\ req[r].pc = "find" /\ d \in Devices
      /\ req' = [req EXCEPT ![r].pc = "register", ![r].saw = device[d]]
      /\ UNCHANGED <<device, session, login, code, codeLock, links, memory>>
  BY Zenon DEF FindDevice, At, AInv, Local, Holding, Using
<1>2. device[d] \in Saws
  BY <1>1 DEF AInv, AType, Saws
<1>3. Upd(r) /\ req'[r].pc = "register" /\ req'[r].dev = d /\ req'[r].item = req[r].item
  <2>1. req \in [Requests -> ReqSet] /\ "register" \in Pcs
    BY DEF AInv, AType, Pcs
  <2>2. req' = WithPcSaw(r, "register", device[d])
    BY <1>1 DEF WithPcSaw
  <2> QED BY <1>2, <2>1, <2>2, SetsPcSaw
<1>4. Holding(req'[r])
  BY <1>1, <1>3, Zenon DEF Holding, AInv, Local
<1> QED BY <1>1, <1>3, <1>4, Moves, Zenon DEF Using

LEMMA ReadLoginInv ==
    ASSUME AInv, NEW r \in Requests, NEW c \in Logins, ReadLogin(r, c)
    PROVE AInv'
<1>1. /\ req' = [req EXCEPT ![r].pc = "verify", ![r].item = c, ![r].dev = login[c].dev,
                            ![r].saw = login[c].status]
      /\ UNCHANGED <<tables, memory>> /\ login[c].dev \in Devices /\ login[c].status \in Saws
  BY DEF ReadLogin, AInv, AType, Rows, LoginSet, Saws
<1>2. Upd(r) /\ req'[r].pc = "verify" /\ req'[r].dev \in Devices /\ req'[r].item = c
  <2> DEFINE x == [req[r] EXCEPT !.pc = "verify", !.item = c, !.dev = login[c].dev, !.saw = login[c].status]
  <2>1. req \in [Requests -> ReqSet] /\ req[r] \in ReqSet
    BY DEF AInv, AType
  <2>2. req' = [req EXCEPT ![r] = x]
    BY <1>1, <2>1, Zenon DEF ReqSet
  <2>3. "verify" \in Pcs /\ c \in Items \cup {None} /\ login[c].dev \in Devices \cup {None}
    BY <1>1 DEF Pcs, Items, Proofs
  <2>4. x \in ReqSet
    BY <1>1, <2>1, <2>3, Zenon DEF ReqSet
  <2>5. x.pc = "verify"
    BY <2>1, Zenon DEF ReqSet
  <2>6. x.dev = login[c].dev
    BY <2>1, Zenon DEF ReqSet
  <2>7. x.item = c
    BY <2>1, Zenon DEF ReqSet
  <2> HIDE DEF x
  <2>8. Upd(r) /\ req'[r] = x
    BY <2>1, <2>2, <2>4 DEF Upd
  <2> QED BY <1>1, <2>5, <2>6, <2>7, <2>8
<1>3. Holding(req'[r])
  BY <1>2 DEF Holding, Using
<1> QED BY <1>1, <1>2, <1>3, Moves, Zenon DEF tables, Using

LEMMA VerifyLoginInv ==
    ASSUME AInv, NEW r \in Requests, VerifyLogin(r)
    PROVE AInv'
<1>1. CASE Return(r)
  BY <1>1, MovesIdle DEF VerifyLogin, tables
<1>2. CASE Goto(r, "consume login")
  <2>1. /\ Upd(r) /\ req'[r].pc = "consume login" /\ req'[r].dev = req[r].dev
        /\ req'[r].item = req[r].item
    BY <1>2, SetsPc, Zenon DEF Goto, AInv, AType, Pcs
  <2>2. req[r].pc = "verify" /\ UNCHANGED <<tables, memory>>
    BY Zenon DEF VerifyLogin, At
  <2>3. Holding(req'[r])
    BY <2>1, <2>2, Zenon DEF Holding, Using, AInv, Local
  <2> QED BY <2>1, <2>2, <2>3, Moves, Zenon DEF tables, Using
<1> QED BY <1>1, <1>2, Zenon DEF VerifyLogin

LEMMA TouchInv ==
    ASSUME AInv, NEW r \in Requests, Touch(r)
    PROVE AInv'
<1>1. req[r].pc = "touch" /\ Goto(r, "open session") /\ UNCHANGED <<tables, memory>>
  BY Zenon DEF Touch, At
<1>2. Upd(r) /\ req'[r].pc = "open session" /\ req'[r].dev = req[r].dev /\ req'[r].item = req[r].item
  BY <1>1, SetsPc, Zenon DEF Goto, AInv, AType, Pcs
<1>3. Holding(req'[r])
  BY <1>1, <1>2, Zenon DEF Holding, Using, AInv, Local, Proofs
<1> QED BY <1>1, <1>2, <1>3, Moves, Zenon DEF tables, Using

LEMMA LogoutDeviceInv ==
    ASSUME AInv, NEW r \in Requests, NEW d \in Devices, LogoutDevice(r, d)
    PROVE AInv'
<1>1. UNCHANGED <<device, session, login, code, codeLock, links, memory>>
  BY Zenon DEF LogoutDevice
<1>2. CASE Return(r)
  BY <1>1, <1>2, MovesIdle
<1>3. CASE req' = [req EXCEPT ![r].pc = "logout sessions", ![r].dev = d]
  <2>1. Upd(r) /\ req'[r].pc = "logout sessions" /\ req'[r].dev = d
    <3>1. req \in [Requests -> ReqSet] /\ "logout sessions" \in Pcs
      BY DEF AInv, AType, Pcs
    <3>2. req' = WithPcDev(r, "logout sessions", d)
      BY <1>3, Zenon DEF WithPcDev
    <3> QED BY <3>1, <3>2, SetsPcDev, Zenon
  <2>2. Holding(req'[r])
    BY <2>1, Zenon DEF Holding, Using
  <2> QED BY <1>1, <2>1, <2>2, Moves, Zenon DEF Using
<1> QED BY <1>2, <1>3, Zenon DEF LogoutDevice

-----------------------------------------------------------------------------
(* The stores in memory *)

NewReg(d, o, k) == [NoReg EXCEPT !.status = "issued", !.dev = d, !.code = o, !.by = k]

LEMMA NewRegFacts ==
    ASSUME NEW d \in Devices, NEW o \in Codes \cup {None}, NEW k \in Bootstraps \cup {None}
    PROVE /\ NewReg(d, o, k) \in RegSet /\ NewReg(d, o, k).status = "issued"
          /\ NewReg(d, o, k).dev = d /\ NewReg(d, o, k).by = k
BY Zenon DEF NewReg, NoReg, RegSet

\* A request ends and a fresh registration challenge is in the store; none of the
\* challenges of before carries its e-mail proof.
LEMMA StoreInv ==
    ASSUME AInv, NEW r \in Requests, Return(r), UNCHANGED tables,
           NEW d \in Devices, NEW o \in Codes \cup {None}, NEW k \in Bootstraps \cup {None},
           StoreRegistration(d, o, k),
           boot' \in [Bootstraps -> {"none", "issued", "gone"}],
           \A b \in Bootstraps : boot[b] = "gone" => boot'[b] = "gone",
           k # None => boot[k] # "gone" /\ boot'[k] = "gone"
    PROVE AInv'
<1>1. PICK g \in Registrations : reg[g].status = "none" /\ reg' = [reg EXCEPT ![g] = NewReg(d, o, k)]
  BY Zenon DEF StoreRegistration, NewReg
<1>2. /\ NewReg(d, o, k) \in RegSet /\ NewReg(d, o, k).status = "issued"
      /\ NewReg(d, o, k).dev = d /\ NewReg(d, o, k).by = k
  BY NewRegFacts
<1>3. /\ reg' \in [Registrations -> RegSet] /\ reg'[g] = NewReg(d, o, k)
      /\ \A h \in Registrations : h # g => reg'[h] = reg[h]
  BY <1>1, <1>2 DEF AInv, AType
<1>4. Upd(r) /\ req'[r].pc = "idle"
  BY Returns DEF AInv, AType
<1>5. AType'
  BY <1>3, <1>4 DEF AInv, AType, Upd, tables
<1>6. Rows'
  BY <1>2, <1>3 DEF AInv, Rows, tables
<1>7. Holding(req'[r])
  BY <1>4 DEF Holding, Using
<1>8. \A x \in Proofs : Spent(x) => Spent(x)'
  BY <1>1, <1>3 DEF Spent, tables
<1>9. Local' /\ CodeInv' /\ OpenInv' /\ UseInv'
  BY <1>4, <1>7, <1>8, LocalKept, CodeKept, OpenKept, UseKept, Zenon DEF tables, Using
<1>10. MailInv'
  <2>1. \A h \in Registrations : reg[h].by # None => reg[h].by \in Bootstraps /\ boot[reg[h].by] = "gone"
    BY DEF AInv, MailInv, AType, RegSet
  <2>2. \A h \in Registrations : reg'[h].by # None => boot'[reg'[h].by] = "gone"
    BY <1>2, <1>3, <2>1
  <2>3. \A h \in Registrations : h # g /\ reg[h].by # None => reg[h].by # k
    BY <2>1
  <2> QED BY <1>2, <1>3, <2>2, <2>3 DEF AInv, MailInv
<1> QED BY <1>5, <1>6, <1>9, <1>10 DEF AInv

LEMMA IssueRegistrationInv ==
    ASSUME AInv, NEW r \in Requests, IssueRegistration(r)
    PROVE AInv'
<1> DEFINE k == req[r].item
           d == req[r].dev
<1>1. req[r].pc = "issue" /\ k \in Bootstraps /\ d \in Devices /\ Return(r) /\ UNCHANGED tables
  BY Zenon DEF IssueRegistration, At, AInv, Local, Holding
<1>2. CASE UNCHANGED memory
  BY <1>1, <1>2, MovesIdle DEF tables
<1>3. CASE TakeBootstrap(k) /\ StoreRegistration(d, None, k)
  <2>1. /\ boot' \in [Bootstraps -> {"none", "issued", "gone"}] /\ boot[k] = "issued" /\ boot'[k] = "gone"
        /\ \A b \in Bootstraps : boot[b] = "gone" => boot'[b] = "gone"
    BY <1>1, <1>3 DEF TakeBootstrap, AInv, AType
  <2> HIDE DEF k, d
  <2> QED BY <1>1, <1>3, <2>1, StoreInv
<1> QED BY <1>2, <1>3 DEF IssueRegistration

LEMMA ReadIssuerInv ==
    ASSUME AInv, NEW r \in Requests, ReadIssuer(r)
    PROVE AInv'
<1> DEFINE o == req[r].code
           d == req[r].dev
<1>1. /\ req[r].pc = "issuer" /\ o \in Codes /\ d \in Devices /\ Return(r)
      /\ UNCHANGED tables /\ UNCHANGED boot
  BY Zenon DEF ReadIssuer, At, AInv, Local, Holding
<1>2. CASE UNCHANGED reg
  BY <1>1, <1>2, MovesIdle DEF tables, memory
<1>3. CASE StoreRegistration(d, o, None)
  <2>1. boot' \in [Bootstraps -> {"none", "issued", "gone"}]
    BY <1>1 DEF AInv, AType
  <2> HIDE DEF o, d
  <2> QED BY <1>1, <1>3, <2>1, StoreInv
<1> QED BY <1>2, <1>3 DEF ReadIssuer

LEMMA VerifyOtpInv ==
    ASSUME AInv, NEW k \in Bootstraps, VerifyOtp(k)
    PROVE AInv'
<1>1. UNCHANGED <<device, devLock, session, login, code, codeLock, links, reg, req>>
  BY DEF VerifyOtp, tables
<1>2. /\ boot' \in [Bootstraps -> {"none", "issued", "gone"}]
      /\ \A b \in Bootstraps : boot[b] = "gone" => boot'[b] = "gone"
  BY DEF VerifyOtp, IssueBootstrap, AInv, AType
<1>3. AType' /\ Rows' /\ Local' /\ CodeInv' /\ OpenInv'
  BY <1>1, <1>2, Zenon DEF AInv, AType, Rows, Local, CodeInv, LockInv, CodeLinksOnce, OpenInv, Opening, OneOpener,
    LateIsRaced, CommitFinds, VictimsLived
<1>4. UseInv'
  BY <1>1 DEF AInv, UseInv, Spent
<1>5. MailInv'
  BY <1>1, <1>2 DEF AInv, MailInv, AType, RegSet
<1> QED BY <1>3, <1>4, <1>5 DEF AInv

LEMMA IssueLoginInv ==
    ASSUME AInv, NEW c \in Logins, NEW d \in Devices, IssueLogin(c, d)
    PROVE AInv'
<1>1. UNCHANGED <<device, session, code, codeLock, links, memory, req>>
  BY DEF IssueLogin
<1>2. /\ login[c].status = "none" /\ login' = [login EXCEPT ![c] = [status |-> "issued", dev |-> d]]
  BY DEF IssueLogin, InsertLogin
<1>3. /\ login' \in [Logins -> LoginSet] /\ login'[c].dev = d
      /\ \A b \in Logins : b # c => login'[b] = login[b]
  BY <1>2 DEF AInv, AType, LoginSet
<1>4. AType' /\ Rows' /\ Local' /\ CodeInv' /\ OpenInv' /\ MailInv'
  BY <1>1, <1>3, MailKept, ZenonT(30) DEF AInv, AType, Rows, Local, CodeInv, LockInv, CodeLinksOnce, OpenInv, Opening, OneOpener,
    LateIsRaced, CommitFinds, VictimsLived, memory
<1>5. \A x : Spent(x) => Spent(x)'
  BY <1>1, <1>2, <1>3 DEF Spent, memory
<1>6. UseInv'
  BY <1>1, <1>5 DEF AInv, UseInv
<1> QED BY <1>4, <1>6 DEF AInv

\* The registration challenge of g changes, and not what it is for, or it is gone.
SameReg(g) ==
    /\ reg' \in [Registrations -> RegSet]
    /\ reg'[g].status = "issued" => reg'[g].dev = reg[g].dev
    /\ reg'[g].by = reg[g].by /\ reg[g].status = "issued"
    /\ \A h \in Registrations : h # g => reg'[h] = reg[h]

LEMMA DroppedFacts ==
    ASSUME NEW g \in Registrations, reg[g] \in RegSet
    PROVE  Dropped(g) \in RegSet /\ Dropped(g).status = "gone" /\ Dropped(g).by = reg[g].by
<1>1. reg[g].by \in Bootstraps \cup {None}
  BY Zenon DEF RegSet
<1> QED BY <1>1, Zenon DEF Dropped, NoReg, RegSet

LEMMA TakeFacts ==
    ASSUME AInv, NEW g \in Registrations, reg[g].status = "issued", TakeRegistration(g)
    PROVE SameReg(g) /\ reg'[g].status = "gone"
<1>1. reg \in [Registrations -> RegSet] /\ reg[g] \in RegSet
  BY DEF AInv, AType
<1>2. reg' = [reg EXCEPT ![g] = Dropped(g)]
  BY Zenon DEF TakeRegistration
<1>3. Dropped(g) \in RegSet /\ Dropped(g).status = "gone" /\ Dropped(g).by = reg[g].by
  BY <1>1, DroppedFacts
<1> QED BY <1>1, <1>2, <1>3 DEF SameReg

LEMMA CountFacts ==
    ASSUME AInv, NEW g \in Registrations, reg[g].status = "issued", CountWrongProof(g)
    PROVE SameReg(g) /\ reg'[g].status = "issued"
<1> DEFINE n == reg[g].fails + 1
           x == [reg[g] EXCEPT !.fails = n]
<1>1. reg \in [Registrations -> RegSet] /\ reg[g] \in RegSet
  BY DEF AInv, AType
<1>2. n \in Nat
  BY <1>1 DEF RegSet
<1>3. reg' = [reg EXCEPT ![g] = x]
  BY <1>1, Zenon DEF CountWrongProof, RegSet
<1> HIDE DEF n
<1>4. x \in RegSet
  BY <1>1, <1>2, Zenon DEF RegSet
<1>5. x.status = reg[g].status /\ x.dev = reg[g].dev /\ x.by = reg[g].by
  BY <1>1, Zenon DEF RegSet
<1> HIDE DEF x
<1> QED BY <1>1, <1>3, <1>4, <1>5 DEF SameReg

LEMMA SameRegKeeps ==
    ASSUME AInv, NEW g \in Registrations, SameReg(g), UNCHANGED <<tables, boot>>
    PROVE Rows' /\ MailInv' /\ \A x \in Proofs : Spent(x) => Spent(x)'
<1>1. Rows'
  BY DEF SameReg, AInv, Rows, tables
<1>2. \A h \in Registrations : reg'[h].by = reg[h].by
  BY DEF SameReg
<1>3. MailInv'
  BY <1>2 DEF AInv, MailInv
<1>4. \A x \in Proofs : Spent(x) => Spent(x)'
  BY DEF SameReg, Spent, tables
<1> QED BY <1>1, <1>3, <1>4

LEMMA ClaimRegistrationInv ==
    ASSUME AInv, NEW r \in Requests, NEW g \in Registrations, ClaimRegistration(r, g)
    PROVE AInv'
<1> DEFINE pc == IF reg[g].code = None THEN "find" ELSE "consume code"
<1>1. req[r].pc = "idle" /\ reg[g].status = "issued" /\ UNCHANGED <<tables, boot>>
  BY Zenon DEF ClaimRegistration, At, Held
<1>2. /\ req \in [Requests -> ReqSet] /\ pc \in Pcs /\ "mark failed" \in Pcs
      /\ reg[g].dev \in Devices /\ reg[g].code \in Codes \cup {None} /\ g \in Items \cup {None}
      /\ reg[g].dev \in Devices \cup {None}
  BY <1>1 DEF AInv, AType, Rows, RegSet, Pcs, Items, Proofs
<1>3. CASE /\ TakeRegistration(g)
           /\ req' = [req EXCEPT ![r].pc = pc, ![r].dev = reg[g].dev, ![r].item = g,
                                 ![r].code = reg[g].code]
  <2>1. SameReg(g) /\ reg'[g].status = "gone"
    BY <1>1, <1>3, TakeFacts, Zenon
  <2>3. /\ Upd(r) /\ req'[r].pc = pc /\ req'[r].dev = reg[g].dev /\ req'[r].item = g
        /\ req'[r].code = reg[g].code
    <3> DEFINE x == [req[r] EXCEPT !.pc = pc, !.dev = reg[g].dev, !.item = g, !.code = reg[g].code]
    <3> HIDE DEF pc
    <3>1. req[r] \in ReqSet
      BY <1>2, Zenon
    <3>2. req' = [req EXCEPT ![r] = x]
      BY <1>2, <1>3, <3>1, Zenon DEF ReqSet
    <3>3. x \in ReqSet
      BY <1>2, <3>1, Zenon DEF ReqSet
    <3>4. x.pc = pc
      BY <3>1, Zenon DEF ReqSet
    <3>5. x.dev = reg[g].dev
      BY <3>1, Zenon DEF ReqSet
    <3>6. x.item = g
      BY <3>1, Zenon DEF ReqSet
    <3>7. x.code = reg[g].code
      BY <3>1, Zenon DEF ReqSet
    <3> HIDE DEF x
    <3>8. Upd(r) /\ req'[r] = x
      BY <1>2, <3>2, <3>3, Zenon DEF Upd
    <3> QED BY <3>4, <3>5, <3>6, <3>7, <3>8
  <2>4. Holding(req'[r]) /\ req'[r].pc \in Using /\ req'[r].pc \notin {"insert device", "opening", "logout commit"}
    BY <1>2, <2>3, Zenon DEF Holding, Using
  <2>5. ~Spent(g) /\ Spent(g)' /\ g \in Proofs
    BY <1>1, <2>1, Parameters DEF Spent, Proofs
  <2>6. AType'
    BY <1>1, <2>1, <2>3, Zenon DEF AInv, AType, Upd, SameReg, tables
  <2>7. Local' /\ CodeInv' /\ OpenInv'
    BY <1>1, <2>3, <2>4, LocalKept, CodeKept, OpenKept, Zenon DEF tables
  <2>8. UseInv' /\ Rows' /\ MailInv'
    BY <1>1, <2>1, <2>3, <2>4, <2>5, SameRegKeeps, UseTaken, Zenon DEF tables
  <2> QED BY <2>6, <2>7, <2>8 DEF AInv
<1>4. CASE /\ CountWrongProof(g)
           /\ IF reg[g].code = None THEN UNCHANGED req
              ELSE req' = [req EXCEPT ![r].pc = "mark failed", ![r].code = reg[g].code]
  <2>1. SameReg(g)
    BY <1>1, <1>4, CountFacts, Zenon
  <2>2. Upd(r) /\ req'[r].pc \in {"idle", "mark failed"} /\ Holding(req'[r])
    <3>1. CASE reg[g].code = None
      BY <1>1, <1>2, <1>4, <3>1, Zenon DEF Upd, AInv, Local
    <3>2. CASE reg[g].code # None
      <4>1. req' = WithPcCode(r, "mark failed", reg[g].code)
        BY <1>4, <3>2, Zenon DEF WithPcCode
      <4>2. Upd(r) /\ req'[r].pc = "mark failed" /\ req'[r].code = reg[g].code
        BY <1>2, <4>1, SetsPcCode, ZenonT(30)
      <4> QED BY <1>2, <3>2, <4>2, Zenon DEF Holding, Using
    <3> QED BY <3>1, <3>2, Zenon
  <2>3. AType'
    BY <1>1, <2>1, <2>2, Zenon DEF AInv, AType, Upd, SameReg, tables
  <2>4. Local' /\ CodeInv' /\ OpenInv'
    BY <1>1, <2>2, LocalKept, CodeKept, OpenKept, Zenon DEF tables
  <2>5. UseInv' /\ Rows' /\ MailInv'
    BY <1>1, <2>1, <2>2, SameRegKeeps, UseKept, Zenon DEF tables, Using
  <2> QED BY <2>3, <2>4, <2>5 DEF AInv
<1> QED BY <1>3, <1>4, Zenon DEF ClaimRegistration

-----------------------------------------------------------------------------
(* Linking codes and devices *)

\* A step on the tables of codes and devices that deactivates no device.
LEMMA Advances ==
    ASSUME AInv, NEW r \in Requests, Upd(r), Holding(req'[r]),
           req'[r].pc \notin {"opening", "logout commit"},
           req'[r].pc \in Using => req[r].pc \in Using /\ req'[r].item = req[r].item,
           UNCHANGED <<session, login, memory>>,
           device' \in [Devices -> {"none", "active", "inactive"}],
           \A d \in Devices : device[d] = "active" => device'[d] = "active",
           code' \in [Codes -> CodeSet], codeLock' \in [Codes -> Requests \cup {None}],
           links' \in [Codes -> Nat], CodeInv'
    PROVE AInv'
<1>1. AType' /\ Rows'
  BY Zenon DEF AInv, AType, Rows, Upd, memory
<1>2. \A x \in Proofs : Spent(x) => Spent(x)'
  BY Zenon DEF Spent, memory
<1>3. Local' /\ OpenInv' /\ UseInv' /\ MailInv'
  BY <1>2, LocalKept, OpenKept, UseKept, MailKept, Zenon
<1> QED BY <1>1, <1>3, Zenon DEF AInv

\* The row of a code that another request has is left alone.
LEMMA LockKept ==
    ASSUME AInv, NEW r \in Requests, Upd(r),
           req'[r].pc = "insert device" =>
              /\ codeLock'[req'[r].code] = r
              /\ code'[req'[r].code].status = "active"
              /\ code'[req'[r].code].fails < MaxFailures,
           \A p \in Codes : codeLock[p] \in Requests \ {r} /\ code[p].status = "active" =>
              codeLock'[p] = codeLock[p] /\ code'[p] = code[p]
    PROVE LockInv'
<1> SUFFICES ASSUME NEW q \in Requests, req'[q].pc = "insert device"
             PROVE /\ codeLock'[req'[q].code] = q
                   /\ code'[req'[q].code].status = "active"
                   /\ code'[req'[q].code].fails < MaxFailures
  BY Zenon DEF LockInv
<1>1. CASE q = r
  BY <1>1, Zenon
<1>2. CASE q # r
  <2>1. req'[q] = req[q]
    BY <1>2, Zenon DEF Upd
  <2>2. req[q].code \in Codes
    BY <2>1, Zenon DEF AInv, Local, Holding
  <2>3. /\ codeLock[req[q].code] = q
        /\ code[req[q].code].status = "active"
        /\ code[req[q].code].fails < MaxFailures
    BY <2>1, Zenon DEF AInv, CodeInv, LockInv
  <2> QED BY <1>2, <2>1, <2>2, <2>3, Zenon
<1> QED BY <1>1, <1>2, Zenon

LEMMA CreateCodeInv ==
    ASSUME AInv, NEW r \in Requests, CreateCode(r)
    PROVE AInv'
<1>1. Return(r) /\ UNCHANGED <<device, devLock, session, login, codeLock, links, memory>>
  BY Zenon DEF CreateCode
<1>2. CASE UNCHANGED code
  BY <1>1, <1>2, MovesIdle
<1>3. CASE InsertCode(req[r].dev)
  <2> DEFINE d == req[r].dev
             n == [NoCode EXCEPT !.status = "active", !.issuer = d]
  <2>1. d \in Devices
    BY Zenon DEF CreateCode, At, AInv, Local, Holding
  <2>2. PICK o \in Codes : code[o].status = "none" /\ code' = [code EXCEPT ![o] = n]
    BY <1>3, Zenon DEF InsertCode
  <2>3. n \in CodeSet /\ n.status = "active"
    BY <2>1, Zenon DEF NoCode, CodeSet
  <2> HIDE DEF n
  <2>4. code' \in [Codes -> CodeSet] /\ code'[o] = n /\ \A p \in Codes : p # o => code'[p] = code[p]
    BY <2>2, <2>3 DEF AInv, AType
  <2>5. Upd(r) /\ req'[r].pc = "idle"
    BY <1>1, Returns, Zenon DEF AInv, AType
  <2>6. LockInv'
    BY <1>1, <2>2, <2>4, <2>5, LockKept, Zenon
  <2>7. CodeInv'
    BY <1>1, <2>2, <2>3, <2>4, <2>6 DEF AInv, CodeInv, CodeLinksOnce
  <2>8. Holding(req'[r])
    BY <2>5 DEF Holding, Using
  <2> QED BY <1>1, <2>4, <2>5, <2>7, <2>8, Advances, Zenon DEF AInv, AType, Using
<1> QED BY <1>2, <1>3, Zenon DEF CreateCode

LEMMA MarkFailedInv ==
    ASSUME AInv, NEW r \in Requests, MarkFailed(r)
    PROVE AInv'
<1> DEFINE o == req[r].code
           n == code[o].fails + 1
           st == IF n >= MaxFailures THEN "expired" ELSE code[o].status
<1>1. /\ req[r].pc = "mark failed" /\ codeLock[o] = None /\ Return(r)
      /\ UNCHANGED <<device, devLock, session, login, codeLock, links, memory>>
  BY Zenon DEF MarkFailed, At
<1>2. CASE UNCHANGED code
  BY <1>1, <1>2, MovesIdle, Zenon
<1>3. CASE /\ code[o].status = "active" /\ code[o].fails < MaxFailures
           /\ code' = [code EXCEPT ![o].fails = n,
                                   ![o].status = IF n >= MaxFailures THEN "expired" ELSE @]
  <2> DEFINE x == [code[o] EXCEPT !.fails = n, !.status = st]
  <2>1. o \in Codes /\ code \in [Codes -> CodeSet] /\ code[o] \in CodeSet
    BY <1>1, Zenon DEF AInv, AType, Local, Holding
  <2>2. n \in Nat /\ st \in {"active", "expired"}
    BY <1>3, <2>1 DEF CodeSet
  <2>3. code' = [code EXCEPT ![o] = x]
    BY <1>3, <2>1, Zenon DEF CodeSet
  <2> HIDE DEF n, st
  <2>4. x \in CodeSet
    BY <2>1, <2>2, Zenon DEF CodeSet
  <2>5. x.status = st
    BY <2>1, Zenon DEF CodeSet
  <2> HIDE DEF x, o
  <2>6. code' \in [Codes -> CodeSet] /\ code'[o] = x /\ \A p \in Codes : p # o => code'[p] = code[p]
    BY <2>1, <2>3, <2>4
  <2>7. Upd(r) /\ req'[r].pc = "idle"
    BY <1>1, Returns, Zenon DEF AInv, AType
  <2>8. LockInv'
    BY <1>1, <2>6, <2>7, LockKept, Parameters, Zenon
  <2>9. CodeInv'
    BY <1>1, <1>3, <2>1, <2>2, <2>5, <2>6, <2>8, Zenon DEF AInv, CodeInv, CodeLinksOnce
  <2>10. Holding(req'[r])
    BY <2>7 DEF Holding, Using
  <2> QED BY <1>1, <2>6, <2>7, <2>9, <2>10, Advances, Zenon DEF AInv, AType, Using
<1> QED BY <1>2, <1>3, Zenon DEF MarkFailed

LEMMA ConsumeCodeInv ==
    ASSUME AInv, NEW r \in Requests, ConsumeCode(r)
    PROVE AInv'
<1> DEFINE o == req[r].code
<1>1. /\ req[r].pc = "consume code" /\ codeLock[o] = None /\ o \in Codes
      /\ UNCHANGED <<device, devLock, session, login, code, links, memory>>
  BY Zenon DEF ConsumeCode, At, AInv, Local, Holding
<1>2. CASE Return(r) /\ UNCHANGED codeLock
  BY <1>1, <1>2, MovesIdle, Zenon
<1>3. CASE Consumable(o) /\ codeLock' = [codeLock EXCEPT ![o] = r] /\ Goto(r, "insert device")
  <2>1. /\ Upd(r) /\ req'[r].pc = "insert device" /\ req'[r].dev = req[r].dev
        /\ req'[r].item = req[r].item /\ req'[r].code = o
    BY <1>3, SetsPc, Zenon DEF Goto, AInv, AType, Pcs
  <2>2. Holding(req'[r])
    BY <1>1, <2>1, Zenon DEF Holding, Using, AInv, Local
  <2>3. /\ codeLock' \in [Codes -> Requests \cup {None}] /\ codeLock'[o] = r
        /\ \A p \in Codes : p # o => codeLock'[p] = codeLock[p]
    BY <1>1, <1>3, Zenon DEF AInv, AType
  <2>4. code[o].status = "active" /\ code[o].fails < MaxFailures
    BY <1>3, Zenon DEF Consumable
  <2> HIDE DEF o
  <2>6. LockInv'
    BY <1>1, <2>1, <2>3, <2>4, LockKept, Parameters, Zenon
  <2>7. CodeInv'
    BY <1>1, <2>6, Zenon DEF AInv, CodeInv, CodeLinksOnce
  <2> QED BY <1>1, <2>1, <2>2, <2>3, <2>7, Advances, Zenon DEF AInv, AType, Using
<1> QED BY <1>2, <1>3, Zenon DEF ConsumeCode

LEMMA InsertDeviceInv ==
    ASSUME AInv, NEW r \in Requests, InsertDevice(r)
    PROVE AInv'
<1> DEFINE o == req[r].code
           d == req[r].dev
<1>1. /\ req[r].pc = "insert device" /\ codeLock[o] = r /\ o \in Codes /\ d \in Devices
      /\ code[o].status = "active" /\ code[o].fails < MaxFailures
      /\ codeLock' = [codeLock EXCEPT ![o] = None]
      /\ UNCHANGED <<devLock, session, login, memory>>
  BY Zenon DEF InsertDevice, At, AInv, Local, Holding, CodeInv, LockInv, Using
<1>2. /\ codeLock' \in [Codes -> Requests \cup {None}]
      /\ \A p \in Codes : p # o => codeLock'[p] = codeLock[p]
  BY <1>1, Zenon DEF AInv, AType
<1>3. CASE /\ Goto(r, "conflict") /\ UNCHANGED <<device, code, links>>
  <2>1. Upd(r) /\ req'[r].pc = "conflict"
    BY <1>3, SetsPc, Zenon DEF Goto, AInv, AType, Pcs
  <2>2. Holding(req'[r])
    BY <2>1 DEF Holding, Using
  <2> HIDE DEF o, d
  <2>3. LockInv'
    BY <1>1, <1>2, <1>3, <2>1, LockKept, Zenon
  <2>4. CodeInv'
    BY <1>3, <2>3 DEF AInv, CodeInv, CodeLinksOnce
  <2> QED BY <1>1, <1>2, <1>3, <2>1, <2>2, <2>4, Advances, Zenon DEF AInv, AType, Using
<1>4. CASE /\ device' = [device EXCEPT ![d] = "active"]
           /\ code' = [code EXCEPT ![o].status = "consumed"]
           /\ links' = [links EXCEPT ![o] = @ + 1]
           /\ Goto(r, "open session")
  <2> DEFINE x == [code[o] EXCEPT !.status = "consumed"]
  <2>1. code \in [Codes -> CodeSet] /\ code[o] \in CodeSet
    BY <1>1, Zenon DEF AInv, AType
  <2>2. code' = [code EXCEPT ![o] = x]
    BY <1>4, <2>1, Zenon DEF CodeSet
  <2>3. x \in CodeSet
    BY <2>1, Zenon DEF CodeSet
  <2>4. x.status = "consumed"
    BY <2>1, Zenon DEF CodeSet
  <2>5. x.fails = code[o].fails
    BY <2>1, Zenon DEF CodeSet
  <2> HIDE DEF x
  <2>6. /\ Upd(r) /\ req'[r].pc = "open session" /\ req'[r].dev = req[r].dev
        /\ req'[r].item = req[r].item
    BY <1>4, SetsPc, Zenon DEF Goto, AInv, AType, Pcs
  <2>7. Holding(req'[r])
    BY <1>1, <2>6, Zenon DEF Holding, Using, AInv, Local, Proofs
  <2>8. links[o] = 0 /\ links \in [Codes -> Nat]
    BY <1>1, Zenon DEF AInv, CodeInv, CodeLinksOnce, AType
  <2>9. links' \in [Codes -> Nat] /\ links'[o] = 1 /\ \A p \in Codes : p # o => links'[p] = links[p]
    <3>1. o \in Codes /\ links' = [links EXCEPT ![o] = links[o] + 1]
      BY <1>1, <1>4, Zenon
    <3> HIDE DEF o
    <3> QED BY <2>8, <3>1
  <2> HIDE DEF o
  <2>10. code' \in [Codes -> CodeSet] /\ code'[o] = x /\ \A p \in Codes : p # o => code'[p] = code[p]
    BY <1>1, <2>1, <2>2, <2>3, Zenon
  <2>11. LockInv'
    BY <1>1, <1>2, <2>6, <2>10, LockKept, Zenon
  <2>12. CodeInv'
    BY <1>1, <2>4, <2>5, <2>9, <2>10, <2>11, Zenon DEF AInv, CodeInv, CodeLinksOnce
  <2>13. /\ device' \in [Devices -> {"none", "active", "inactive"}]
         /\ \A e \in Devices : device[e] = "active" => device'[e] = "active"
    BY <1>1, <1>4, Zenon DEF AInv, AType
  <2> QED BY <1>1, <1>2, <2>6, <2>7, <2>9, <2>10, <2>12, <2>13, Advances, Zenon DEF Using
<1> QED BY <1>3, <1>4, Zenon DEF InsertDevice

LEMMA RegisterForEmailInv ==
    ASSUME AInv, NEW r \in Requests, RegisterForEmail(r)
    PROVE AInv'
<1> DEFINE d == req[r].dev
<1>1. /\ req[r].pc = "register" /\ d \in Devices
      /\ UNCHANGED <<session, login, code, codeLock, links, memory>>
  BY Zenon DEF RegisterForEmail, At, AInv, Local, Holding, Using
<1>2. CASE Goto(r, "conflict") /\ UNCHANGED device
  <2>1. Upd(r) /\ req'[r].pc = "conflict"
    BY <1>2, SetsPc, Zenon DEF Goto, AInv, AType, Pcs
  <2>2. Holding(req'[r])
    BY <2>1 DEF Holding, Using
  <2> QED BY <1>1, <1>2, <2>1, <2>2, Moves, Zenon DEF Using
<1>3. CASE device' = [device EXCEPT ![d] = "active"] /\ Goto(r, "open session")
  <2>1. /\ Upd(r) /\ req'[r].pc = "open session" /\ req'[r].dev = req[r].dev
        /\ req'[r].item = req[r].item
    BY <1>3, SetsPc, Zenon DEF Goto, AInv, AType, Pcs
  <2>2. Holding(req'[r])
    BY <1>1, <2>1, Zenon DEF Holding, Using, AInv, Local, Proofs
  <2>3. CodeInv'
    BY <1>1, <2>1, CodeKept, Zenon
  <2>4. /\ device' \in [Devices -> {"none", "active", "inactive"}]
        /\ \A e \in Devices : device[e] = "active" => device'[e] = "active"
    BY <1>1, <1>3, Zenon DEF AInv, AType
  <2> QED BY <1>1, <2>1, <2>2, <2>3, <2>4, Advances, Zenon DEF AInv, AType, Using
<1> QED BY <1>2, <1>3, Zenon DEF RegisterForEmail

LEMMA ConflictInv ==
    ASSUME AInv, NEW r \in Requests, Conflict(r)
    PROVE AInv'
BY MovesIdle DEF Conflict, tables

-----------------------------------------------------------------------------
(* Sessions and logout *)

LEMMA ConsumeLoginInv ==
    ASSUME AInv, NEW r \in Requests, ConsumeLogin(r)
    PROVE AInv'
<1> DEFINE c == req[r].item
<1>1. /\ req[r].pc = "consume login" /\ c \in Logins
      /\ UNCHANGED <<device, devLock, session, code, codeLock, links, memory>>
  BY Zenon DEF ConsumeLogin, At, AInv, Local, Holding
<1>2. CASE Return(r) /\ UNCHANGED login
  BY <1>1, <1>2, MovesIdle, Zenon
<1>3. CASE Unconsumed(c) /\ login' = [login EXCEPT ![c].status = "consumed"] /\ Goto(r, "touch")
  <2> DEFINE x == [login[c] EXCEPT !.status = "consumed"]
  <2>1. login \in [Logins -> LoginSet] /\ login[c] \in LoginSet
    BY <1>1, Zenon DEF AInv, AType
  <2>2. login' = [login EXCEPT ![c] = x]
    BY <1>3, <2>1, Zenon DEF LoginSet
  <2>3. x \in LoginSet
    BY <2>1, Zenon DEF LoginSet
  <2>4. x.status = "consumed" /\ x.dev = login[c].dev
    BY <2>1, Zenon DEF LoginSet
  <2> HIDE DEF x
  <2>5. /\ Upd(r) /\ req'[r].pc = "touch" /\ req'[r].dev = req[r].dev /\ req'[r].item = c
    BY <1>3, SetsPc, Zenon DEF Goto, AInv, AType, Pcs
  <2>6. Holding(req'[r])
    BY <1>1, <2>5, Zenon DEF Holding, Using, AInv, Local
  <2> HIDE DEF c
  <2>7. login' \in [Logins -> LoginSet] /\ login'[c] = x /\ \A b \in Logins : b # c => login'[b] = login[b]
    BY <1>1, <2>1, <2>2, <2>3, Zenon
  <2>8. login[c].status = "issued"
    BY <1>3 DEF Unconsumed
  <2>9. ~Spent(c) /\ c \in Proofs
    BY <1>1, <2>8, Parameters, Zenon DEF Spent, Proofs
  <2>10. \A y \in Proofs : Spent(y) \/ y = c => Spent(y)'
    BY <1>1, <2>4, <2>7, Zenon DEF Spent, memory
  <2>11. AType' /\ Rows'
    BY <1>1, <2>4, <2>5, <2>7, <2>8, Zenon DEF AInv, AType, Rows, Upd, memory
  <2>12. Local' /\ CodeInv' /\ OpenInv' /\ MailInv'
    BY <1>1, <2>5, <2>6, LocalKept, CodeKept, OpenKept, MailKept, Zenon
  <2>13. UseInv'
    <3>1. PICK y \in Proofs : y = c
      BY <2>9
    <3> QED BY <1>1, <2>5, <2>9, <2>10, <3>1, UseTaken, Zenon DEF Using
  <2> QED BY <2>11, <2>12, <2>13 DEF AInv
<1> QED BY <1>2, <1>3, Zenon DEF ConsumeLogin

\* A step on sessions that makes none.
LEMMA Sessioned ==
    ASSUME AInv, NEW r \in Requests, Upd(r), Holding(req'[r]),
           req'[r].pc \notin Using \cup {"insert device"},
           UNCHANGED <<login, code, links, memory>>,
           session' \in [Sessions -> SessionSet],
           \A s \in Sessions : session'[s].by = session[s].by /\ session'[s].dev = session[s].dev,
           \A s \in Sessions : session'[s].status # "none" => session[s].status # "none",
           device' \in [Devices -> {"none", "active", "inactive"}],
           codeLock' \in [Codes -> Requests \cup {None}], LockInv', OpenInv'
    PROVE AInv'
<1>1. AType' /\ Rows'
  BY Zenon DEF AInv, AType, Rows, Upd, memory
<1>2. \A x \in Proofs : Spent(x) => Spent(x)'
  BY Zenon DEF Spent, memory
<1>3. CodeInv'
  BY Zenon DEF AInv, CodeInv, CodeLinksOnce
<1>4. Local' /\ UseInv' /\ MailInv'
  BY <1>2, LocalKept, UseKept, MailKept, Zenon
<1> QED BY <1>1, <1>3, <1>4, Zenon DEF AInv

LEMMA OpenSessionInv ==
    ASSUME AInv, NEW r \in Requests, OpenSession(r)
    PROVE AInv'
<1> DEFINE d == req[r].dev
           i == req[r].item
           raced == LogoutPending(d)
           x == [status |-> "opening", dev |-> d, by |-> i, raced |-> raced]
<1>1. /\ req[r].pc = "open session" /\ d \in Devices /\ i \in Proofs
      /\ UNCHANGED <<device, devLock, login, code, codeLock, links, memory>>
  BY Zenon DEF OpenSession, At, AInv, Local, Holding, Using
<1>2. CASE Return(r) /\ UNCHANGED session
  BY <1>1, <1>2, MovesIdle, Zenon
<1>3. ASSUME NEW s \in Sessions, session[s].status = "none", MayOpen(d),
             session' = [session EXCEPT ![s] = x],
             req' = [req EXCEPT ![r].pc = "opening", ![r].item = s]
      PROVE AInv'
  <2>1. req' = WithPcItem(r, "opening", s)
    BY <1>3 DEF WithPcItem
  <2>2. req \in [Requests -> ReqSet] /\ "opening" \in Pcs /\ s \in Items \cup {None}
    BY DEF AInv, AType, Pcs, Items
  <2>3. Upd(r) /\ req'[r].pc = "opening" /\ req'[r].dev = d /\ req'[r].item = s
    BY <2>1, <2>2, SetsPcItem
  <2>4. raced \in BOOLEAN /\ \A q \in Requests : req[q].pc = "logout commit" /\ req[q].dev = d => raced
    BY Zenon DEF LogoutPending, At
  <2> HIDE DEF raced
  <2>5. x \in SessionSet
    BY <1>1, <2>4, Zenon DEF SessionSet
  <2>6. x.status = "opening" /\ x.dev = d /\ x.by = i /\ x.raced = raced
    OBVIOUS
  <2> HIDE DEF x
  <2>7. /\ session' \in [Sessions -> SessionSet] /\ session'[s] = x
        /\ \A t \in Sessions : t # s => session'[t] = session[t]
    BY <1>3, <2>5 DEF AInv, AType
  <2>8. AType' /\ Rows'
    BY <1>1, <2>3, <2>6, <2>7, Zenon DEF AInv, AType, Rows, Upd, memory
  <2>9. Holding(req'[r])
    BY <1>1, <2>3, Zenon DEF Holding, Using
  <2>10. Local' /\ CodeInv' /\ MailInv'
    BY <1>1, <2>3, <2>9, LocalKept, CodeKept, MailKept, Zenon
  <2>11. OpenInv'
    <3>1. \A q \in Requests : q # r => req'[q] = req[q]
      BY <2>3 DEF Upd
    <3>2. \A q \in Requests : req[q].pc = "opening" =>
              req[q].item # s /\ req[q].item \in Sessions /\ session[req[q].item].status = "opening"
      BY <1>3, Zenon DEF AInv, OpenInv, Opening, Local, Holding
    <3>3. Opening'
      BY <2>3, <2>6, <2>7, <3>1, <3>2 DEF Opening
    <3>4. OneOpener'
      BY <2>3, <3>1, <3>2 DEF AInv, OpenInv, OneOpener
    <3>5. LateIsRaced'
      BY <1>1, <1>3, <2>6, <2>7, Zenon DEF AInv, OpenInv, LateIsRaced, MayOpen
    <3>6. CommitFinds'
      <4>1. \A q \in Requests : req'[q].pc = "logout commit" => req'[q] = req[q]
        BY <2>3, <3>1, Zenon
      <4>2. \A q \in Requests : req'[q].pc = "logout commit" /\ x.dev = req'[q].dev => x.raced
        <5>1. x.dev = d /\ x.raced = raced
          BY <2>6
        <5> QED BY <2>4, <4>1, <5>1, Zenon
      <4>3. SUFFICES ASSUME NEW q \in Requests, NEW t \in Sessions,
                            req'[q].pc = "logout commit", session'[t].dev = req'[q].dev
                     PROVE /\ session'[t].status = "opening" => session'[t].raced
                           /\ session'[t].status = "live" => session'[t].raced \/ t \in req'[q].victims
        BY Zenon DEF CommitFinds
      <4>4. CASE t = s
        BY <2>7, <4>2, <4>3, <4>4, Zenon
      <4>5. CASE t # s
        BY <2>7, <4>1, <4>3, <4>5, Zenon DEF AInv, OpenInv, CommitFinds
      <4> QED BY <4>4, <4>5
    <3>7. VictimsLived'
      BY <1>3, <2>3, <2>7, <3>1, Zenon DEF AInv, OpenInv, VictimsLived
    <3> QED BY <3>3, <3>4, <3>5, <3>6, <3>7 DEF OpenInv
  <2>12. UseInv'
    <3>1. \A q \in Requests : req'[q].pc \in Using => q # r /\ req'[q] = req[q]
      BY <2>3, Zenon DEF Upd, Using
    <3>2. /\ Spent(i) /\ (\A t \in Sessions : session[t].by # i)
          /\ \A q \in Requests : q # r /\ req[q].pc \in Using => req[q].item # i
      BY <1>1, Zenon DEF AInv, UseInv, Using
    <3>3. \A q \in Requests : req'[q].pc \in Using => Spent(req[q].item)
      BY <3>1 DEF AInv, UseInv
    <3>4. \A y : Spent(y) => Spent(y)'
      BY <1>1, Zenon DEF Spent, memory
    <3>5. \A q \in Requests : req'[q].pc \in Using =>
            /\ \A t \in Sessions : session'[t].by # req'[q].item
            /\ \A p \in Requests : p # q /\ req'[p].pc \in Using => req'[p].item # req'[q].item
      BY <2>6, <2>7, <3>1, <3>2 DEF AInv, UseInv
    <3>6. \A t \in Sessions : session'[t].by # None =>
            \A y : y = session'[t].by => Spent(y)
      BY <2>6, <2>7, <3>2 DEF AInv, UseInv
    <3>7. \A t, u \in Sessions : t # u /\ session'[t].by # None => session'[t].by # session'[u].by
      BY <2>6, <2>7, <3>2 DEF AInv, UseInv
    <3> HIDE DEF i
    <3>8. \A q \in Requests : req'[q].pc \in Using => \A y : y = req'[q].item => Spent(y)
      BY <3>1, <3>3
    <3> QED BY <3>4, <3>5, <3>6, <3>7, <3>8 DEF UseInv, Spent
  <2> QED BY <2>8, <2>10, <2>11, <2>12 DEF AInv
<1> QED BY <1>2, <1>3, Zenon DEF OpenSession

\* A session of before, maybe with another status.
Kept(u, v) == v \in SessionSet /\ v.dev = u.dev /\ v.by = u.by /\ (u.raced => v.raced)

LEMMA KeptAsIs ==
    ASSUME NEW u \in SessionSet
    PROVE Kept(u, u)
BY DEF Kept

LEMMA KeptWithStatus ==
    ASSUME NEW u \in SessionSet, NEW st \in {"none", "opening", "live", "revoked"}
    PROVE Kept(u, [u EXCEPT !.status = st]) /\ [u EXCEPT !.status = st].status = st
<1> DEFINE v == [u EXCEPT !.status = st]
<1>1. v \in SessionSet
  BY Zenon DEF SessionSet
<1>2. v.dev = u.dev /\ v.by = u.by /\ v.raced = u.raced /\ v.status = st
  BY Zenon DEF SessionSet
<1> HIDE DEF v
<1>3. Kept(u, v) /\ v.status = st
  BY <1>1, <1>2, Zenon DEF Kept
<1> QED BY <1>3 DEF v

LEMMA KeptRaced ==
    ASSUME NEW u \in SessionSet
    PROVE LET v == [u EXCEPT !.raced = TRUE] IN Kept(u, v) /\ v.status = u.status /\ v.raced
<1> DEFINE v == [u EXCEPT !.raced = TRUE]
<1>1. v \in SessionSet
  BY Zenon DEF SessionSet
<1>2. v.dev = u.dev /\ v.by = u.by /\ v.status = u.status /\ v.raced
  BY Zenon DEF SessionSet
<1> HIDE DEF v
<1>3. Kept(u, v) /\ v.status = u.status /\ v.raced
  BY <1>1, <1>2, Zenon DEF Kept
<1> QED BY <1>3 DEF v

LEMMA SessionOpenedInv ==
    ASSUME AInv, NEW r \in Requests, SessionOpened(r)
    PROVE AInv'
<1> DEFINE s == req[r].item
           x == [session[s] EXCEPT !.status = "live"]
<1>1. /\ req[r].pc = "opening" /\ s \in Sessions /\ session[s].status = "opening" /\ Return(r)
      /\ session' = [session EXCEPT ![s].status = "live"]
      /\ UNCHANGED <<device, devLock, login, code, codeLock, links, memory>>
  BY Zenon DEF SessionOpened, At, AInv, Local, Holding, OpenInv, Opening
<1>2. session \in [Sessions -> SessionSet] /\ session[s] \in SessionSet
  BY <1>1 DEF AInv, AType
<1>3. session' = [session EXCEPT ![s] = x]
  BY <1>1, <1>2, Zenon DEF SessionSet
<1>4. Kept(session[s], x) /\ x.status = "live"
  BY <1>2, KeptWithStatus, Zenon
<1> HIDE DEF x
<1>5. /\ session' \in [Sessions -> SessionSet] /\ session'[s] = x
      /\ \A t \in Sessions : t # s => session'[t] = session[t]
  BY <1>1, <1>2, <1>3, <1>4 DEF Kept
<1>6. Upd(r) /\ req'[r].pc = "idle"
  BY <1>1, Returns DEF AInv, AType
<1>7. Holding(req'[r])
  BY <1>6 DEF Holding, Using
<1>8. \A q \in Requests : req'[q].pc # "idle" => q # r /\ req'[q] = req[q]
  BY <1>6 DEF Upd
<1>9. LockInv'
  BY <1>1, <1>6, CodeKept, Zenon DEF CodeInv
<1>10. \A q \in Requests : req'[q].pc = "opening" => req[q].item # s /\ req[q].item \in Sessions
  BY <1>1, <1>8, Zenon DEF AInv, OpenInv, OneOpener, Local, Holding
<1> HIDE DEF s
<1>11. Opening'
  BY <1>5, <1>8, <1>10 DEF AInv, OpenInv, Opening
<1>12. OneOpener'
  BY <1>8 DEF AInv, OpenInv, OneOpener
<1>13. LateIsRaced'
  BY <1>1, <1>4, <1>5 DEF AInv, OpenInv, LateIsRaced, Kept
<1>14. CommitFinds'
  <2> SUFFICES ASSUME NEW q \in Requests, NEW t \in Sessions,
                      req'[q].pc = "logout commit", session'[t].dev = req'[q].dev
               PROVE /\ session'[t].status = "opening" => session'[t].raced
                     /\ session'[t].status = "live" => session'[t].raced \/ t \in req'[q].victims
    BY Zenon DEF CommitFinds
  <2>1. req'[q] = req[q] /\ session[t].dev = req[q].dev
    BY <1>4, <1>5, <1>8, Zenon DEF Kept
  <2>2. CASE t = s
    <3>1. session[s].raced
      BY <1>1, <2>1, <2>2, Zenon DEF AInv, OpenInv, CommitFinds
    <3> QED BY <1>4, <1>5, <2>2, <3>1, Zenon DEF Kept
  <2>3. CASE t # s
    BY <1>5, <2>1, <2>3, Zenon DEF AInv, OpenInv, CommitFinds
  <2> QED BY <2>2, <2>3, Zenon
<1>15. VictimsLived'
  BY <1>4, <1>5, <1>8, Zenon DEF AInv, OpenInv, VictimsLived
<1>16. OpenInv'
  BY <1>11, <1>12, <1>13, <1>14, <1>15 DEF OpenInv
<1> QED BY <1>1, <1>4, <1>5, <1>6, <1>7, <1>9, <1>16, Sessioned, Zenon DEF Kept, Using, AInv, AType

LEMMA LogoutSessionsInv ==
    ASSUME AInv, NEW r \in Requests, LogoutSessions(r)
    PROVE AInv'
<1> DEFINE d == req[r].dev
           hit(s) == session[s].status = "opening" /\ session[s].dev = d
<1>1. /\ req[r].pc = "logout sessions" /\ d \in Devices
      /\ req' = WithPcVictims(r, "logout commit", Victims(d))
      /\ UNCHANGED <<device, devLock, login, code, codeLock, links, memory>>
  BY Zenon DEF LogoutSessions, At, AInv, Local, Holding, WithPcVictims
<1>2. Upd(r) /\ req'[r].pc = "logout commit" /\ req'[r].dev = d /\ req'[r].victims = Victims(d)
  <2>1. /\ req \in [Requests -> ReqSet] /\ "logout commit" \in Pcs
        /\ Victims(d) \in SUBSET Sessions
    BY Zenon DEF AInv, AType, Pcs, Victims
  <2> QED BY <1>1, <2>1, SetsPcVictims, Zenon
<1>3. session \in [Sessions -> SessionSet]
  BY DEF AInv, AType
<1>4. session' = [s \in Sessions |-> IF hit(s) THEN [session[s] EXCEPT !.raced = TRUE] ELSE session[s]]
  BY Zenon DEF LogoutSessions
<1>5. \A s \in Sessions : /\ Kept(session[s], session'[s]) /\ session'[s].status = session[s].status
                          /\ hit(s) => session'[s].raced
  <2> SUFFICES ASSUME NEW s \in Sessions
               PROVE /\ Kept(session[s], session'[s]) /\ session'[s].status = session[s].status
                     /\ hit(s) => session'[s].raced
    OBVIOUS
  <2>1. CASE hit(s)
    <3>1. session'[s] = [session[s] EXCEPT !.raced = TRUE]
      BY <1>4, <2>1
    <3> QED BY <1>3, <3>1, KeptRaced
  <2>2. CASE ~hit(s)
    BY <1>3, <1>4, <2>2, KeptAsIs
  <2> QED BY <2>1, <2>2
<1>6. session' \in [Sessions -> SessionSet]
  <2>1. session' = [s \in Sessions |-> session'[s]]
    BY <1>4
  <2> QED BY <1>5, <2>1 DEF Kept
<1>7. Holding(req'[r])
  BY <1>1, <1>2, Zenon DEF Holding, Using
<1>8. \A q \in Requests : q # r => req'[q] = req[q]
  BY <1>2, Zenon DEF Upd
<1>9. LockInv'
  BY <1>1, <1>2, CodeKept, Zenon DEF CodeInv
<1>10. \A s \in Sessions : /\ session'[s].dev = session[s].dev /\ session'[s].by = session[s].by
                           /\ session'[s].status = session[s].status
                           /\ session[s].raced => session'[s].raced
  BY <1>5 DEF Kept
<1>11. \A q \in Requests : req'[q].pc = "opening" => req'[q] = req[q] /\ req[q].item \in Sessions
  BY <1>2, <1>8, Zenon DEF AInv, Local, Holding
<1>12. Opening'
  BY <1>10, <1>11 DEF AInv, OpenInv, Opening
<1>13. OneOpener'
  BY <1>11 DEF AInv, OpenInv, OneOpener
<1>14. LateIsRaced'
  BY <1>1, <1>10, Zenon DEF AInv, OpenInv, LateIsRaced
<1>15. CommitFinds'
  <2> SUFFICES ASSUME NEW q \in Requests, NEW s \in Sessions,
                      req'[q].pc = "logout commit", session'[s].dev = req'[q].dev
               PROVE /\ session'[s].status = "opening" => session'[s].raced
                     /\ session'[s].status = "live" => session'[s].raced \/ s \in req'[q].victims
    BY Zenon DEF CommitFinds
  <2>1. CASE q = r
    BY <1>2, <1>5, <1>10, <2>1, Zenon DEF Victims, Live
  <2>2. CASE q # r
    BY <1>8, <1>10, <2>2, Zenon DEF AInv, OpenInv, CommitFinds
  <2> QED BY <2>1, <2>2, Zenon
<1>16. VictimsLived'
  BY <1>2, <1>8, <1>10, ZenonT(30) DEF AInv, OpenInv, VictimsLived, Victims, Live
<1>17. OpenInv'
  BY <1>12, <1>13, <1>14, <1>15, <1>16 DEF OpenInv
<1> QED BY <1>1, <1>2, <1>6, <1>7, <1>9, <1>10, <1>17, Sessioned, Zenon DEF Using, AInv, AType

LEMMA LogoutCommitInv ==
    ASSUME AInv, NEW r \in Requests, LogoutCommit(r)
    PROVE AInv'
<1> DEFINE d == req[r].dev
           found == req[r].victims
<1>1. /\ req[r].pc = "logout commit" /\ d \in Devices /\ Return(r)
      /\ device' = [device EXCEPT ![d] = "inactive"]
      /\ UNCHANGED <<login, code, codeLock, links, memory>>
  BY Zenon DEF LogoutCommit, At, AInv, Local, Holding
<1>2. session' = [s \in Sessions |->
          IF s \in found THEN [session[s] EXCEPT !.status = "revoked"] ELSE session[s]]
  BY Zenon DEF LogoutCommit
<1>3. session \in [Sessions -> SessionSet]
  BY DEF AInv, AType
<1>4. \A s \in Sessions : /\ Kept(session[s], session'[s])
                          /\ IF s \in found THEN session'[s].status = "revoked"
                             ELSE session'[s].status = session[s].status
  <2> SUFFICES ASSUME NEW s \in Sessions
               PROVE /\ Kept(session[s], session'[s])
                     /\ IF s \in found THEN session'[s].status = "revoked"
                        ELSE session'[s].status = session[s].status
    OBVIOUS
  <2>1. CASE s \in found
    <3>1. session'[s] = [session[s] EXCEPT !.status = "revoked"]
      BY <1>2, <2>1
    <3> QED BY <1>3, <2>1, <3>1, KeptWithStatus, Zenon
  <2>2. CASE s \notin found
    BY <1>2, <1>3, <2>2, KeptAsIs
  <2> QED BY <2>1, <2>2
<1>5. session' \in [Sessions -> SessionSet]
  <2>1. session' = [s \in Sessions |-> session'[s]]
    BY <1>2
  <2> QED BY <1>4, <2>1 DEF Kept
<1>6. \A s \in Sessions : /\ session'[s].dev = session[s].dev /\ session'[s].by = session[s].by
                          /\ session[s].raced => session'[s].raced
  BY <1>4 DEF Kept
<1>7. Upd(r) /\ req'[r].pc = "idle"
  BY <1>1, Returns, Zenon DEF AInv, AType
<1>8. Holding(req'[r])
  BY <1>7 DEF Holding, Using
<1>9. \A q \in Requests : req'[q].pc # "idle" => q # r /\ req'[q] = req[q]
  BY <1>7 DEF Upd
<1>10. LockInv'
  BY <1>1, <1>7, CodeKept, Zenon DEF CodeInv
<1>11. /\ device' \in [Devices -> {"none", "active", "inactive"}]
       /\ \A e \in Devices : e # d => device'[e] = device[e]
  BY <1>1, Zenon DEF AInv, AType
<1>12. Opening'
  <2> SUFFICES ASSUME NEW q \in Requests, req'[q].pc = "opening"
               PROVE session'[req'[q].item].status = "opening"
    BY DEF Opening
  <2>1. req'[q] = req[q] /\ req[q].item \in Sessions /\ session[req[q].item].status = "opening"
    BY <1>9, Zenon DEF AInv, OpenInv, Opening, Local, Holding
  <2>2. req[q].item \notin found
    BY <1>1, <2>1, Zenon DEF AInv, OpenInv, VictimsLived
  <2> QED BY <1>4, <2>1, <2>2
<1>13. OneOpener'
  BY <1>9 DEF AInv, OpenInv, OneOpener
<1>14. LateIsRaced'
  <2> SUFFICES ASSUME NEW s \in Sessions, session'[s].status \in {"live", "opening"},
                      device'[session'[s].dev] # "active"
               PROVE session'[s].raced
    BY DEF LateIsRaced
  <2>1. session[s].status = session'[s].status /\ s \notin found
    BY <1>4
  <2>2. session[s].dev \in Devices
    BY <2>1 DEF AInv, Rows
  <2>3. CASE session[s].dev = d
    BY <1>1, <1>6, <2>1, <2>3, Zenon DEF AInv, OpenInv, CommitFinds
  <2>4. CASE session[s].dev # d
    BY <1>6, <1>11, <2>1, <2>2, <2>4 DEF AInv, OpenInv, LateIsRaced
  <2> QED BY <2>3, <2>4
<1>15. CommitFinds'
  <2> SUFFICES ASSUME NEW q \in Requests, NEW s \in Sessions,
                      req'[q].pc = "logout commit", session'[s].dev = req'[q].dev
               PROVE /\ session'[s].status = "opening" => session'[s].raced
                     /\ session'[s].status = "live" => session'[s].raced \/ s \in req'[q].victims
    BY Zenon DEF CommitFinds
  <2>1. req'[q] = req[q] /\ session[s].dev = req[q].dev
    BY <1>6, <1>9, Zenon
  <2> QED BY <1>4, <1>6, <2>1, Zenon DEF AInv, OpenInv, CommitFinds
<1>16. VictimsLived'
  BY <1>4, <1>9, Zenon DEF AInv, OpenInv, VictimsLived
<1>17. OpenInv'
  BY <1>12, <1>13, <1>14, <1>15, <1>16 DEF OpenInv
<1>18. \A s \in Sessions : session'[s].status # "none" => session[s].status # "none"
  BY <1>1, <1>4, Zenon DEF AInv, OpenInv, VictimsLived
<1> QED BY <1>1, <1>5, <1>6, <1>7, <1>8, <1>10, <1>11, <1>17, <1>18, Sessioned, Zenon DEF Using, AInv, AType

-----------------------------------------------------------------------------
(* Timeouts and restarts *)

\* What a cut-off leaves of a session that was being opened.
LEMMA CutOffFacts ==
    ASSUME AInv, NEW gone \in SUBSET Requests, CutOff(gone)
    PROVE /\ session' \in [Sessions -> SessionSet]
          /\ \A s \in Sessions :
                /\ Kept(session[s], session'[s])
                /\ \/ session'[s].status = session[s].status
                   \/ /\ session[s].status = "opening" /\ session'[s].status \in {"live", "revoked"}
                      /\ \E r \in gone : req[r].pc = "opening" /\ req[r].item = s
<1> DEFINE cut(s) == \E r \in gone : req[r].pc = "opening" /\ req[r].item = s
<1>1. PICK kept \in SUBSET {s \in Sessions : session[s].status = "opening" /\ cut(s)} :
        session' = [s \in Sessions |->
            IF s \in kept THEN [session[s] EXCEPT !.status = "live"]
            ELSE IF cut(s) THEN [session[s] EXCEPT !.status = "revoked"] ELSE session[s]]
  BY Zenon DEF CutOff, At
<1>2. session \in [Sessions -> SessionSet]
  BY DEF AInv, AType
<1>3. \A s \in Sessions : cut(s) => session[s].status = "opening"
  BY DEF AInv, OpenInv, Opening
<1> HIDE DEF cut
<1>4. ASSUME NEW s \in Sessions
      PROVE /\ Kept(session[s], session'[s])
            /\ \/ session'[s].status = session[s].status
               \/ /\ session[s].status = "opening" /\ session'[s].status \in {"live", "revoked"}
                  /\ cut(s)
  <2>1. CASE s \in kept
    <3>1. session'[s] = [session[s] EXCEPT !.status = "live"] /\ session[s].status = "opening" /\ cut(s)
      BY <1>1, <2>1
    <3>2. session[s] \in SessionSet
      BY <1>2
    <3>3. Kept(session[s], session'[s]) /\ session'[s].status = "live"
      BY <3>1, <3>2, KeptWithStatus, Zenon
    <3> QED BY <3>1, <3>3
  <2>2. CASE s \notin kept /\ cut(s)
    <3>1. session'[s] = [session[s] EXCEPT !.status = "revoked"] /\ session[s].status = "opening"
      BY <1>1, <1>3, <2>2
    <3>2. session[s] \in SessionSet
      BY <1>2
    <3>3. Kept(session[s], session'[s]) /\ session'[s].status = "revoked"
      BY <3>1, <3>2, KeptWithStatus, Zenon
    <3> QED BY <2>2, <3>1, <3>3
  <2>3. CASE s \notin kept /\ ~cut(s)
    BY <1>1, <1>2, <2>3, KeptAsIs
  <2> QED BY <2>1, <2>2, <2>3
<1>5. session' \in [Sessions -> SessionSet]
  <2>1. session' = [s \in Sessions |-> session'[s]]
    BY <1>1
  <2> QED BY <1>4, <2>1 DEF Kept
<1> QED BY <1>4, <1>5 DEF cut

\* The invariant of sessions when some requests' INSERTs are cut off.
LEMMA CutOffOpen ==
    ASSUME AInv, NEW gone \in SUBSET Requests, CutOff(gone), UNCHANGED device,
           \A q \in Requests : req'[q].pc # "idle" => q \notin gone /\ req'[q] = req[q]
    PROVE OpenInv'
<1>1. \A s \in Sessions :
        /\ session'[s].dev = session[s].dev /\ (session[s].raced => session'[s].raced)
        /\ \/ session'[s].status = session[s].status
           \/ /\ session[s].status = "opening" /\ session'[s].status \in {"live", "revoked"}
              /\ \E r \in gone : req[r].pc = "opening" /\ req[r].item = s
  BY CutOffFacts DEF Kept
<1>2. Opening'
  <2> SUFFICES ASSUME NEW q \in Requests, req'[q].pc = "opening"
               PROVE session'[req'[q].item].status = "opening"
    BY DEF Opening
  <2>1. q \notin gone /\ req'[q] = req[q] /\ req[q].item \in Sessions
        /\ session[req[q].item].status = "opening"
    BY Zenon DEF AInv, OpenInv, Opening, Local, Holding
  <2>2. \A r \in gone : req[r].pc = "opening" => req[r].item # req[q].item
    BY <2>1 DEF AInv, OpenInv, OneOpener
  <2> QED BY <1>1, <2>1, <2>2
<1>3. OneOpener'
  BY DEF AInv, OpenInv, OneOpener
<1>4. LateIsRaced'
  <2> SUFFICES ASSUME NEW s \in Sessions, session'[s].status \in {"live", "opening"},
                      device'[session'[s].dev] # "active"
               PROVE session'[s].raced
    BY DEF LateIsRaced
  <2>1. session[s].status \in {"live", "opening"} /\ device[session[s].dev] # "active"
    BY <1>1
  <2> QED BY <1>1, <2>1 DEF AInv, OpenInv, LateIsRaced
<1>5. CommitFinds'
  <2> SUFFICES ASSUME NEW q \in Requests, NEW s \in Sessions,
                      req'[q].pc = "logout commit", session'[s].dev = req'[q].dev
               PROVE /\ session'[s].status = "opening" => session'[s].raced
                     /\ session'[s].status = "live" => session'[s].raced \/ s \in req'[q].victims
    BY Zenon DEF CommitFinds
  <2>1. req'[q] = req[q] /\ session[s].dev = req[q].dev
    BY <1>1, Zenon
  <2>2. /\ session[s].status = "opening" => session[s].raced
        /\ session[s].status = "live" => session[s].raced \/ s \in req[q].victims
    BY <2>1, Zenon DEF AInv, OpenInv, CommitFinds
  <2>3. session[s].raced => session'[s].raced
    BY <1>1, Zenon
  <2>4. session'[s].status = session[s].status \/ session[s].status = "opening"
    BY <1>1, Zenon
  <2> QED BY <2>1, <2>2, <2>3, <2>4, Zenon
<1>6. VictimsLived'
  <2> SUFFICES ASSUME NEW q \in Requests, NEW s \in Sessions,
                      req'[q].pc = "logout commit", s \in req'[q].victims
               PROVE session'[s].status \in {"live", "revoked"}
    BY Zenon DEF VictimsLived
  <2>1. session[s].status \in {"live", "revoked"}
    BY Zenon DEF AInv, OpenInv, VictimsLived
  <2> QED BY <1>1, <2>1, Zenon
<1> QED BY <1>2, <1>3, <1>4, <1>5, <1>6 DEF OpenInv

LEMMA DbTimeoutInv ==
    ASSUME AInv, NEW r \in Requests, DbTimeout(r)
    PROVE AInv'
<1>1. /\ CutOff({r}) /\ Return(r) /\ codeLock' = ReleasedBy(codeLock, {r})
      /\ UNCHANGED <<device, login, code, links, memory>>
  BY DEF DbTimeout
<1>2. Upd(r) /\ req'[r].pc = "idle"
  BY <1>1, Returns DEF AInv, AType
<1>3. Holding(req'[r])
  BY <1>2 DEF Holding, Using
<1>4. {r} \in SUBSET Requests /\ \A q \in Requests : req'[q].pc # "idle" => q \notin {r} /\ req'[q] = req[q]
  BY <1>2 DEF Upd
<1>5. OpenInv'
  BY <1>1, <1>4, CutOffOpen
<1>6. /\ session' \in [Sessions -> SessionSet]
      /\ \A s \in Sessions : session'[s].by = session[s].by /\ session'[s].dev = session[s].dev
      /\ \A s \in Sessions : session'[s].status # "none" => session[s].status # "none"
  BY <1>1, <1>4, CutOffFacts DEF Kept
<1>7. /\ codeLock' \in [Codes -> Requests \cup {None}]
      /\ \A p \in Codes : codeLock[p] # r => codeLock'[p] = codeLock[p]
  BY <1>1 DEF ReleasedBy, AInv, AType
<1>8. LockInv'
  BY <1>1, <1>2, <1>7, LockKept, Zenon
<1> QED BY <1>1, <1>2, <1>3, <1>5, <1>6, <1>7, <1>8, Sessioned, Zenon DEF Using, AInv, AType

LEMMA RestartInv ==
    ASSUME AInv, Restart
    PROVE AInv'
<1>1. /\ CutOff(Requests) /\ codeLock' = ReleasedBy(codeLock, Requests)
      /\ req' = [r \in Requests |-> Idle] /\ UNCHANGED <<device, login, code, links>>
      /\ reg' = [g \in Registrations |->
            IF reg[g].status = "issued" THEN Dropped(g) ELSE reg[g]]
      /\ boot' = [k \in Bootstraps |-> IF boot[k] = "issued" THEN "gone" ELSE boot[k]]
  BY DEF Restart
<1>2. req' \in [Requests -> ReqSet] /\ \A r \in Requests : req'[r].pc = "idle"
  BY <1>1, IdleFacts
<1>3. OpenInv'
  BY <1>1, <1>2, CutOffOpen
<1>4. /\ session' \in [Sessions -> SessionSet]
      /\ \A s \in Sessions : session'[s].by = session[s].by /\ session'[s].dev = session[s].dev
      /\ \A s \in Sessions : session'[s].status # "none" => session[s].status # "none"
  BY <1>1, CutOffFacts DEF Kept
<1>5. codeLock' \in [Codes -> Requests \cup {None}]
  BY <1>1 DEF ReleasedBy, AInv, AType
<1>6. /\ boot' \in [Bootstraps -> {"none", "issued", "gone"}]
      /\ \A k \in Bootstraps : boot[k] = "gone" => boot'[k] = "gone"
  BY <1>1 DEF AInv, AType
<1>7. ASSUME NEW g \in Registrations
      PROVE /\ reg'[g] \in RegSet /\ reg'[g].by = reg[g].by
            /\ reg'[g].status # "issued"
            /\ reg[g].status = "gone" => reg'[g].status = "gone"
  <2>1. reg[g] \in RegSet
    BY DEF AInv, AType
  <2>2. CASE reg[g].status = "issued"
    <3>1. reg'[g] = Dropped(g)
      BY <1>1, <2>2
    <3>2. Dropped(g) \in RegSet /\ Dropped(g).status = "gone" /\ Dropped(g).by = reg[g].by
      BY <2>1, DroppedFacts
    <3> QED BY <2>2, <3>1, <3>2
  <2>3. CASE reg[g].status # "issued"
    BY <1>1, <2>1, <2>3
  <2> QED BY <2>2, <2>3
<1>8. reg' \in [Registrations -> RegSet]
  <2>1. reg' = [g \in Registrations |-> reg'[g]]
    BY <1>1
  <2> QED BY <1>7, <2>1
<1>9. AType'
  BY <1>1, <1>2, <1>4, <1>5, <1>6, <1>8 DEF AInv, AType
<1>10. Rows'
  BY <1>1, <1>4, <1>7 DEF AInv, Rows
<1>11. Local'
  BY <1>2, Zenon DEF Local, Holding, Using
<1>12. CodeInv'
  BY <1>1, <1>2, Zenon DEF AInv, CodeInv, LockInv, CodeLinksOnce
<1>13. \A x : Spent(x) => Spent(x)'
  BY <1>1, <1>7 DEF Spent
<1>14. UseInv'
  <2>1. \A s \in Sessions : session'[s].by # None => \A y : y = session'[s].by => Spent(y)
    BY <1>4 DEF AInv, UseInv
  <2>2. \A s, t \in Sessions : s # t /\ session'[s].by # None => session'[s].by # session'[t].by
    BY <1>4 DEF AInv, UseInv
  <2> QED BY <1>2, <1>13, <2>1, <2>2, Zenon DEF UseInv, Spent, Using
<1>15. MailInv'
  <2>1. \A g \in Registrations : reg[g].by # None => reg[g].by \in Bootstraps
    BY DEF AInv, AType, RegSet
  <2> QED BY <1>6, <1>7, <2>1 DEF AInv, MailInv
<1> QED BY <1>3, <1>9, <1>10, <1>11, <1>12, <1>14, <1>15 DEF AInv

-----------------------------------------------------------------------------
(* The theorems *)

LEMMA InitInv ==
    ASSUME AInit
    PROVE AInv
<1> DEFINE opened == [NoSession EXCEPT !.status = "live", !.dev = First]
<1>1. /\ opened \in SessionSet /\ opened.dev = First /\ opened.by = None
      /\ NoSession \in SessionSet /\ NoSession.by = None /\ NoSession.status = "none"
  BY Parameters, Zenon DEF NoSession, SessionSet
<1>2. session = [s \in Sessions |-> IF s = FirstSession THEN opened ELSE NoSession]
  BY DEF AInit
<1> HIDE DEF opened
<1>3. /\ session \in [Sessions -> SessionSet]
      /\ \A s \in Sessions : session[s].by = None /\ (session[s].status # "none" => session[s].dev = First)
  BY <1>1, <1>2
<1>4. req \in [Requests -> ReqSet] /\ \A r \in Requests : req[r].pc = "idle"
  BY IdleFacts DEF AInit
<1>5. /\ login \in [Logins -> LoginSet] /\ code \in [Codes -> CodeSet] /\ reg \in [Registrations -> RegSet]
      /\ \A c \in Logins : login[c].status = "none"
      /\ \A o \in Codes : code[o].status = "none"
      /\ \A g \in Registrations : reg[g].status = "none" /\ reg[g].by = None
  BY DEF AInit, NoLogin, NoCode, NoReg, LoginSet, CodeSet, RegSet
<1>6. /\ device \in [Devices -> {"none", "active", "inactive"}] /\ device[First] = "active"
      /\ codeLock \in [Codes -> Requests \cup {None}]
      /\ boot \in [Bootstraps -> {"none", "issued", "gone"}]
      /\ links \in [Codes -> Nat] /\ \A o \in Codes : links[o] = 0
  BY Parameters DEF AInit
<1>7. AType
  BY <1>3, <1>4, <1>5, <1>6 DEF AType
<1>8. Rows
  BY <1>3, <1>5, Parameters, Zenon DEF Rows
<1>9. Local
  BY <1>4, Zenon DEF Local, Holding, Using
<1>10. CodeInv
  BY <1>4, <1>5, <1>6, Zenon DEF CodeInv, LockInv, CodeLinksOnce
<1>11. OpenInv
  BY <1>3, <1>4, <1>6, Zenon DEF OpenInv, Opening, OneOpener, LateIsRaced, CommitFinds, VictimsLived
<1>12. UseInv /\ MailInv
  BY <1>3, <1>4, <1>5, Zenon DEF UseInv, MailInv, Using
<1> QED BY <1>7, <1>8, <1>9, <1>10, <1>11, <1>12 DEF AInv

LEMMA StutterInv ==
    ASSUME AInv, UNCHANGED avars
    PROVE AInv'
<1>1. UNCHANGED <<device, devLock, session, login, code, codeLock, links, reg, boot, req>>
  BY DEF avars, tables, memory
<1>2. AType' /\ Rows' /\ Local' /\ CodeInv' /\ MailInv'
  BY <1>1, Zenon DEF AInv, AType, Rows, Local, CodeInv, LockInv, CodeLinksOnce, MailInv
<1>3. OpenInv'
  BY <1>1, Zenon DEF AInv, OpenInv, Opening, OneOpener, LateIsRaced, CommitFinds, VictimsLived
<1>4. UseInv'
  BY <1>1 DEF AInv, UseInv, Spent
<1> QED BY <1>2, <1>3, <1>4 DEF AInv

LEMMA RequestInv ==
    ASSUME AInv, NEW r \in Requests, RequestStep(r)
    PROVE AInv'
<1>1. CASE \E d \in Devices : \/ \E k \in Bootstraps : PeekBootstrap(r, k, d)
                              \/ \E o \in Codes : ReadCode(r, o, d)
                              \/ LogoutDevice(r, d)
  BY <1>1, PeekBootstrapInv, ReadCodeInv, LogoutDeviceInv
<1>2. CASE \E s \in Sessions : Authenticate(r, s, "create code") \/ Authenticate(r, s, "logout")
  BY <1>2, AuthenticateInv, Zenon
<1>3. CASE IssueRegistration(r) \/ CreateCode(r) \/ ReadIssuer(r)
  BY <1>3, IssueRegistrationInv, CreateCodeInv, ReadIssuerInv
<1>4. CASE \E g \in Registrations : ClaimRegistration(r, g)
  BY <1>4, ClaimRegistrationInv
<1>5. CASE MarkFailed(r) \/ ConsumeCode(r) \/ InsertDevice(r)
  BY <1>5, MarkFailedInv, ConsumeCodeInv, InsertDeviceInv
<1>6. CASE FindDevice(r) \/ RegisterForEmail(r) \/ Conflict(r)
  BY <1>6, FindDeviceInv, RegisterForEmailInv, ConflictInv
<1>7. CASE OpenSession(r) \/ SessionOpened(r)
  BY <1>7, OpenSessionInv, SessionOpenedInv
<1>8. CASE \E c \in Logins : ReadLogin(r, c)
  BY <1>8, ReadLoginInv
<1>9. CASE VerifyLogin(r) \/ ConsumeLogin(r) \/ Touch(r)
  BY <1>9, VerifyLoginInv, ConsumeLoginInv, TouchInv
<1>10. CASE LogoutSessions(r) \/ LogoutCommit(r) \/ DbTimeout(r)
  BY <1>10, LogoutSessionsInv, LogoutCommitInv, DbTimeoutInv
<1> QED BY <1>1, <1>2, <1>3, <1>4, <1>5, <1>6, <1>7, <1>8, <1>9, <1>10, Zenon DEF RequestStep

\* The invariant holds in every reachable state.
THEOREM AccessInvariant == ASpec => []AInv
<1>1. AInit => AInv
  BY InitInv
<1>2. AInv /\ [ANext]_avars => AInv'
  <2> SUFFICES ASSUME AInv, [ANext]_avars PROVE AInv'
    OBVIOUS
  <2>1. CASE \E r \in Requests : RequestStep(r)
    BY <2>1, RequestInv
  <2>2. CASE \E k \in Bootstraps : VerifyOtp(k)
    BY <2>2, VerifyOtpInv
  <2>3. CASE \E c \in Logins, d \in Devices : IssueLogin(c, d)
    BY <2>3, IssueLoginInv
  <2>4. CASE Restart
    BY <2>4, RestartInv
  <2>5. CASE UNCHANGED avars
    BY <2>5, StutterInv
  <2> QED BY <2>1, <2>2, <2>3, <2>4, <2>5 DEF ANext
<1> QED BY <1>1, <1>2, PTL DEF ASpec

\* consume_and_register() and mark_failed(): however many requests redeem a code
\* at the same time, time out or give wrong proofs, a code enrols one device at
\* most, and is consumed exactly when it has.
THEOREM CodeTheorem == ASpec => []CodeLinksOnce
<1>1. AInv => CodeLinksOnce
  BY Zenon DEF AInv, CodeInv
<1> QED BY <1>1, AccessInvariant, PTL

\* RegistrationChallengeStore.consume(), the consuming UPDATE of a login
\* challenge and BootstrapStateStore.consume(): no proof is used a second time,
\* whatever the requests that read it before do.
THEOREM ProofTheorem == ASpec => []ProofUsedOnce
<1>1. AInv => ProofUsedOnce
  BY DEF AInv, UseInv, MailInv, ProofUsedOnce
<1> QED BY <1>1, AccessInvariant, PTL

\* logout_with_sessions(): an unrevoked session of a device that is not active
\* was being inserted while the logout was under way.
THEOREM LogoutTheorem == ASpec => []LogoutEndsSessions
<1>1. AInv => LogoutEndsSessions
  BY DEF AInv, OpenInv, LateIsRaced, LogoutEndsSessions, Live
<1> QED BY <1>1, AccessInvariant, PTL
=============================================================================
