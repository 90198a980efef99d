------------------------- MODULE FileTransferProofs -------------------------
(***************************************************************************)
(* Proofs about FileTransfer, for any number of chunks, any watermarks and *)
(* any choice of what may be cancelled, left, dropped, damaged or fail.    *)
(***************************************************************************)
EXTENDS FileTransfer, TLAPS

FrameTypes ==
    {"confirm", "file_offer", "accept", "manifest", "chunk", "complete", "receipt", "cancel"}

FrameSet == [type : FrameTypes, n : Nat, chunk : Nat, ok : BOOLEAN]

CallSet == [stage : {"none", "encrypt", "wait", "woken"}, frame : FrameSet]

States == {"idle", "confirming", "ready", "sending", "receiving"} \cup TerminalStates

EngineSet ==
    [state : States,
     sentConf : BOOLEAN, recvConf : BOOLEAN,
     sentType : FrameTypes \cup {"none"}, recvType : FrameTypes \cup {"none"},
     sendCtr : Nat, recvCtr : Nat,
     offered : BOOLEAN, accepted : BOOLEAN, acceptSent : BOOLEAN,
     manifest : BOOLEAN, got : Seq(Nat), blob : Seq(Nat),
     presented : Seq(Nat), file : Seq(Nat),
     sentChunks : Nat, completionSent : BOOLEAN, reserved : BOOLEAN,
     loop : {"idle", "verify", "receipt"}, poisoned : BOOLEAN,
     cleanup : {"none", "start", "frame", "done"}, disposed : BOOLEAN]

Positions ==
    {"none", "start", "await confirm", "offer", "await accept", "manifest", "chunk", "complete",
     "await receipt", "done", "error"}

FType ==
    /\ eng \in [Engines -> EngineSet]
    /\ call \in [Engines -> [Coroutines -> CallSet]]
    /\ waiting \in [Engines -> Seq(Coroutines)]
    /\ chan \in [Engines -> Seq(FrameSet)]
    /\ buffered \in [Engines -> Int]
    /\ inbox \in [Engines -> Seq(FrameSet)]
    /\ up \in [Engines -> {"open", "closing", "closed"}]
    /\ pos \in Positions

\* What coroutine c of engine e sends.
TypesOf(e, c) ==
    CASE c = "start" -> {"confirm"}
      [] c = "file" -> IF e = "sender" THEN {"file_offer", "manifest", "chunk", "complete"} ELSE {}
      [] c = "accept" -> IF e = "recipient" THEN {"accept"} ELSE {}
      [] c = "loop" -> IF e = "recipient" THEN {"receipt"} ELSE {}
      [] c = "cancel" -> {"cancel"}

Active(e, c) == call[e][c].stage # "none"

\* Each coroutine has one frame of its own kind under way, and waits once.
CallsOK(e) ==
    /\ \A c \in Coroutines : Active(e, c) => call[e][c].frame.type \in TypesOf(e, c)
    /\ eng[e].state = "idle" => ~eng[e].sentConf /\ \A c \in Coroutines : ~Active(e, c)
    /\ Active(e, "loop") => eng[e].loop = "receipt"
    /\ Active(e, "cancel") => eng[e].cleanup = "frame"
    /\ \A i \in DOMAIN waiting[e] : call[e][waiting[e][i]].stage \in {"wait", "woken"}
    /\ \A i, j \in DOMAIN waiting[e] : i # j => waiting[e][i] # waiting[e][j]

\* The counters of a sequence of frames.
Numbers(s) == {s[i].n : i \in DOMAIN s}

NoRepeat(s) == \A i, j \in DOMAIN s : s[i].n = s[j].n => i = j

\* No counter is in two places.
NoncesOK(e) ==
    LET carried == Numbers(chan[e])
        arrived == Numbers(inbox[Peer(e)])
    IN  /\ NoRepeat(chan[e]) /\ NoRepeat(inbox[Peer(e)]) /\ carried \cap arrived = {}
        /\ \A n \in carried \cup arrived : n < eng[e].sendCtr
        /\ \A c \in Coroutines : Active(e, c) =>
              /\ call[e][c].frame.n \notin carried \cup arrived
              /\ call[e][c].frame.n < eng[e].sendCtr
              /\ \A d \in Coroutines : Active(e, d) /\ call[e][c].frame.n = call[e][d].frame.n => c = d

Carries(s, types) == \E i \in DOMAIN s : s[i].type \in types

\* The engine has presented the whole file, and holds it until it is disposed of.
Held(r) == r.presented = TheFile /\ (r.file = TheFile \/ r.disposed)

\* The receipt follows the file.
DeliveredOK ==
    LET r == eng["recipient"] IN
    /\ eng["sender"].loop = "idle"
    /\ r.loop = "verify" /\ r.manifest => r.got = TheFile
    /\ r.loop = "receipt" => r.blob = TheFile
    /\ \/ Carries(chan["recipient"], {"receipt"}) \/ Carries(inbox["sender"], {"receipt"})
       \/ eng["sender"].state = "completed"
       => Held(r)

FInv ==
    /\ FType
    /\ \A e \in Engines : CallsOK(e) /\ NoncesOK(e)
    /\ DeliveredOK

-----------------------------------------------------------------------------
(* Backpressure *)

Workers == Coroutines \ {"cancel"}

\* Nothing is sent before the confirmation, so that start() never waits.
StartOK(e) ==
    /\ ~eng[e].sentConf =>
          /\ chan[e] = <<>> /\ buffered[e] = 0
          /\ \A c \in Coroutines \ {"start"} : ~Active(e, c)
    /\ Active(e, "start") => ~eng[e].sentConf /\ call[e]["start"].stage = "encrypt"

\* What follows the acceptance follows it.
Accepted == eng["recipient"].acceptSent /\ ~Active("recipient", "accept")

Contents == {"manifest", "chunk", "complete"}

\* The content is under way, or may be.
Onward ==
    \/ pos \in Contents \cup {"await receipt", "done"}
    \/ Active("sender", "file") /\ call["sender"]["file"].frame.type \in Contents
    \/ Carries(chan["sender"], Contents) \/ Carries(inbox["recipient"], Contents)
    \/ Carries(chan["recipient"], {"accept"}) \/ Carries(inbox["sender"], {"accept"})
    \/ eng["recipient"].manifest \/ eng["recipient"].loop # "idle"

AcceptedOK == Onward => Accepted

\* One coroutine beside the cancellation has a frame under way.
OneWorker(e) == \A c, d \in Workers : Active(e, c) /\ Active(e, d) => c = d

\* A cancellation that waits behind another frame is the last frame, and a
\* frame that waits behind the cancellation is never sent.
WokenOK(e) ==
    /\ \A i \in DOMAIN waiting[e] : i # 1 /\ waiting[e][i] = "cancel" => eng[e].sentType = "cancel"
    /\ call[e]["cancel"].stage = "woken" =>
          /\ eng[e].sentType = "cancel" /\ buffered[e] <= Low + MaxFrame
          /\ \A c \in Workers : ~Active(e, c)
    /\ \A c \in Workers : call[e][c].stage = "woken" => up[e] # "open"
    /\ buffered[e] < High + MaxFrame

PressInv ==
    /\ \A e \in Engines : StartOK(e) /\ OneWorker(e) /\ WokenOK(e)
    /\ AcceptedOK

-----------------------------------------------------------------------------
(* What the operations on an engine leave alone. *)

SameSent(x, y) ==
    /\ y.sendCtr = x.sendCtr /\ y.sentConf = x.sentConf
    /\ y.sentType = x.sentType /\ y.acceptSent = x.acceptSent

\* The engine keeps the file it presented, or is disposed of.
Keeps(x, y) ==
    /\ y.presented = x.presented
    /\ y.disposed \/ (y.file = x.file /\ y.disposed = x.disposed)

SameFile(x, y) == y.blob = x.blob /\ Keeps(x, y)

\* The engine goes on or ends, and gets no content.
Softer(x, y) ==
    /\ y.state = x.state \/ y.state \in {"failed", "closed"}
    /\ y.manifest => x.manifest /\ y.got = x.got

Disposed(x) == [Closed(x) EXCEPT !.cleanup = "done"]

LEMMA KeepsSame ==
    ASSUME NEW x, NEW y, y.presented = x.presented, y.file = x.file, y.disposed = x.disposed
    PROVE  Keeps(x, y)
  BY DEF Keeps

LEMMA KeepsOn ==
    ASSUME NEW x, NEW y, NEW z, Keeps(x, y), Keeps(y, z)
    PROVE  Keeps(x, z)
  BY DEF Keeps

LEMMA StillHeld ==
    ASSUME NEW x, NEW y, Held(x), Keeps(x, y)
    PROVE  Held(y)
  BY DEF Held, Keeps

LEMMA NoNumber == 0 \in Nat
OBVIOUS

LEMMA NoIndex == \A i \in DOMAIN <<>> : FALSE
OBVIOUS

LEMMA LenAppend ==
    ASSUME NEW S, NEW q \in Seq(S), NEW m \in S
    PROVE  Len(Append(q, m)) = Len(q) + 1 /\ Len(q) \in Nat
OBVIOUS

LEMMA TailIndex ==
    ASSUME NEW S, NEW q \in Seq(S), q # <<>>
    PROVE  /\ Head(q) = q[1] /\ 1 \in DOMAIN q
           /\ \A i \in DOMAIN Tail(q) : i + 1 \in DOMAIN q /\ i + 1 # 1 /\ Tail(q)[i] = q[i + 1]
OBVIOUS

LEMMA NoFile == <<>> \in Seq(Nat)
  OBVIOUS

LEMMA InStateFacts ==
    ASSUME NEW x \in EngineSet, NEW s \in States
    PROVE  /\ InState(x, s) \in EngineSet /\ InState(x, s).state = s
           /\ SameSent(x, InState(x, s)) /\ SameFile(x, InState(x, s))
           /\ InState(x, s).manifest = x.manifest /\ InState(x, s).got = x.got
           /\ InState(x, s).loop = x.loop /\ InState(x, s).cleanup = x.cleanup
  BY Zenon DEF InState, EngineSet, SameSent, SameFile, Keeps

LEMMA CleanedFacts ==
    ASSUME NEW x \in EngineSet
    PROVE  /\ CleanedUp(x) \in EngineSet /\ CleanedUp(x).state = x.state
           /\ SameSent(x, CleanedUp(x)) /\ SameFile(x, CleanedUp(x))
           /\ ~CleanedUp(x).manifest
           /\ CleanedUp(x).loop = x.loop /\ CleanedUp(x).cleanup = x.cleanup
  BY NoFile, Zenon DEF CleanedUp, EngineSet, SameSent, SameFile, Keeps

LEMMA ClosedFacts ==
    ASSUME NEW x \in EngineSet
    PROVE  /\ Closed(x) \in EngineSet
           /\ SameSent(x, Closed(x)) /\ SameFile(x, Closed(x)) /\ Softer(x, Closed(x))
           /\ Closed(x).state = "closed"
           /\ Closed(x).loop = x.loop /\ Closed(x).cleanup = x.cleanup
<1>1. "closed" \in States
  BY DEF States, TerminalStates
<1> DEFINE z == CleanedUp(x)
           y == [z EXCEPT !.file = <<>>, !.disposed = TRUE]
<1>0. y = [CleanedUp(x) EXCEPT !.file = <<>>, !.disposed = TRUE]
  OBVIOUS
<1>z. /\ z \in EngineSet /\ SameSent(x, z) /\ SameFile(x, z) /\ ~z.manifest
      /\ z.loop = x.loop /\ z.cleanup = x.cleanup
  BY CleanedFacts
<1> HIDE DEF z
<1>y. /\ y \in EngineSet /\ SameSent(z, y) /\ SameFile(z, y) /\ y.manifest = z.manifest
      /\ y.loop = z.loop /\ y.cleanup = z.cleanup
  BY <1>z, NoFile, Zenon DEF EngineSet, SameSent, SameFile, Keeps
<1> HIDE DEF y
<1>2. /\ y \in EngineSet /\ SameSent(x, y) /\ SameFile(x, y) /\ ~y.manifest
      /\ y.loop = x.loop /\ y.cleanup = x.cleanup
  BY <1>y, <1>z, Zenon DEF SameSent, SameFile, Keeps
<1>3. /\ InState(y, "closed") \in EngineSet /\ InState(y, "closed").state = "closed"
      /\ SameSent(y, InState(y, "closed")) /\ SameFile(y, InState(y, "closed"))
      /\ InState(y, "closed").manifest = y.manifest
      /\ InState(y, "closed").loop = y.loop /\ InState(y, "closed").cleanup = y.cleanup
  BY <1>1, <1>2, InStateFacts
<1>4. Closed(x) = InState(y, "closed")
  BY <1>0, Zenon DEF Closed
<1> QED
  BY <1>2, <1>3, <1>4 DEF SameSent, SameFile, Keeps, Softer

LEMMA FailedFacts ==
    ASSUME NEW x \in EngineSet
    PROVE  /\ Failed(x) \in EngineSet
           /\ SameSent(x, Failed(x)) /\ SameFile(x, Failed(x)) /\ Softer(x, Failed(x))
           /\ Failed(x).loop = x.loop /\ Failed(x).cleanup = x.cleanup
<1>1. "failed" \in States
  BY DEF States, TerminalStates
<1>2. CASE Terminal(x)
  BY <1>2 DEF Failed, SameSent, SameFile, Keeps, Softer
<1>3. CASE ~Terminal(x)
  <2> DEFINE y == CleanedUp(x)
  <2>1. Failed(x) = InState(y, "failed")
    BY <1>3, Zenon DEF Failed
  <2>2. /\ y \in EngineSet /\ SameSent(x, y) /\ SameFile(x, y) /\ ~y.manifest
        /\ y.loop = x.loop /\ y.cleanup = x.cleanup
    BY CleanedFacts
  <2> HIDE DEF y
  <2>3. /\ InState(y, "failed") \in EngineSet /\ InState(y, "failed").state = "failed"
        /\ SameSent(y, InState(y, "failed")) /\ SameFile(y, InState(y, "failed"))
        /\ InState(y, "failed").manifest = y.manifest
        /\ InState(y, "failed").loop = y.loop /\ InState(y, "failed").cleanup = y.cleanup
    BY <1>1, <2>2, InStateFacts
  <2> QED
    BY <2>1, <2>2, <2>3 DEF SameSent, SameFile, Keeps, Softer
<1> QED
  BY <1>2, <1>3

LEMMA LoopFailedFacts ==
    ASSUME NEW x \in EngineSet
    PROVE  /\ LoopFailed(x) \in EngineSet
           /\ SameSent(x, LoopFailed(x)) /\ SameFile(x, LoopFailed(x)) /\ Softer(x, LoopFailed(x))
           /\ LoopFailed(x).loop = "idle" /\ LoopFailed(x).cleanup = x.cleanup
<1> DEFINE y == Failed(x)
<1>2. /\ y \in EngineSet /\ SameSent(x, y) /\ SameFile(x, y) /\ Softer(x, y)
      /\ y.cleanup = x.cleanup
  BY FailedFacts
<1> HIDE DEF y
<1> DEFINE z == [y EXCEPT !.loop = "idle", !.poisoned = TRUE]
<1>3. /\ z \in EngineSet /\ SameSent(y, z) /\ SameFile(y, z)
      /\ z.state = y.state /\ z.manifest = y.manifest /\ z.got = y.got
      /\ z.loop = "idle" /\ z.cleanup = y.cleanup
  BY <1>2, Zenon DEF EngineSet, SameSent, SameFile, Keeps
<1>4. LoopFailed(x) = z
  BY DEF LoopFailed, y
<1> HIDE DEF z
<1> QED
  BY <1>2, <1>3, <1>4 DEF SameSent, SameFile, Keeps, Softer

LEMMA DisposedFacts ==
    ASSUME NEW x \in EngineSet
    PROVE  /\ Disposed(x) \in EngineSet
           /\ SameSent(x, Disposed(x)) /\ SameFile(x, Disposed(x)) /\ Softer(x, Disposed(x))
           /\ Disposed(x).state = "closed"
           /\ Disposed(x).loop = x.loop /\ Disposed(x).cleanup = "done"
<1> DEFINE y == Closed(x)
<1>2. /\ y \in EngineSet /\ SameSent(x, y) /\ SameFile(x, y) /\ Softer(x, y)
      /\ y.state = "closed" /\ y.loop = x.loop
  BY ClosedFacts
<1> HIDE DEF y
<1> DEFINE z == [y EXCEPT !.cleanup = "done"]
<1>3. /\ z \in EngineSet /\ SameSent(y, z) /\ SameFile(y, z)
      /\ z.state = y.state /\ z.manifest = y.manifest /\ z.got = y.got
      /\ z.loop = y.loop /\ z.cleanup = "done"
  BY <1>2, Zenon DEF EngineSet, SameSent, SameFile, Keeps
<1>4. Disposed(x) = z
  BY DEF Disposed, y
<1> HIDE DEF z
<1> QED
  BY <1>2, <1>3, <1>4 DEF SameSent, SameFile, Keeps, Softer

\* x is engine x0, but for what it last sent.
Resembles(x0, x) ==
    /\ x \in EngineSet /\ x.sendCtr = x0.sendCtr /\ x.acceptSent = x0.acceptSent
    /\ SameFile(x0, x) /\ x.state = x0.state /\ x.manifest = x0.manifest /\ x.got = x0.got
    /\ x.loop = x0.loop /\ x.cleanup = x0.cleanup

\* y is engine x, which has sent a frame of a type last.
Ordered(x, y, type) ==
    /\ Resembles(x, y) /\ y.sentType = type /\ y \in EngineSet
    /\ y.sentConf = (x.sentConf \/ type = "confirm")

\* sentCounterApplied() touches the order of the frames only.
LEMMA AppliedFacts ==
    \A x \in EngineSet, type \in FrameTypes : Ordered(x, Applied(x, type), type)
<1> SUFFICES ASSUME NEW x \in EngineSet, NEW type \in FrameTypes
             PROVE  Ordered(x, Applied(x, type), type)
  OBVIOUS
<1>1. Applied(x, type) \in EngineSet
  BY Zenon DEF Applied, EngineSet
<1>2. /\ Applied(x, type).sentType = type
      /\ Applied(x, type).sentConf = (x.sentConf \/ type = "confirm")
  BY Zenon DEF Applied, EngineSet
<1>3. Resembles(x, Applied(x, type))
  <2> DEFINE y == Applied(x, type)
  <2>1. y.sendCtr = x.sendCtr /\ y.acceptSent = x.acceptSent /\ y.blob = x.blob
    BY Zenon DEF Applied, EngineSet
  <2>4. y.presented = x.presented /\ y.file = x.file /\ y.disposed = x.disposed
    BY Zenon DEF Applied, EngineSet
  <2>2. y.state = x.state /\ y.manifest = x.manifest
    BY Zenon DEF Applied, EngineSet
  <2>3. y.got = x.got /\ y.loop = x.loop /\ y.cleanup = x.cleanup
    BY Zenon DEF Applied, EngineSet
  <2> QED
    BY <1>1, <2>1, <2>2, <2>3, <2>4, KeepsSame, Zenon DEF SameFile, Resembles
<1> QED
  BY <1>1, <1>2, <1>3, Zenon DEF Ordered

\* An engine y that has sent a frame of a type.
AfterType(x, y, type) ==
    /\ y.sendCtr = x.sendCtr /\ y.sentConf = x.sentConf /\ y.sentType = x.sentType
    /\ y.acceptSent = (x.acceptSent \/ type = "accept")
    /\ y.blob = x.blob
    /\ type # "receipt" =>
         Keeps(x, y) /\ y.loop = x.loop /\ Softer(x, y)
    /\ type = "receipt" =>
         /\ y.presented = x.blob /\ y.file = x.blob
         /\ y.loop = "idle" /\ y.state = "completed"
         /\ y.manifest = x.manifest
    /\ y.cleanup = IF type = "cancel" THEN "done" ELSE x.cleanup

LEMMA AfterSendFacts ==
    ASSUME NEW x \in EngineSet, NEW type \in FrameTypes
    PROVE  AfterSend(x, type) \in EngineSet /\ AfterType(x, AfterSend(x, type), type)
<1>1. CASE type = "receipt"
  <2> DEFINE y == [x EXCEPT !.presented = x.blob, !.file = x.blob, !.got = <<>>, !.loop = "idle"]
  <2>1. AfterSend(x, type) = InState(y, "completed")
    BY <1>1, Zenon DEF AfterSend
  <2>2. /\ y \in EngineSet /\ SameSent(x, y) /\ y.blob = x.blob /\ y.presented = x.blob
        /\ y.file = x.blob /\ y.manifest = x.manifest /\ y.loop = "idle" /\ y.cleanup = x.cleanup
    BY NoFile, Zenon DEF EngineSet, SameSent
  <2>3. "completed" \in States
    BY DEF States, TerminalStates
  <2> HIDE DEF y
  <2>4. /\ InState(y, "completed") \in EngineSet /\ InState(y, "completed").state = "completed"
        /\ SameSent(y, InState(y, "completed")) /\ SameFile(y, InState(y, "completed"))
        /\ InState(y, "completed").manifest = y.manifest
        /\ InState(y, "completed").loop = y.loop /\ InState(y, "completed").cleanup = y.cleanup
    BY <2>2, <2>3, InStateFacts
  <2>6. /\ InState(y, "completed").presented = y.presented
        /\ InState(y, "completed").file = y.file
    BY <2>2, Zenon DEF InState, EngineSet
  <2>5. x.acceptSent \in BOOLEAN
    BY DEF EngineSet
  <2> QED
    BY <1>1, <2>1, <2>2, <2>4, <2>5, <2>6 DEF SameSent, SameFile, AfterType
<1>2. CASE type = "accept"
  <2>1. AfterSend(x, type) = [x EXCEPT !.acceptSent = TRUE]
    BY <1>2, Zenon DEF AfterSend
  <2>2. Keeps(x, AfterSend(x, type))
    <3>1. LET y == AfterSend(x, type)
          IN  y.presented = x.presented /\ y.file = x.file /\ y.disposed = x.disposed
      BY <2>1, Zenon DEF EngineSet
    <3> QED
      BY <3>1, KeepsSame, Zenon
  <2> QED
    BY <1>2, <2>1, <2>2, ZenonT(60) DEF EngineSet, AfterType, Softer
<1>3. CASE type = "chunk"
  <2>1. AfterSend(x, type) = [x EXCEPT !.sentChunks = @ + 1]
    BY <1>3, Zenon DEF AfterSend
  <2>2. Keeps(x, AfterSend(x, type))
    <3>1. LET y == AfterSend(x, type)
          IN  y.presented = x.presented /\ y.file = x.file /\ y.disposed = x.disposed
      BY <2>1, Zenon DEF EngineSet
    <3> QED
      BY <3>1, KeepsSame, Zenon
  <2>3. x.sentChunks + 1 \in Nat
    <3>1. x.sentChunks \in Nat
      BY Zenon DEF EngineSet
    <3> QED
      BY <3>1
  <2>4. AfterSend(x, type) \in EngineSet
    BY <2>1, <2>3, Zenon DEF EngineSet
  <2> QED
    BY <1>3, <2>1, <2>2, <2>4, ZenonT(60) DEF EngineSet, AfterType, Softer
<1>4. CASE type = "cancel"
  <2>1. AfterSend(x, type) = Disposed(x)
    BY <1>4, Zenon DEF AfterSend, Disposed
  <2> QED
    BY <1>4, <2>1, DisposedFacts DEF AfterType, SameSent, SameFile, Keeps, Softer, EngineSet
<1>5. CASE type \notin {"receipt", "accept", "chunk", "cancel"}
  <2>1. AfterSend(x, type) = x
    BY <1>5, Zenon DEF AfterSend
  <2> QED
    BY <1>5, <2>1, KeepsSame DEF AfterType, Softer, EngineSet
<1> QED
  BY <1>1, <1>2, <1>3, <1>4, <1>5

\* An engine y one of whose coroutines could not send.
LEMMA AfterThrowFacts ==
    ASSUME NEW x \in EngineSet, NEW c \in Coroutines
    PROVE  LET y == AfterThrow(x, c) IN
           /\ y \in EngineSet /\ SameSent(x, y) /\ SameFile(x, y) /\ Softer(x, y)
           /\ y.loop = IF c = "loop" THEN "idle" ELSE x.loop
           /\ y.cleanup = IF c = "cancel" THEN "done" ELSE x.cleanup
<1>1. CASE c = "start"
  <2>1. AfterThrow(x, c) = Failed(x)
    BY <1>1, Zenon DEF AfterThrow
  <2> QED
    BY <1>1, <2>1, FailedFacts
<1>2. CASE c = "loop"
  <2>1. AfterThrow(x, c) = LoopFailed(x)
    BY <1>2, Zenon DEF AfterThrow
  <2> QED
    BY <1>2, <2>1, LoopFailedFacts
<1>3. CASE c = "cancel"
  <2>1. AfterThrow(x, c) = Disposed(x)
    BY <1>3, Zenon DEF AfterThrow, Disposed
  <2> QED
    BY <1>3, <2>1, DisposedFacts
<1>4. CASE c \notin {"start", "loop", "cancel"}
  <2>1. AfterThrow(x, c) = x
    BY <1>4, Zenon DEF AfterThrow
  <2> QED
    BY <1>4, <2>1 DEF SameSent, SameFile, Keeps, Softer
<1> QED
  BY <1>1, <1>2, <1>3, <1>4 DEF Coroutines

\* An engine y that has taken frame f.
TakenFrame(e, x, y, f) ==
    /\ SameSent(x, y) /\ SameFile(x, y) /\ y.cleanup = x.cleanup
    /\ y.state = "idle" => x.state = "idle"
    /\ y.state = "completed" =>
         x.state = "completed" \/ (f.type = "receipt" /\ e = "sender")
    /\ f.type # "complete" => y.loop = x.loop
    /\ f.type = "complete" => e = "recipient" /\ y.loop = "verify" /\ y.got = TheFile
    /\ y.manifest => x.manifest \/ f.type = "manifest"

LEMMA HandledFacts ==
    ASSUME NEW e \in Engines, NEW x0 \in EngineSet, NEW f \in FrameSet,
           HandlerTakes(e, Received(x0, f), f)
    PROVE  /\ Handled(Received(x0, f), f) \in EngineSet
           /\ TakenFrame(e, x0, Handled(Received(x0, f), f), f)
<1> DEFINE x == Received(x0, f)
           y == Handled(x, f)
<1>0. f.type \in FrameTypes /\ f.chunk \in Nat
  BY DEF FrameSet
<1>1. /\ x \in EngineSet /\ SameSent(x0, x) /\ SameFile(x0, x) /\ x.state = x0.state
      /\ x.manifest = x0.manifest /\ x.got = x0.got /\ x.loop = x0.loop
      /\ x.cleanup = x0.cleanup
  <2> DEFINE k == x0.recvCtr + 1
  <2>1. k \in Nat
    BY DEF EngineSet
  <2>2. x = [x0 EXCEPT !.recvCtr = k, !.recvType = f.type, !.recvConf = TRUE]
    BY DEF Received
  <2> HIDE DEF k, x
  <2> QED
    BY <1>0, <2>1, <2>2, Zenon DEF EngineSet, SameSent, SameFile, Keeps
<1>h. HandlerTakes(e, x, f)
  OBVIOUS
<1> HIDE DEF x
<1>2. SUFFICES y \in EngineSet /\ TakenFrame(e, x, y, f)
  BY <1>1, <1>2 DEF TakenFrame, SameSent, SameFile, Keeps, x
<1>s. {"ready", "receiving", "completed"} \subseteq States
  BY DEF States, TerminalStates
<1>i. ASSUME NEW s \in {"ready", "receiving"}, f.type # "complete", y = InState(x, s)
      PROVE  y \in EngineSet /\ TakenFrame(e, x, y, f)
  BY <1>1, <1>s, <1>i, InStateFacts DEF TakenFrame
<1>x. ASSUME f.type # "complete", y = x PROVE y \in EngineSet /\ TakenFrame(e, x, y, f)
  BY <1>1, <1>x DEF TakenFrame, SameSent, SameFile, Keeps
<1>3. CASE f.type \in {"confirm", "accept"}
  <2>1. y = x \/ y = InState(x, "ready")
    BY <1>3, Zenon DEF Handled
  <2> QED
    BY <1>3, <1>i, <1>x, <2>1
<1>4. CASE f.type = "file_offer"
  <2>1. y = [x EXCEPT !.offered = TRUE]
    BY <1>4, Zenon DEF Handled
  <2> HIDE DEF y
  <2> QED
    BY <1>1, <1>4, <2>1, Zenon DEF TakenFrame, SameSent, SameFile, Keeps, EngineSet
<1>5. CASE f.type = "manifest"
  <2> DEFINE z == [x EXCEPT !.manifest = TRUE]
  <2>1. y = InState(z, "receiving")
    BY <1>5, Zenon DEF Handled
  <2>2. z \in EngineSet /\ SameSent(x, z) /\ SameFile(x, z) /\ z.loop = x.loop
        /\ z.cleanup = x.cleanup
    BY <1>1, Zenon DEF EngineSet, SameSent, SameFile, Keeps
  <2> HIDE DEF y, z
  <2>3. /\ y \in EngineSet /\ SameSent(z, y) /\ SameFile(z, y) /\ y.loop = z.loop
        /\ y.cleanup = z.cleanup /\ y.state = "receiving"
    BY <1>s, <2>1, <2>2, InStateFacts, Zenon
  <2> QED
    BY <1>5, <2>2, <2>3 DEF TakenFrame, SameSent, SameFile, Keeps
<1>6. CASE f.type = "chunk"
  <2>1. y = [x EXCEPT !.got = Append(@, f.chunk)]
    BY <1>6, Zenon DEF Handled
  <2>2. Append(x.got, f.chunk) \in Seq(Nat)
    BY <1>0, <1>1 DEF EngineSet
  <2> HIDE DEF y
  <2> QED
    BY <1>1, <1>6, <2>1, <2>2, Zenon DEF TakenFrame, SameSent, SameFile, Keeps, EngineSet
<1>7. CASE f.type = "complete"
  <2>1. y = [x EXCEPT !.loop = "verify"]
    BY <1>7, Zenon DEF Handled
  <2>2. e = "recipient" /\ x.got = TheFile
    BY <1>7, <1>h, Zenon DEF HandlerTakes
  <2> HIDE DEF y
  <2> QED
    BY <1>1, <1>7, <2>1, <2>2, ZenonT(60) DEF TakenFrame, SameSent, SameFile, Keeps, EngineSet
<1>8. CASE f.type = "receipt"
  <2>1. y = InState(x, "completed") /\ e = "sender"
    BY <1>8, <1>h, Zenon DEF Handled, HandlerTakes
  <2> QED
    <3>1. x \in EngineSet /\ "completed" \in States
      BY <1>1, <1>s
    <3>2. /\ InState(x, "completed") \in EngineSet
          /\ SameSent(x, InState(x, "completed")) /\ SameFile(x, InState(x, "completed"))
          /\ InState(x, "completed").state = "completed"
          /\ InState(x, "completed").manifest = x.manifest
          /\ InState(x, "completed").loop = x.loop
          /\ InState(x, "completed").cleanup = x.cleanup
      BY <3>1, InStateFacts, Zenon
    <3> HIDE DEF y
    <3> QED
      BY <1>8, <2>1, <3>2, ZenonT(60) DEF TakenFrame
<1>9. CASE f.type = "cancel"
  <2>1. y = Failed(x)
    BY <1>9, Zenon DEF Handled
  <2> HIDE DEF y
  <2> QED
    BY <1>1, <1>9, <2>1, FailedFacts DEF TakenFrame, Softer
<1> QED
  BY <1>0, <1>3, <1>4, <1>5, <1>6, <1>7, <1>8, <1>9 DEF FrameTypes

-----------------------------------------------------------------------------
(* Sequences of frames *)

LEMMA AppendFacts ==
    ASSUME NEW s \in Seq(FrameSet), NEW f \in FrameSet
    PROVE  /\ Append(s, f) \in Seq(FrameSet)
           /\ Numbers(Append(s, f)) = Numbers(s) \cup {f.n}
           /\ NoRepeat(s) /\ f.n \notin Numbers(s) => NoRepeat(Append(s, f))
           /\ \A types : Carries(Append(s, f), types) => Carries(s, types) \/ f.type \in types
<1> DEFINE t == Append(s, f)
<1>1. /\ t \in Seq(FrameSet) /\ DOMAIN t = 1..(Len(s) + 1) /\ DOMAIN s = 1..Len(s)
      /\ \A i \in 1..Len(s) : t[i] = s[i]
      /\ t[Len(s) + 1] = f /\ Len(s) \in Nat
  OBVIOUS
<1> HIDE DEF t
<1>2. \A i \in DOMAIN t : i = Len(s) + 1 \/ i \in DOMAIN s
  BY <1>1
<1>3. DOMAIN s \subseteq DOMAIN t /\ Len(s) + 1 \in DOMAIN t
  BY <1>1
<1>4. Numbers(t) = Numbers(s) \cup {f.n}
  BY <1>1, <1>2, <1>3 DEF Numbers
<1>5. ASSUME NoRepeat(s), f.n \notin Numbers(s) PROVE NoRepeat(t)
  BY <1>1, <1>2, <1>5 DEF Numbers, NoRepeat
<1>6. \A types : Carries(t, types) => Carries(s, types) \/ f.type \in types
  BY <1>1, <1>2 DEF Carries
<1> QED
  BY <1>1, <1>4, <1>5, <1>6 DEF t

LEMMA TailFacts ==
    ASSUME NEW s \in Seq(FrameSet), s # <<>>
    PROVE  /\ Tail(s) \in Seq(FrameSet) /\ Head(s) \in FrameSet
           /\ Len(Tail(s)) <= Len(s)
           /\ Numbers(Tail(s)) \subseteq Numbers(s) /\ Head(s).n \in Numbers(s)
           /\ NoRepeat(s) => NoRepeat(Tail(s)) /\ Head(s).n \notin Numbers(Tail(s))
           /\ \A types : Carries(Tail(s), types) \/ Head(s).type \in types => Carries(s, types)
<1> DEFINE t == Tail(s)
<1>1. /\ t \in Seq(FrameSet) /\ DOMAIN t = 1..(Len(s) - 1) /\ DOMAIN s = 1..Len(s)
      /\ \A i \in 1..(Len(s) - 1) : t[i] = s[i + 1]
      /\ Len(s) \in Nat /\ Len(s) > 0 /\ Head(s) = s[1] /\ Head(s) \in FrameSet
      /\ Len(t) = Len(s) - 1
  OBVIOUS
<1> HIDE DEF t
<1>2. \A i \in DOMAIN t : i + 1 \in DOMAIN s /\ t[i] = s[i + 1] /\ i + 1 # 1 /\ i \in Nat
  BY <1>1
<1>3. 1 \in DOMAIN s
  BY <1>1
<1>4. Numbers(t) \subseteq Numbers(s) /\ Head(s).n \in Numbers(s)
  BY <1>1, <1>2, <1>3 DEF Numbers
<1>5. ASSUME NoRepeat(s) PROVE NoRepeat(t) /\ Head(s).n \notin Numbers(t)
  <2>1. NoRepeat(t)
    BY <1>1, <1>2, <1>5 DEF NoRepeat
  <2>2. Head(s).n \notin Numbers(t)
    BY <1>1, <1>2, <1>3, <1>5 DEF Numbers, NoRepeat
  <2> QED
    BY <2>1, <2>2
<1>6. \A types : Carries(t, types) \/ Head(s).type \in types => Carries(s, types)
  BY <1>1, <1>2, <1>3 DEF Carries
<1>7. Len(t) <= Len(s)
  BY <1>1
<1> QED
  BY <1>1, <1>4, <1>5, <1>6, <1>7 DEF t

LEMMA DamageFacts ==
    ASSUME NEW s \in Seq(FrameSet), s # <<>>
    PROVE  LET t == [s EXCEPT ![1].ok = FALSE] IN
           /\ t \in Seq(FrameSet) /\ Numbers(t) = Numbers(s) /\ Len(t) = Len(s)
           /\ NoRepeat(s) => NoRepeat(t)
           /\ \A types : Carries(t, types) => Carries(s, types)
<1> DEFINE f == [s[1] EXCEPT !.ok = FALSE]
           t == [s EXCEPT ![1] = f]
<1>0. s[1] \in FrameSet /\ Len(s) \in Nat /\ Len(s) > 0 /\ DOMAIN s = 1..Len(s)
  OBVIOUS
<1>1. f \in FrameSet /\ f.n = s[1].n /\ f.type = s[1].type
  BY <1>0, Zenon DEF FrameSet
<1> HIDE DEF f
<1>2. t \in Seq(FrameSet) /\ Len(t) = Len(s) /\ DOMAIN t = DOMAIN s
  BY <1>0, <1>1
<1>3. \A i \in DOMAIN s : t[i].n = s[i].n /\ t[i].type = s[i].type
  BY <1>0, <1>1
<1> HIDE DEF t
<1>4. Numbers(t) = Numbers(s)
  BY <1>2, <1>3, Zenon DEF Numbers
<1>5. NoRepeat(s) => NoRepeat(t)
  BY <1>2, <1>3, Zenon DEF NoRepeat
<1>6. \A types : Carries(t, types) => Carries(s, types)
  BY <1>2, <1>3, Zenon DEF Carries
<1>7. t = [s EXCEPT ![1].ok = FALSE]
  BY DEF t, f
<1> QED
  BY <1>2, <1>4, <1>5, <1>6, <1>7, Zenon

LEMMA EmptyFacts ==
    /\ <<>> \in Seq(FrameSet) /\ <<>> \in Seq(Coroutines)
    /\ Numbers(<<>>) = {} /\ NoRepeat(<<>>)
    /\ \A types : ~Carries(<<>>, types)
  BY DEF Numbers, NoRepeat, Carries

-----------------------------------------------------------------------------
(* The two invariants of an engine's frames, by the form of a step. *)

LEMMA PeerFacts ==
    \A e \in Engines : Peer(e) \in Engines /\ Peer(e) # e /\ Peer(Peer(e)) = e
                       /\ \A q \in Engines : q # e => q = Peer(e)
  BY DEF Engines, Peer

\* Calls end or go on with their frame.
CallsShrink(e) ==
    \A c \in Coroutines :
        Active(e, c)' => Active(e, c) /\ call'[e][c].frame = call[e][c].frame

LEMMA NonceShrink ==
    ASSUME NEW e \in Engines, NoncesOK(e), CallsShrink(e),
           eng[e].sendCtr \in Nat, eng'[e].sendCtr = eng[e].sendCtr,
           Numbers(chan'[e]) \subseteq Numbers(chan[e]), NoRepeat(chan'[e]),
           Numbers(inbox'[Peer(e)]) \subseteq Numbers(inbox[Peer(e)]), NoRepeat(inbox'[Peer(e)])
    PROVE  NoncesOK(e)'
  BY Zenon DEF NoncesOK, CallsShrink, Peer

LEMMA NonceBegin ==
    ASSUME NEW e \in Engines, NoncesOK(e), FType, NEW c \in Coroutines,
           \A d \in Coroutines \ {c} : call'[e][d] = call[e][d],
           call'[e][c].frame.n = eng[e].sendCtr,
           eng'[e].sendCtr = eng[e].sendCtr + 1, UNCHANGED <<chan, inbox>>
    PROVE  NoncesOK(e)'
<1> DEFINE k == eng[e].sendCtr
           old == Numbers(chan[e]) \cup Numbers(inbox[Peer(e)])
<1>1. k \in Nat /\ k < k + 1
  BY DEF FType, EngineSet
<1>2. old \subseteq Nat
  <2>1. chan[e] \in Seq(FrameSet) /\ inbox[Peer(e)] \in Seq(FrameSet)
    BY PeerFacts DEF FType
  <2>2. \A t \in Seq(FrameSet) : \A i \in DOMAIN t : t[i] \in FrameSet
    OBVIOUS
  <2>3. \A f \in FrameSet : f.n \in Nat
    BY DEF FrameSet
  <2> QED
    BY <2>1, <2>2, <2>3, Zenon DEF Numbers
<1>3. \A d \in Coroutines : call[e][d].frame.n \in Nat
  BY DEF FType, CallSet, FrameSet
<1>4. \A n \in Nat : n < k => n < k + 1 /\ n # k
  BY <1>1
<1>5. \A n \in old : n < eng'[e].sendCtr /\ n # k
  BY <1>2, <1>4 DEF NoncesOK
<1>6. \A d \in Coroutines \ {c} : Active(e, d) =>
        /\ call[e][d].frame.n \notin old /\ call[e][d].frame.n < k + 1
        /\ call[e][d].frame.n # k
        /\ \A b \in Coroutines \ {c} :
             Active(e, b) /\ call[e][d].frame.n = call[e][b].frame.n => d = b
  BY <1>3, <1>4 DEF NoncesOK
<1>7. NoRepeat(chan[e]) /\ NoRepeat(inbox[Peer(e)])
      /\ Numbers(chan[e]) \cap Numbers(inbox[Peer(e)]) = {}
  BY DEF NoncesOK
<1>8. ASSUME NEW d \in Coroutines, Active(e, d)'
      PROVE  /\ call'[e][d].frame.n \notin old
             /\ call'[e][d].frame.n < eng'[e].sendCtr
             /\ \A b \in Coroutines :
                  Active(e, b)' /\ call'[e][d].frame.n = call'[e][b].frame.n => d = b
  <2>1. CASE d = c
    BY <1>1, <1>5, <1>6, <2>1 DEF Active
  <2>2. CASE d # c
    BY <1>6, <1>8, <2>2, Zenon DEF Active
  <2> QED
    BY <2>1, <2>2
<1> QED
  BY <1>5, <1>7, <1>8 DEF NoncesOK, Peer

LEMMA NonceSent ==
    ASSUME NEW e \in Engines, NoncesOK(e), FType, NEW c \in Coroutines, Active(e, c),
           CallsShrink(e), ~Active(e, c)',
           eng'[e].sendCtr = eng[e].sendCtr, inbox' = inbox,
           chan'[e] = Append(chan[e], call[e][c].frame)
    PROVE  NoncesOK(e)'
<1> DEFINE f == call[e][c].frame
<1>1. chan[e] \in Seq(FrameSet) /\ f \in FrameSet
  BY DEF FType, CallSet
<1>2. /\ NoRepeat(chan[e]) /\ NoRepeat(inbox[Peer(e)])
      /\ Numbers(chan[e]) \cap Numbers(inbox[Peer(e)]) = {}
      /\ \A n \in Numbers(chan[e]) \cup Numbers(inbox[Peer(e)]) : n < eng[e].sendCtr
  BY DEF NoncesOK
<1>3. f.n \notin Numbers(chan[e]) \cup Numbers(inbox[Peer(e)]) /\ f.n < eng[e].sendCtr
  BY DEF NoncesOK
<1>4. Numbers(chan'[e]) = Numbers(chan[e]) \cup {f.n} /\ NoRepeat(chan'[e])
  BY <1>1, <1>2, <1>3, AppendFacts
<1>5. ASSUME NEW d \in Coroutines, Active(e, d)'
      PROVE  /\ call'[e][d].frame.n \notin Numbers(chan[e]) \cup Numbers(inbox[Peer(e)])
             /\ call'[e][d].frame.n # f.n /\ call'[e][d].frame.n < eng[e].sendCtr
             /\ \A b \in Coroutines :
                  Active(e, b)' /\ call'[e][d].frame.n = call'[e][b].frame.n => d = b
  BY <1>5, Zenon DEF NoncesOK, CallsShrink
<1> HIDE DEF f
<1> QED
  BY <1>2, <1>3, <1>4, <1>5 DEF NoncesOK, Peer

LEMMA NonceDeliver ==
    ASSUME NEW e \in Engines, NoncesOK(e), FType, chan[e] # <<>>,
           eng' = eng, call' = call, chan'[e] = Tail(chan[e]),
           \/ inbox'[Peer(e)] = inbox[Peer(e)]
           \/ inbox'[Peer(e)] = Append(inbox[Peer(e)], Head(chan[e]))
    PROVE  NoncesOK(e)'
<1> DEFINE f == Head(chan[e])
           p == Peer(e)
<1>1. chan[e] \in Seq(FrameSet) /\ inbox[p] \in Seq(FrameSet)
  BY PeerFacts DEF FType
<1>2. /\ NoRepeat(chan[e]) /\ NoRepeat(inbox[p])
      /\ Numbers(chan[e]) \cap Numbers(inbox[p]) = {}
      /\ \A n \in Numbers(chan[e]) \cup Numbers(inbox[p]) : n < eng[e].sendCtr
  BY DEF NoncesOK
<1>3. /\ f \in FrameSet /\ f.n \in Numbers(chan[e])
      /\ Numbers(Tail(chan[e])) \subseteq Numbers(chan[e])
      /\ NoRepeat(Tail(chan[e])) /\ f.n \notin Numbers(Tail(chan[e]))
  BY <1>1, <1>2, TailFacts
<1>4. f.n \notin Numbers(inbox[p])
  BY <1>2, <1>3
<1> HIDE DEF f
<1>5. /\ NoRepeat(inbox'[p])
      /\ Numbers(inbox'[p]) \subseteq Numbers(inbox[p]) \cup {f.n}
  BY <1>1, <1>2, <1>3, <1>4, AppendFacts, Zenon DEF f
<1>6. /\ Numbers(chan'[e]) \cap Numbers(inbox'[p]) = {}
      /\ Numbers(chan'[e]) \cup Numbers(inbox'[p]) \subseteq Numbers(chan[e]) \cup Numbers(inbox[p])
  BY <1>2, <1>3, <1>5
<1>7. \A c \in Coroutines : Active(e, c) =>
        /\ call[e][c].frame.n \notin Numbers(chan[e]) \cup Numbers(inbox[p])
        /\ call[e][c].frame.n < eng[e].sendCtr
        /\ \A d \in Coroutines : Active(e, d) /\ call[e][c].frame.n = call[e][d].frame.n => c = d
  BY DEF NoncesOK
<1>8. Peer(e)' = p /\ \A c \in Coroutines : Active(e, c)' <=> Active(e, c)
  BY DEF Peer, Active
<1> HIDE DEF p
<1> QED
  BY <1>2, <1>3, <1>5, <1>6, <1>7, <1>8 DEF NoncesOK

LEMMA CallsMove ==
    ASSUME NEW e \in Engines, CallsOK(e), CallsShrink(e),
           \A i \in DOMAIN waiting'[e] : call'[e][waiting'[e][i]].stage \in {"wait", "woken"},
           \A i, j \in DOMAIN waiting'[e] : i # j => waiting'[e][i] # waiting'[e][j],
           eng'[e].state = "idle" => eng[e].state = "idle" /\ ~eng'[e].sentConf,
           Active(e, "loop")' => eng'[e].loop = "receipt",
           Active(e, "cancel")' => eng'[e].cleanup = "frame"
    PROVE  CallsOK(e)'
  BY Zenon DEF CallsOK, CallsShrink, TypesOf

-----------------------------------------------------------------------------
(* What a step changes *)

\* Only engine e moves.
Only(e) ==
    \A q \in Engines \ {e} :
        eng'[q] = eng[q] /\ call'[q] = call[q] /\ waiting'[q] = waiting[q] /\ up'[q] = up[q]

LEMMA NoCallFacts == NoCall \in CallSet /\ NoCall.stage = "none"
  BY DEF NoCall, CallSet, FrameSet, FrameTypes

LEMMA OneEngine ==
    ASSUME FType, NEW e \in Engines, NEW y \in EngineSet, eng' = [eng EXCEPT ![e] = y]
    PROVE  /\ eng' \in [Engines -> EngineSet] /\ eng'[e] = y
           /\ \A q \in Engines \ {e} : eng'[q] = eng[q]
  BY DEF FType

LEMMA OneCall ==
    ASSUME FType, NEW e \in Engines, NEW c \in Coroutines, NEW k \in CallSet,
           call' = [call EXCEPT ![e][c] = k]
    PROVE  /\ call' \in [Engines -> [Coroutines -> CallSet]] /\ call'[e][c] = k
           /\ \A d \in Coroutines \ {c} : call'[e][d] = call[e][d]
           /\ \A q \in Engines \ {e} : call'[q] = call[q]
  BY DEF FType

LEMMA ClosesFacts ==
    ASSUME FType, NEW e \in Engines
    PROVE  /\ ClosesChannel(e) \in [Engines -> {"open", "closing", "closed"}]
           /\ ClosesChannel(e)[e] # "open"
           /\ \A q \in Engines \ {e} : ClosesChannel(e)[q] = up[q]
  BY DEF FType, ClosesChannel

Later == Contents \cup {"await receipt", "done"}

LEMMA PosFacts ==
    ASSUME pos \in Positions, NEW e \in Engines
    PROVE  /\ Rejected(pos) \in Positions /\ FailPos(e, pos) \in Positions
           /\ CancelPos(e) \in Positions
           /\ Rejected(pos) \in Later \/ FailPos(e, pos) \in Later \/ CancelPos(e) \in Later
                => pos \in Later
  BY Zenon DEF Positions, Rejected, FailPos, CancelPos, Later, Contents

\* The frame of coroutine c is in the channel.
Sends(e, c, x) ==
    /\ eng'[e] \in EngineSet /\ AfterType(x, eng'[e], call[e][c].frame.type)
    /\ chan'[e] = Append(chan[e], call[e][c].frame)
    /\ buffered'[e] = buffered[e] + Size(call[e][c].frame)
    /\ buffered' \in [Engines -> Int] /\ \A q \in Engines \ {e} : buffered'[q] = buffered[q]
    /\ \A q \in Engines \ {e} : chan'[q] = chan[q] /\ eng'[q] = eng[q] /\ up'[q] = up[q]
    /\ IF c = "cancel" THEN up'[e] # "open" ELSE up' = up
    /\ pos' \in Later =>
         \/ pos \in Later
         \/ c = "file" /\ call[e][c].frame.type \in Contents
    /\ eng' \in [Engines -> EngineSet] /\ chan' \in [Engines -> Seq(FrameSet)]
    /\ up' \in [Engines -> {"open", "closing", "closed"}] /\ pos' \in Positions

LEMMA SizeFacts ==
    ASSUME NEW f
    PROVE  Size(f) \in Nat /\ Size(f) <= MaxFrame /\ MaxFrame \in Nat
  BY FrameAssumption DEF Size

LEMMA SentFacts ==
    ASSUME FType, NEW e \in Engines, NEW c \in Coroutines, NEW x \in EngineSet, Sent(e, c, x),
           CallsOK(e), Active(e, c)
    PROVE  Sends(e, c, x)
<1> DEFINE f == call[e][c].frame
           y == AfterSend(x, f.type)
<1>1. f \in FrameSet /\ f.type \in FrameTypes /\ chan[e] \in Seq(FrameSet)
  BY ZenonT(60) DEF FType, CallSet, FrameSet
<1>2. y \in EngineSet /\ AfterType(x, y, f.type)
  BY <1>1, AfterSendFacts
<1> HIDE DEF y
<1>3. /\ eng' = [eng EXCEPT ![e] = y]
      /\ chan' = [chan EXCEPT ![e] = Append(@, f)]
      /\ buffered' = [buffered EXCEPT ![e] = @ + Size(f)]
      /\ up' = IF c = "cancel" THEN ClosesChannel(e) ELSE up
  BY Zenon DEF Sent, y
<1>4. /\ eng' \in [Engines -> EngineSet] /\ eng'[e] = y
      /\ \A q \in Engines \ {e} : eng'[q] = eng[q]
  BY <1>2, <1>3, OneEngine, Zenon
<1>5. Append(chan[e], f) \in Seq(FrameSet)
  BY <1>1, AppendFacts
<1>6. /\ chan' \in [Engines -> Seq(FrameSet)] /\ chan'[e] = Append(chan[e], f)
      /\ \A q \in Engines \ {e} : chan'[q] = chan[q]
  BY <1>3, <1>5 DEF FType
<1>7. /\ up' \in [Engines -> {"open", "closing", "closed"}]
      /\ IF c = "cancel" THEN up'[e] # "open" ELSE up' = up
      /\ \A q \in Engines \ {e} : up'[q] = up[q]
  BY <1>3, ClosesFacts DEF FType
<1>9. /\ buffered' \in [Engines -> Int] /\ buffered'[e] = buffered[e] + Size(f)
      /\ \A q \in Engines \ {e} : buffered'[q] = buffered[q]
  BY <1>3, SizeFacts DEF FType
<1>8. pos' \in Positions /\ (pos' \in Later => pos \in Later \/ (c = "file" /\ f.type \in Contents))
  <2>1. CASE c = "file"
    <3>1. pos' = NextPos(eng[e], f)
      BY <2>1, Zenon DEF Sent
    <3>2. f.type \in {"file_offer", "manifest", "chunk", "complete"}
      BY <2>1 DEF CallsOK, TypesOf
    <3>3. NextPos(eng[e], f) \in {"error", "await accept"} \/ f.type \in Contents
      BY <3>2, Zenon DEF NextPos, Contents
    <3>4. NextPos(eng[e], f) \in Positions
      BY <3>2, Zenon DEF NextPos, Positions
    <3> QED
      BY <2>1, <3>1, <3>3, <3>4, Zenon DEF Later, Contents
  <2>2. CASE c = "start" /\ e = "sender" /\ pos = "start"
    <3>1. pos' = WaitForConfirmation(x)
      BY <2>2, Zenon DEF Sent
    <3> QED
      BY <3>1, Zenon DEF WaitForConfirmation, Positions, Later, Contents
  <2>3. CASE c = "cancel"
    <3>1. pos' = CancelPos(e)
      BY <2>3, Zenon DEF Sent
    <3> QED
      BY <3>1, PosFacts DEF FType
  <2>4. CASE c \notin {"file", "cancel"} /\ ~(c = "start" /\ e = "sender" /\ pos = "start")
    <3>1. pos' = pos
      BY <2>4, Zenon DEF Sent
    <3> QED
      BY <3>1 DEF FType
  <2> QED
    BY <2>1, <2>2, <2>3, <2>4
<1> QED
  BY <1>2, <1>4, <1>6, <1>7, <1>8, <1>9, Zenon DEF Sends

\* Coroutine c could not send.
Throws(e, c, x) ==
    /\ eng'[e] \in EngineSet /\ SameSent(x, eng'[e]) /\ SameFile(x, eng'[e]) /\ Softer(x, eng'[e])
    /\ eng'[e].loop = IF c = "loop" THEN "idle" ELSE x.loop
    /\ eng'[e].cleanup = IF c = "cancel" THEN "done" ELSE x.cleanup
    /\ \A q \in Engines \ {e} : eng'[q] = eng[q] /\ up'[q] = up[q] /\ call'[q] = call[q]
    /\ call'[e][c] = NoCall /\ \A d \in Coroutines \ {c} : call'[e][d] = call[e][d]
    /\ up[e] # "open" => up'[e] # "open"
    /\ pos' \in Later => pos \in Later
    /\ eng' \in [Engines -> EngineSet] /\ call' \in [Engines -> [Coroutines -> CallSet]]
    /\ up' \in [Engines -> {"open", "closing", "closed"}] /\ pos' \in Positions

LEMMA ThrownFacts ==
    ASSUME FType, NEW e \in Engines, NEW c \in Coroutines, NEW x \in EngineSet, Thrown(e, c, x)
    PROVE  Throws(e, c, x)
<1> DEFINE y == AfterThrow(x, c)
<1>1. /\ y \in EngineSet /\ SameSent(x, y) /\ SameFile(x, y) /\ Softer(x, y)
      /\ y.loop = IF c = "loop" THEN "idle" ELSE x.loop
      /\ y.cleanup = IF c = "cancel" THEN "done" ELSE x.cleanup
  BY AfterThrowFacts
<1> HIDE DEF y
<1>2. /\ eng' = [eng EXCEPT ![e] = y]
      /\ call' = [call EXCEPT ![e][c] = NoCall]
      /\ up' = IF c = "cancel" THEN ClosesChannel(e) ELSE up
  BY Zenon DEF Thrown, y
<1>3. /\ eng' \in [Engines -> EngineSet] /\ eng'[e] = y
      /\ \A q \in Engines \ {e} : eng'[q] = eng[q]
  BY <1>1, <1>2, OneEngine, Zenon
<1>4. /\ call' \in [Engines -> [Coroutines -> CallSet]] /\ call'[e][c] = NoCall
      /\ \A d \in Coroutines \ {c} : call'[e][d] = call[e][d]
      /\ \A q \in Engines \ {e} : call'[q] = call[q]
  BY <1>2, NoCallFacts, OneCall, Zenon
<1>5. /\ up' \in [Engines -> {"open", "closing", "closed"}]
      /\ up[e] # "open" => up'[e] # "open"
      /\ \A q \in Engines \ {e} : up'[q] = up[q]
  BY <1>2, ClosesFacts DEF FType
<1>6. pos' \in Positions /\ (pos' \in Later => pos \in Later)
  <2>1. pos' \in {"error", pos, CancelPos(e), FailPos(e, pos)}
    <3>1. CASE c = "file"
      BY <3>1, Zenon DEF Thrown
    <3>2. CASE c = "cancel"
      BY <3>2, Zenon DEF Thrown
    <3>3. CASE c = "start" /\ e = "sender" /\ pos = "start"
      BY <3>3, Zenon DEF Thrown
    <3>4. CASE c \in {"start", "loop"} /\ ~(e = "sender" /\ pos = "start")
      BY <3>4, Zenon DEF Thrown
    <3>5. CASE c = "accept" \/ (c = "loop" /\ e = "sender" /\ pos = "start")
      BY <3>5, Zenon DEF Thrown
    <3> QED
      BY <3>1, <3>2, <3>3, <3>4, <3>5 DEF Coroutines
  <2>2. "error" \in Positions /\ "error" \notin Later
    BY DEF Positions, Later, Contents
  <2> QED
    BY <2>1, <2>2, PosFacts DEF FType
<1> QED
  BY <1>1, <1>3, <1>4, <1>5, <1>6, Zenon DEF Throws

\* Coroutine c takes the next counter and begins a frame.
Begins(e, c, type) ==
    /\ ~Active(e, c) /\ call'[e][c].stage = "encrypt"
    /\ call'[e][c].frame.n = eng[e].sendCtr /\ call'[e][c].frame.type = type
    /\ \A d \in Coroutines \ {c} : call'[e][d] = call[e][d]
    /\ \A q \in Engines \ {e} : eng'[q] = eng[q] /\ call'[q] = call[q]
    /\ UNCHANGED <<waiting, chan, buffered, inbox, up, pos>>
    /\ eng' \in [Engines -> EngineSet] /\ call' \in [Engines -> [Coroutines -> CallSet]]
    /\ eng'[e].sendCtr = eng[e].sendCtr + 1 /\ eng'[e].sentConf = eng[e].sentConf
    /\ eng'[e].sentType = eng[e].sentType /\ eng'[e].acceptSent = eng[e].acceptSent
    /\ eng'[e].manifest = eng[e].manifest /\ eng'[e].got = eng[e].got
    /\ Keeps(eng[e], eng'[e])
    /\ eng'[e].state # "idle" /\ (eng'[e].state = "completed" => eng[e].state = "completed")
    /\ eng'[e].cleanup = IF c = "cancel" THEN "frame" ELSE eng[e].cleanup
    /\ IF c = "loop"
       THEN /\ eng[e].loop = "verify" /\ eng[e].manifest
            /\ eng'[e].loop = "receipt" /\ eng'[e].blob = eng[e].got
       ELSE eng'[e].loop = eng[e].loop /\ eng'[e].blob = eng[e].blob
    /\ type \in TypesOf(e, c)
    /\ IF c = "start" THEN eng[e].state = "idle" ELSE MaySend(e, type)
    /\ c = "accept" => ~eng[e].acceptSent
    /\ c = "file" /\ type \in Contents => pos \in Later

LEMMA BeginFacts ==
    ASSUME FType, NEW e \in Engines, NEW c \in Coroutines, NEW x \in EngineSet,
           NEW type \in FrameTypes, NEW chunk \in Nat, Begin(e, c, x, type, chunk)
    PROVE  /\ call'[e][c].stage = "encrypt" /\ call'[e][c].frame.n = eng[e].sendCtr
           /\ call'[e][c].frame.type = type
           /\ \A d \in Coroutines \ {c} : call'[e][d] = call[e][d]
           /\ \A q \in Engines \ {e} : eng'[q] = eng[q] /\ call'[q] = call[q]
           /\ eng' \in [Engines -> EngineSet] /\ call' \in [Engines -> [Coroutines -> CallSet]]
           /\ eng'[e].sendCtr = x.sendCtr + 1 /\ eng'[e].sentConf = x.sentConf
           /\ eng'[e].sentType = x.sentType /\ eng'[e].acceptSent = x.acceptSent
           /\ eng'[e].manifest = x.manifest /\ eng'[e].got = x.got
           /\ Keeps(x, eng'[e]) /\ eng'[e].blob = x.blob /\ eng'[e].state = x.state
           /\ eng'[e].loop = x.loop /\ eng'[e].cleanup = x.cleanup
<1> DEFINE m == x.sendCtr + 1
           y == [x EXCEPT !.sendCtr = m]
           k == [stage |-> "encrypt",
                 frame |-> [type |-> type, n |-> eng[e].sendCtr, chunk |-> chunk, ok |-> TRUE]]
<1>1. m \in Nat /\ eng[e].sendCtr \in Nat
  <2>1. x.sendCtr \in Nat /\ eng[e].sendCtr \in Nat
    BY Zenon DEF FType, EngineSet
  <2> QED
    BY <2>1
<1>2. k \in CallSet /\ k.stage = "encrypt" /\ k.frame.type = type /\ k.frame.n = eng[e].sendCtr
  BY <1>1 DEF CallSet, FrameSet
<1>3. eng' = [eng EXCEPT ![e] = y] /\ call' = [call EXCEPT ![e][c] = k]
  BY DEF Begin, Reserve, Encrypting
<1> HIDE DEF m, k
<1>4. /\ y \in EngineSet /\ y.sendCtr = m /\ y.sentConf = x.sentConf
      /\ y.sentType = x.sentType /\ y.acceptSent = x.acceptSent
      /\ y.manifest = x.manifest /\ y.got = x.got
      /\ y.presented = x.presented /\ y.file = x.file /\ y.disposed = x.disposed
      /\ y.blob = x.blob /\ y.state = x.state
      /\ y.loop = x.loop /\ y.cleanup = x.cleanup
  BY <1>1, Zenon DEF EngineSet
<1> HIDE DEF y
<1>5. /\ eng' \in [Engines -> EngineSet] /\ eng'[e] = y
      /\ \A q \in Engines \ {e} : eng'[q] = eng[q]
  BY <1>3, <1>4, OneEngine, Zenon
<1>6. /\ call' \in [Engines -> [Coroutines -> CallSet]] /\ call'[e][c] = k
      /\ \A d \in Coroutines \ {c} : call'[e][d] = call[e][d]
      /\ \A q \in Engines \ {e} : call'[q] = call[q]
  BY <1>2, <1>3, OneCall, ZenonT(60)
<1> QED
  BY <1>2, <1>4, <1>5, <1>6, KeepsSame DEF m

LEMMA CreateShape ==
    ASSUME FInv, NEW e \in Engines, Create(e)
    PROVE  Begins(e, "start", "confirm")
<1> DEFINE x == [eng[e] EXCEPT !.state = "confirming", !.reserved = (e = "recipient")]
<1>1. eng[e] \in EngineSet /\ FType /\ CallsOK(e)
  BY DEF FInv, FType
<1>2. (e = "recipient") \in BOOLEAN
  OBVIOUS
<1>3. /\ x \in EngineSet /\ SameSent(eng[e], x) /\ SameFile(eng[e], x) /\ x.state = "confirming"
      /\ x.manifest = eng[e].manifest /\ x.got = eng[e].got /\ x.loop = eng[e].loop
      /\ x.cleanup = eng[e].cleanup
  BY <1>1, <1>2, ZenonT(60) DEF EngineSet, SameSent, SameFile, Keeps, States
<1>4. /\ eng[e].state = "idle" /\ Begin(e, "start", x, "confirm", 0)
      /\ UNCHANGED <<waiting, chan, buffered, inbox, up, pos>>
  BY DEF Create
<1> HIDE DEF x
<1>5. "start" \in Coroutines /\ "confirm" \in FrameTypes /\ "confirm" \in TypesOf(e, "start")
  BY DEF Coroutines, FrameTypes, TypesOf
<1>6. ~Active(e, "start")
  BY <1>1, <1>4, <1>5 DEF CallsOK
<1> QED
  BY <1>1, <1>3, <1>4, <1>5, <1>6, BeginFacts DEF Begins, SameSent, SameFile, Keeps

LEMMA SendNextShape ==
    ASSUME FInv, SendNext
    PROVE  \/ \E type \in FrameTypes : Begins("sender", "file", type)
           \/ pos' = "error" /\ UNCHANGED <<eng, call, waiting, chan, buffered, inbox, up>>
<1> DEFINE type == IF pos = "offer" THEN "file_offer" ELSE pos
           x0 == eng["sender"]
           x == [x0 EXCEPT !.state = IF type = "manifest" THEN "sending" ELSE @,
                           !.completionSent = @ \/ type = "complete"]
           chunk == IF type = "chunk" THEN x0.sentChunks + 1 ELSE 0
<1> SUFFICES ASSUME MaySend("sender", type) PROVE Begins("sender", "file", type)
  <2>1. CASE MaySend("sender", type)
    <3>1. type \in FrameTypes
      BY DEF SendNext, FrameTypes
    <3> QED
      BY <2>1, <3>1
  <2>2. CASE ~MaySend("sender", type)
    BY <2>2, Zenon DEF SendNext
  <2> QED
    BY <2>1, <2>2
<1>1. "sender" \in Engines /\ x0 \in EngineSet /\ FType /\ CallsOK("sender")
  BY DEF FInv, FType, Engines
<1>2. /\ Begin("sender", "file", x, type, chunk) /\ ~Active("sender", "file")
      /\ UNCHANGED <<waiting, chan, buffered, inbox, up, pos>>
      /\ pos \in {"offer", "manifest", "chunk", "complete"}
  BY Zenon DEF SendNext, Active
<1>3. /\ type \in FrameTypes /\ type \in TypesOf("sender", "file") /\ "file" \in Coroutines
      /\ type \in Contents => pos \in Later
  BY <1>2, Zenon DEF FrameTypes, TypesOf, Coroutines, Contents, Later
<1>4. chunk \in Nat
  BY <1>1 DEF EngineSet
<1>5. x0.state \notin {"idle"} \cup TerminalStates
  <2>1. x0.sentConf
    <3>1. type # "confirm"
      BY <1>2
    <3> QED
      BY <3>1 DEF MaySend
  <2> QED
    BY <1>1, <1>2, <2>1 DEF MaySend, Terminal, CallsOK, TerminalStates
<1> HIDE DEF type, chunk
<1>6. /\ x \in EngineSet /\ SameSent(x0, x) /\ SameFile(x0, x) /\ x.state \in {x0.state, "sending"}
      /\ x.manifest = x0.manifest /\ x.got = x0.got /\ x.loop = x0.loop
      /\ x.cleanup = x0.cleanup
  <2> DEFINE s == IF type = "manifest" THEN "sending" ELSE x0.state
             k == x0.completionSent \/ type = "complete"
  <2>1. s \in States /\ k \in BOOLEAN /\ s \in {x0.state, "sending"}
    BY <1>1 DEF EngineSet, States
  <2>2. x = [x0 EXCEPT !.state = s, !.completionSent = k]
    OBVIOUS
  <2> HIDE DEF s, k, x
  <2> QED
    BY <1>1, <2>1, <2>2, Zenon DEF EngineSet, SameSent, SameFile, Keeps
<1> HIDE DEF x
<1> QED
  BY <1>1, <1>2, <1>3, <1>4, <1>5, <1>6, BeginFacts DEF Begins, SameSent, SameFile, Keeps

\* Engine e goes on or ends, and no frame moves.
Eases(e) ==
    /\ UNCHANGED <<call, waiting, chan, buffered>>
    /\ \A q \in Engines \ {e} : eng'[q] = eng[q] /\ up'[q] = up[q] /\ inbox'[q] = inbox[q]
    /\ inbox'[e] \in {inbox[e], <<>>}
    /\ SameSent(eng[e], eng'[e]) /\ SameFile(eng[e], eng'[e]) /\ Softer(eng[e], eng'[e])
    /\ eng'[e].loop # eng[e].loop => eng'[e].loop = "idle" /\ eng[e].loop = "verify"
    /\ eng'[e].cleanup # eng[e].cleanup => eng[e].cleanup # "frame"
    /\ up[e] # "open" => up'[e] # "open"
    /\ pos' \in Later => pos \in Later
    /\ eng' \in [Engines -> EngineSet] /\ inbox' \in [Engines -> Seq(FrameSet)]
    /\ up' \in [Engines -> {"open", "closing", "closed"}] /\ pos' \in Positions

LEMMA SameEngine ==
    ASSUME NEW x
    PROVE  SameSent(x, x) /\ SameFile(x, x) /\ Softer(x, x)
  BY DEF SameSent, SameFile, Keeps, Softer

LEMMA SendFileShape ==
    ASSUME FInv, SendFile \/ ReadSliceFails
    PROVE  Eases("sender")
<1>1. FType /\ pos' \in Positions /\ pos' \notin Later
  <2>1. CASE SendFile
    BY <2>1, Zenon DEF FInv, SendFile, WaitForConfirmation, Positions, Later, Contents
  <2>2. CASE ReadSliceFails
    BY <2>2 DEF FInv, ReadSliceFails, Positions, Later, Contents
  <2> QED
    BY <2>1, <2>2
<1>2. UNCHANGED <<eng, call, waiting, chan, buffered, inbox, up>>
  BY DEF SendFile, ReadSliceFails
<1> QED
  BY <1>1, <1>2, SameEngine DEF Eases, FType

LEMMA SendNextFails ==
    ASSUME FInv, pos' = "error", UNCHANGED <<eng, call, waiting, chan, buffered, inbox, up>>
    PROVE  Eases("sender")
  BY SameEngine, Zenon DEF Eases, FType, FInv, Positions, Later, Contents

LEMMA AcceptShape ==
    ASSUME FInv, Accept
    PROVE  Begins("recipient", "accept", "accept") \/ Eases("recipient")
<1> DEFINE e == "recipient"
           x0 == eng[e]
           x == [x0 EXCEPT !.accepted = TRUE]
<1>1. e \in Engines /\ x0 \in EngineSet /\ FType /\ CallsOK(e) /\ ~Active(e, "accept")
      /\ ~x0.acceptSent /\ UNCHANGED <<waiting, chan, buffered, inbox, up, pos>>
  BY DEF FInv, FType, Engines, Accept, Active
<1>2. /\ x \in EngineSet /\ SameSent(x0, x) /\ SameFile(x0, x) /\ x.state = x0.state
      /\ x.manifest = x0.manifest /\ x.got = x0.got /\ x.loop = x0.loop
      /\ x.cleanup = x0.cleanup
  BY <1>1, Zenon DEF EngineSet, SameSent, SameFile, Keeps
<1>3. CASE MaySend(e, "accept")
  <2>1. Begin(e, "accept", x, "accept", 0)
    BY <1>3, Zenon DEF Accept
  <2>2. "accept" \in Coroutines /\ "accept" \in FrameTypes /\ "accept" \in TypesOf(e, "accept")
    BY DEF Coroutines, FrameTypes, TypesOf
  <2>3. x0.state \notin {"idle"} \cup TerminalStates
    BY <1>1, <1>3 DEF MaySend, Terminal, CallsOK, TerminalStates
  <2> HIDE DEF x
  <2> QED
    BY <1>1, <1>2, <1>3, <2>1, <2>2, <2>3, BeginFacts DEF Begins, SameSent, SameFile, Keeps
<1>4. CASE ~MaySend(e, "accept")
  <2>1. eng' = [eng EXCEPT ![e] = x] /\ call' = call
    BY <1>4, Zenon DEF Accept
  <2> HIDE DEF x
  <2>2. /\ eng' \in [Engines -> EngineSet] /\ eng'[e] = x
        /\ \A q \in Engines \ {e} : eng'[q] = eng[q]
    BY <1>1, <1>2, <2>1, OneEngine, Zenon
  <2> QED
    BY <1>1, <1>2, <2>1, <2>2 DEF Eases, Softer, FType
<1> QED
  BY <1>3, <1>4

\* The engine is disposed of, and its end of the channel closed.
LEMMA DisposeShape ==
    ASSUME FInv, NEW e \in Engines, NEW y \in EngineSet,
           SameSent(eng[e], y), SameFile(eng[e], y), Softer(eng[e], y),
           y.loop = eng[e].loop, y.cleanup # eng[e].cleanup => eng[e].cleanup # "frame",
           eng' = [eng EXCEPT ![e] = y], up' = ClosesChannel(e), pos' = CancelPos(e),
           UNCHANGED <<call, waiting, chan, buffered, inbox>>
    PROVE  Eases(e)
<1>1. FType /\ pos \in Positions
  BY DEF FInv, FType
<1>2. /\ eng' \in [Engines -> EngineSet] /\ eng'[e] = y
      /\ \A q \in Engines \ {e} : eng'[q] = eng[q]
  BY <1>1, OneEngine, Zenon
<1>3. pos' \in Positions /\ (pos' \in Later => pos \in Later)
  BY <1>1, PosFacts
<1>4. /\ up' \in [Engines -> {"open", "closing", "closed"}] /\ up'[e] # "open"
      /\ \A q \in Engines \ {e} : up'[q] = up[q]
  BY <1>1, ClosesFacts
<1> QED
  BY <1>1, <1>2, <1>3, <1>4 DEF Eases, FType

LEMMA CancelShape ==
    ASSUME FInv, NEW e \in Engines, Cancel(e)
    PROVE  Eases(e)
<1> DEFINE x0 == eng[e]
           x == [x0 EXCEPT !.cleanup = "start"]
<1>1. x0 \in EngineSet /\ FType /\ x0.cleanup = "none" /\ UNCHANGED <<call, waiting, chan, buffered, inbox>>
  BY DEF FInv, FType, Cancel
<1>2. CASE Terminal(x0)
  <2>1. /\ eng' = [eng EXCEPT ![e] = Disposed(x0)] /\ up' = ClosesChannel(e)
        /\ pos' = CancelPos(e)
    BY <1>2, Zenon DEF Cancel, Disposed
  <2> QED
    BY <1>1, <2>1, DisposedFacts, DisposeShape, Zenon
<1>3. CASE ~Terminal(x0)
  <2>1. eng' = [eng EXCEPT ![e] = x] /\ up' = up /\ pos' = pos
    BY <1>1, <1>3 DEF Cancel, FType
  <2>2. /\ x \in EngineSet /\ SameSent(x0, x) /\ SameFile(x0, x) /\ x.state = x0.state
        /\ x.manifest = x0.manifest /\ x.got = x0.got /\ x.loop = x0.loop
    BY <1>1, Zenon DEF EngineSet, SameSent, SameFile, Keeps
  <2> HIDE DEF x
  <2>3. /\ eng' \in [Engines -> EngineSet] /\ eng'[e] = x
        /\ \A q \in Engines \ {e} : eng'[q] = eng[q]
    BY <1>1, <2>1, <2>2, OneEngine, Zenon
  <2> QED
    BY <1>1, <2>1, <2>2, <2>3 DEF Eases, Softer, FType
<1> QED
  BY <1>2, <1>3

LEMMA TerminalFrameShape ==
    ASSUME FInv, NEW e \in Engines, SendTerminalFrame(e)
    PROVE  Begins(e, "cancel", "cancel") \/ Eases(e)
<1> DEFINE x0 == eng[e]
           x == [x0 EXCEPT !.cleanup = "frame"]
<1>1. /\ x0 \in EngineSet /\ FType /\ CallsOK(e) /\ x0.cleanup = "start"
      /\ UNCHANGED <<waiting, chan, buffered, inbox>>
  BY DEF FInv, FType, SendTerminalFrame
<1>2. /\ x \in EngineSet /\ SameSent(x0, x) /\ SameFile(x0, x) /\ x.state = x0.state
      /\ x.manifest = x0.manifest /\ x.got = x0.got /\ x.loop = x0.loop
      /\ x.cleanup = "frame"
  BY <1>1, Zenon DEF EngineSet, SameSent, SameFile, Keeps
<1>3. CASE MaySend(e, "cancel")
  <2>1. Begin(e, "cancel", x, "cancel", 0) /\ up' = up /\ pos' = pos
    BY <1>3, Zenon DEF SendTerminalFrame
  <2>2. "cancel" \in Coroutines /\ "cancel" \in FrameTypes /\ "cancel" \in TypesOf(e, "cancel")
    BY DEF Coroutines, FrameTypes, TypesOf
  <2>3. x0.state \notin {"idle"} \cup TerminalStates /\ ~Active(e, "cancel")
    BY <1>1, <1>3, Zenon DEF MaySend, Terminal, CallsOK, TerminalStates
  <2> HIDE DEF x
  <2> QED
    <3>1. /\ call'[e]["cancel"].stage = "encrypt" /\ call'[e]["cancel"].frame.n = eng[e].sendCtr
          /\ call'[e]["cancel"].frame.type = "cancel"
          /\ \A d \in Coroutines \ {"cancel"} : call'[e][d] = call[e][d]
          /\ \A q \in Engines \ {e} : eng'[q] = eng[q] /\ call'[q] = call[q]
          /\ eng' \in [Engines -> EngineSet] /\ call' \in [Engines -> [Coroutines -> CallSet]]
          /\ eng'[e].sendCtr = x.sendCtr + 1 /\ eng'[e].sentConf = x.sentConf
          /\ eng'[e].sentType = x.sentType /\ eng'[e].acceptSent = x.acceptSent
          /\ eng'[e].manifest = x.manifest /\ eng'[e].got = x.got
          /\ Keeps(x, eng'[e]) /\ eng'[e].blob = x.blob /\ eng'[e].state = x.state
          /\ eng'[e].loop = x.loop /\ eng'[e].cleanup = x.cleanup
      BY <1>1, <1>2, <2>1, <2>2, NoNumber, BeginFacts, Zenon
    <3>2. Begins(e, "cancel", "cancel")
      BY <1>1, <1>2, <1>3, <2>1, <2>2, <2>3, <3>1, Zenon DEF Begins, SameSent, SameFile, Keeps, TerminalStates
    <3> QED
      BY <3>2, Zenon
<1>4. CASE ~MaySend(e, "cancel")
  <2>1. /\ eng' = [eng EXCEPT ![e] = [Closed(@) EXCEPT !.cleanup = "done"]]
        /\ up' = ClosesChannel(e) /\ pos' = CancelPos(e) /\ call' = call
    BY <1>4, Zenon DEF SendTerminalFrame
  <2>2. eng' = [eng EXCEPT ![e] = Disposed(x0)]
    BY <2>1 DEF Disposed
  <2> QED
    BY <1>1, <2>1, <2>2, DisposedFacts, DisposeShape, Zenon
<1> QED
  BY <1>3, <1>4

LEMMA LeaveShape ==
    ASSUME FInv, NEW e \in Engines, Leave(e)
    PROVE  Eases(e)
<1>1. eng[e] \in EngineSet
  BY DEF FInv, FType
<1>2. /\ eng' = [eng EXCEPT ![e] = Closed(eng[e])] /\ up' = ClosesChannel(e)
      /\ pos' = CancelPos(e) /\ UNCHANGED <<call, waiting, chan, buffered, inbox>>
  BY DEF Leave
<1> QED
  BY <1>1, <1>2, ClosedFacts, DisposeShape, Zenon

\* An operation of the receive queue throws.
LEMMA LoopFailsShape ==
    ASSUME FInv, NEW e \in Engines, eng[e].loop # "receipt",
           eng' = [eng EXCEPT ![e] = LoopFailed(eng[e])], pos' = FailPos(e, pos),
           inbox' = [inbox EXCEPT ![e] = <<>>], UNCHANGED <<call, waiting, chan, buffered, up>>
    PROVE  Eases(e)
<1>1. FType /\ eng[e] \in EngineSet /\ eng[e].loop \in {"idle", "verify", "receipt"}
  BY Zenon DEF FInv, FType, EngineSet
<1>2. /\ eng' \in [Engines -> EngineSet] /\ eng'[e] = LoopFailed(eng[e])
      /\ \A q \in Engines \ {e} : eng'[q] = eng[q]
  BY <1>1, LoopFailedFacts, OneEngine, Zenon
<1>3. pos' \in Positions /\ (pos' \in Later => pos \in Later)
  BY <1>1, PosFacts DEF FType
<1>4. /\ inbox' \in [Engines -> Seq(FrameSet)] /\ inbox'[e] = <<>>
      /\ \A q \in Engines \ {e} : inbox'[q] = inbox[q]
  BY <1>1, EmptyFacts DEF FType
<1> QED
  BY <1>1, <1>2, <1>3, <1>4, LoopFailedFacts DEF Eases, FType

LEMMA VerifiedShape ==
    ASSUME FInv, NEW e \in Engines, Verified(e)
    PROVE  Begins(e, "loop", "receipt") \/ Eases(e)
<1> DEFINE x0 == eng[e]
           x == [x0 EXCEPT !.blob = x0.got, !.loop = "receipt"]
<1>1. /\ x0 \in EngineSet /\ FType /\ CallsOK(e) /\ x0.loop = "verify"
      /\ UNCHANGED <<waiting, chan, buffered, up>> /\ DeliveredOK
  BY DEF FInv, FType, Verified
<1>2. /\ x \in EngineSet /\ SameSent(x0, x) /\ x.blob = x0.got
      /\ x.presented = x0.presented /\ x.file = x0.file /\ x.disposed = x0.disposed
      /\ x.state = x0.state
      /\ x.manifest = x0.manifest /\ x.got = x0.got /\ x.loop = "receipt"
      /\ x.cleanup = x0.cleanup
  BY <1>1, Zenon DEF EngineSet, SameSent
<1>3. CASE x0.manifest /\ MaySend(e, "receipt")
  <2>1. Begin(e, "loop", x, "receipt", 0) /\ inbox' = inbox /\ pos' = pos
    BY <1>3, Zenon DEF Verified
  <2>2. e = "recipient"
    BY <1>1 DEF DeliveredOK, Engines
  <2>3. "loop" \in Coroutines /\ "receipt" \in FrameTypes /\ "receipt" \in TypesOf(e, "loop")
    BY <2>2, Zenon DEF Coroutines, FrameTypes, TypesOf
  <2>4. x0.state \notin {"idle"} \cup TerminalStates /\ ~Active(e, "loop")
    BY <1>1, <1>3 DEF MaySend, Terminal, CallsOK, TerminalStates
  <2> HIDE DEF x
  <2> QED
    <3>1. /\ call'[e]["loop"].stage = "encrypt" /\ call'[e]["loop"].frame.n = eng[e].sendCtr
          /\ call'[e]["loop"].frame.type = "receipt"
          /\ \A d \in Coroutines \ {"loop"} : call'[e][d] = call[e][d]
          /\ \A q \in Engines \ {e} : eng'[q] = eng[q] /\ call'[q] = call[q]
          /\ eng' \in [Engines -> EngineSet] /\ call' \in [Engines -> [Coroutines -> CallSet]]
          /\ eng'[e].sendCtr = x.sendCtr + 1 /\ eng'[e].sentConf = x.sentConf
          /\ eng'[e].sentType = x.sentType /\ eng'[e].acceptSent = x.acceptSent
          /\ eng'[e].manifest = x.manifest /\ eng'[e].got = x.got
          /\ Keeps(x, eng'[e]) /\ eng'[e].blob = x.blob /\ eng'[e].state = x.state
          /\ eng'[e].loop = x.loop /\ eng'[e].cleanup = x.cleanup
      BY <1>1, <1>2, <2>1, <2>3, BeginFacts, Zenon
    <3>2. Keeps(eng[e], eng'[e])
      BY <1>2, <3>1, KeepsSame, KeepsOn
    <3> QED
      BY <1>1, <1>2, <1>3, <2>1, <2>3, <2>4, <3>1, <3>2, Zenon DEF Begins, SameSent
<1>4. CASE ~(x0.manifest /\ MaySend(e, "receipt"))
  <2>1. /\ eng' = [eng EXCEPT ![e] = LoopFailed(@)] /\ pos' = FailPos(e, pos)
        /\ inbox' = [inbox EXCEPT ![e] = <<>>] /\ call' = call
    BY <1>4, Zenon DEF Verified
  <2> QED
    BY <1>1, <2>1, LoopFailsShape, Zenon
<1> QED
  BY <1>3, <1>4

\* Engine e takes frame f from its queue.
Takes(e, f) ==
    /\ inbox[e] # <<>> /\ f = Head(inbox[e]) /\ eng[e].loop = "idle"
    /\ inbox'[e] = Tail(inbox[e]) /\ TakenFrame(e, eng[e], eng'[e], f)
    /\ \A q \in Engines \ {e} : eng'[q] = eng[q] /\ inbox'[q] = inbox[q]
    /\ pos' \in Later => pos \in Later \/ (e = "sender" /\ f.type = "accept")
    /\ UNCHANGED <<call, waiting, chan, buffered, up>>
    /\ eng' \in [Engines -> EngineSet] /\ inbox' \in [Engines -> Seq(FrameSet)]
    /\ pos' \in Positions

LEMMA AnsweredFacts ==
    ASSUME pos \in Positions, NEW x, NEW f
    PROVE  /\ Answered(x, f) \in Positions
           /\ Answered(x, f) \in Later => pos \in Later \/ f.type = "accept"
<1>1. CASE f.type = "cancel"
  <2>1. Answered(x, f) = FailPos("sender", pos)
    BY <1>1 DEF Answered
  <2> QED
    BY <2>1, PosFacts DEF Engines
<1>2. CASE f.type # "cancel"
  BY <1>2, Zenon DEF Answered, Positions, Later, Contents
<1> QED
  BY <1>1, <1>2

LEMMA HandleShape ==
    ASSUME FInv, NEW e \in Engines, Handle(e)
    PROVE  Takes(e, Head(inbox[e])) \/ Eases(e)
<1> DEFINE f == Head(inbox[e])
           x == Received(eng[e], f)
<1>1. /\ FType /\ eng[e] \in EngineSet /\ inbox[e] \in Seq(FrameSet) /\ inbox[e] # <<>>
      /\ eng[e].loop = "idle" /\ UNCHANGED <<call, waiting, chan, buffered, up>>
  BY DEF FInv, FType, Handle
<1>2. f \in FrameSet /\ Tail(inbox[e]) \in Seq(FrameSet)
  BY <1>1, TailFacts, Zenon
<1>3. CASE ReceiveTakes(eng[e], f) /\ HandlerTakes(e, x, f)
  <2>1. /\ eng' = [eng EXCEPT ![e] = Handled(x, f)]
        /\ pos' = IF e = "sender" THEN Answered(x, f) ELSE pos
        /\ inbox' = [inbox EXCEPT ![e] = Tail(@)]
    BY <1>3, Zenon DEF Handle
  <2>2. Handled(x, f) \in EngineSet /\ TakenFrame(e, eng[e], Handled(x, f), f)
    BY <1>1, <1>2, <1>3, HandledFacts
  <2>3. /\ eng' \in [Engines -> EngineSet] /\ eng'[e] = Handled(x, f)
        /\ \A q \in Engines \ {e} : eng'[q] = eng[q]
    BY <1>1, <2>1, <2>2, OneEngine, Zenon
  <2>4. /\ inbox' \in [Engines -> Seq(FrameSet)] /\ inbox'[e] = Tail(inbox[e])
        /\ \A q \in Engines \ {e} : inbox'[q] = inbox[q]
    BY <1>1, <1>2, <2>1 DEF FType
  <2>5. /\ pos' \in Positions
        /\ pos' \in Later => pos \in Later \/ (e = "sender" /\ f.type = "accept")
    <3>1. pos \in Positions
      BY <1>1 DEF FType
    <3> HIDE DEF x, f
    <3>2. CASE e = "sender"
      <4>1. pos' = Answered(x, f)
        BY <3>2, <2>1
      <4> QED
        BY <3>1, <3>2, <4>1, AnsweredFacts
    <3> QED
      BY <2>1, <3>1, <3>2
  <2> QED
    BY <1>1, <2>2, <2>3, <2>4, <2>5 DEF Takes
<1>4. CASE ~(ReceiveTakes(eng[e], f) /\ HandlerTakes(e, x, f))
  <2>1. /\ eng' = [eng EXCEPT ![e] = LoopFailed(@)] /\ pos' = FailPos(e, pos)
        /\ inbox' = [inbox EXCEPT ![e] = <<>>]
    BY <1>4, Zenon DEF Handle
  <2> QED
    BY <1>1, <2>1, LoopFailsShape, Zenon
<1> QED
  BY <1>3, <1>4

-----------------------------------------------------------------------------
(* The invariant is kept, by the form of a step. *)

LEMMA CallsSame ==
    ASSUME NEW q \in Engines, CallsOK(q), eng'[q] = eng[q], call'[q] = call[q],
           waiting'[q] = waiting[q]
    PROVE  CallsOK(q)'
<1>1. CallsShrink(q)
  BY Zenon DEF CallsShrink, Active
<1>2. /\ \A i \in DOMAIN waiting'[q] : call'[q][waiting'[q][i]].stage \in {"wait", "woken"}
      /\ \A i, j \in DOMAIN waiting'[q] : i # j => waiting'[q][i] # waiting'[q][j]
      /\ eng'[q].state = "idle" => eng[q].state = "idle" /\ ~eng'[q].sentConf
      /\ Active(q, "loop")' => eng'[q].loop = "receipt"
      /\ Active(q, "cancel")' => eng'[q].cleanup = "frame"
  BY DEF CallsOK, Active
<1> QED
  BY <1>1, <1>2, CallsMove

LEMMA FBegin ==
    ASSUME FInv, NEW e \in Engines, NEW c \in Coroutines, NEW type \in FrameTypes,
           Begins(e, c, type)
    PROVE  FInv'
<1>1. FType /\ (\A q \in Engines : CallsOK(q) /\ NoncesOK(q)) /\ DeliveredOK
  BY DEF FInv
<1>2. FType'
  BY <1>1, Zenon DEF FType, Begins
<1>3. CallsOK(e)'
  <2>1. CallsOK(e) /\ waiting[e] \in Seq(Coroutines) /\ waiting'[e] = waiting[e]
    BY <1>1, ZenonT(60) DEF FType, Begins
  <2>2. \A d \in Coroutines : Active(e, d)' => call'[e][d].frame.type \in TypesOf(e, d)
    BY <2>1 DEF CallsOK, Begins, Active
  <2>3. eng'[e].state # "idle"
    BY Zenon DEF Begins
  <2>4. Active(e, "loop")' => eng'[e].loop = "receipt"
    BY <2>1, Zenon DEF CallsOK, Begins, Active, Coroutines
  <2>5. Active(e, "cancel")' => eng'[e].cleanup = "frame"
    BY <2>1, ZenonT(60) DEF CallsOK, Begins, Active, Coroutines
  <2>6. \A i \in DOMAIN waiting'[e] : call'[e][waiting'[e][i]].stage \in {"wait", "woken"}
    <3> SUFFICES ASSUME NEW i \in DOMAIN waiting[e]
                 PROVE  call'[e][waiting[e][i]].stage \in {"wait", "woken"}
      BY <2>1
    <3>1. waiting[e][i] \in Coroutines
      BY <2>1
    <3>2. call[e][waiting[e][i]].stage \in {"wait", "woken"}
      BY <2>1, Zenon DEF CallsOK
    <3>3. waiting[e][i] # c
      BY <3>2, Zenon DEF Begins, Active
    <3> QED
      BY <3>1, <3>2, <3>3 DEF Begins
  <2>7. \A i, j \in DOMAIN waiting'[e] : i # j => waiting'[e][i] # waiting'[e][j]
    BY <2>1, ZenonT(60) DEF CallsOK
  <2> QED
    BY <2>2, <2>3, <2>4, <2>5, <2>6, <2>7, Zenon DEF CallsOK, TypesOf
<1>4. \A q \in Engines \ {e} : CallsOK(q)'
  BY <1>1, CallsSame DEF Begins
<1>5. NoncesOK(e)'
  BY <1>1, NonceBegin, ZenonT(60) DEF Begins
<1>6. \A q \in Engines \ {e} : NoncesOK(q)'
  <2> SUFFICES ASSUME NEW q \in Engines \ {e} PROVE NoncesOK(q)'
    BY ZenonT(60)
  <2>1. CallsShrink(q)
    BY DEF CallsShrink, Begins, Active
  <2>2. /\ eng[q].sendCtr \in Nat /\ eng'[q].sendCtr = eng[q].sendCtr
        /\ chan' = chan /\ inbox' = inbox /\ NoRepeat(chan[q]) /\ NoRepeat(inbox[Peer(q)])
    BY <1>1, Zenon DEF FType, EngineSet, Begins, NoncesOK
  <2> QED
    BY <1>1, <2>1, <2>2, NonceShrink
<1>7. DeliveredOK'
  <2>1. "sender" \in Engines /\ "recipient" \in Engines /\ "sender" # "recipient"
    BY DEF Engines
  <2>2. c = "loop" => e = "recipient"
    BY DEF Begins, TypesOf
  <2>3. /\ eng'["sender"].loop = "idle"
        /\ eng'["sender"].state = "completed" => eng["sender"].state = "completed"
    <3>1. CASE e = "sender"
      BY <1>1, <2>2, <3>1, Zenon DEF DeliveredOK, Begins
    <3>2. CASE e # "sender"
      BY <1>1, <2>1, <3>2, Zenon DEF DeliveredOK, Begins
    <3> QED
      BY <3>1, <3>2
  <2>4. /\ Keeps(eng["recipient"], eng'["recipient"])
        /\ eng'["recipient"].loop = "verify" /\ eng'["recipient"].manifest
             => eng'["recipient"].got = TheFile
        /\ eng'["recipient"].loop = "receipt" => eng'["recipient"].blob = TheFile
    <3>1. CASE e = "recipient"
      BY <1>1, <3>1, ZenonT(60) DEF DeliveredOK, Begins
    <3>2. CASE e # "recipient"
      <4>1. eng'["recipient"] = eng["recipient"]
        BY <2>1, <3>2, Zenon DEF Begins
      <4> QED
        BY <1>1, <4>1, KeepsSame, Zenon DEF DeliveredOK
    <3> QED
      BY <3>1, <3>2, Zenon
  <2>5. chan' = chan /\ inbox' = inbox
    BY DEF Begins
  <2> HIDE DEF Begins
  <2> QED
    BY <1>1, <2>3, <2>4, <2>5, StillHeld, Zenon DEF DeliveredOK, TheFile
<1> QED
  BY <1>2, <1>3, <1>4, <1>5, <1>6, <1>7 DEF FInv

LEMMA FEase ==
    ASSUME FInv, NEW e \in Engines, Eases(e)
    PROVE  FInv'
<1>1. FType /\ (\A q \in Engines : CallsOK(q) /\ NoncesOK(q)) /\ DeliveredOK
  BY DEF FInv
<1>2. FType'
  BY <1>1 DEF FType, Eases
<1>3. CallsOK(e)'
  <2>1. CallsShrink(e)
    BY Zenon DEF CallsShrink, Eases, Active
  <2>2. /\ \A i \in DOMAIN waiting'[e] : call'[e][waiting'[e][i]].stage \in {"wait", "woken"}
        /\ \A i, j \in DOMAIN waiting'[e] : i # j => waiting'[e][i] # waiting'[e][j]
        /\ eng'[e].state = "idle" => eng[e].state = "idle" /\ ~eng'[e].sentConf
        /\ Active(e, "loop")' => eng'[e].loop = "receipt"
        /\ Active(e, "cancel")' => eng'[e].cleanup = "frame"
    <3>1. call' = call /\ waiting' = waiting /\ CallsOK(e)
      BY <1>1, Zenon DEF Eases
    <3>2. eng'[e].state = "idle" => eng[e].state = "idle" /\ ~eng'[e].sentConf
      BY <3>1, Zenon DEF CallsOK, Eases, SameSent, Softer
    <3>3. Active(e, "loop")' => eng'[e].loop = "receipt"
      BY <3>1, Zenon DEF CallsOK, Active, Eases
    <3>4. Active(e, "cancel")' => eng'[e].cleanup = "frame"
      BY <3>1, Zenon DEF CallsOK, Active, Eases
    <3> QED
      BY <3>1, <3>2, <3>3, <3>4, Zenon DEF CallsOK
  <2> QED
    BY <1>1, <2>1, <2>2, CallsMove, Zenon
<1>4. \A q \in Engines \ {e} : CallsOK(q)'
  BY <1>1, CallsSame, Zenon DEF Eases
<1>5. \A q \in Engines : NoncesOK(q)'
  <2> SUFFICES ASSUME NEW q \in Engines PROVE NoncesOK(q)'
    OBVIOUS
  <2>1. CallsShrink(q)
    BY Zenon DEF CallsShrink, Eases, Active
  <2>2. /\ eng[q].sendCtr \in Nat /\ chan' = chan /\ NoRepeat(chan[q])
        /\ NoRepeat(inbox[Peer(q)])
    BY <1>1, Zenon DEF FType, EngineSet, Eases, NoncesOK
  <2>3. eng'[q].sendCtr = eng[q].sendCtr
    BY Zenon DEF Eases, SameSent
  <2>4. inbox'[Peer(q)] = inbox[Peer(q)] \/ inbox'[Peer(q)] = <<>>
    BY PeerFacts, Zenon DEF Eases
  <2>5. NoRepeat(inbox'[Peer(q)]) /\ Numbers(inbox'[Peer(q)]) \subseteq Numbers(inbox[Peer(q)])
    BY <2>2, <2>4, EmptyFacts
  <2> QED
    BY <1>1, <2>1, <2>2, <2>3, <2>5, NonceShrink, Zenon
<1>6. DeliveredOK'
  <2>1. "sender" \in Engines /\ "recipient" \in Engines
    BY DEF Engines
  <2>2. \A q \in Engines : /\ eng'[q].loop = eng[q].loop \/ eng'[q].loop = "idle"
                           /\ eng'[q].state = "completed" => eng[q].state = "completed"
                           /\ SameFile(eng[q], eng'[q])
                           /\ eng'[q].manifest => eng[q].manifest /\ eng'[q].got = eng[q].got
    BY DEF Eases, Softer, SameFile, Keeps
  <2>3. inbox'["sender"] = inbox["sender"] \/ inbox'["sender"] = <<>>
    BY <2>1 DEF Eases
  <2>4. Carries(inbox'["sender"], {"receipt"}) => Carries(inbox["sender"], {"receipt"})
    BY <2>3, EmptyFacts
  <2>5. chan' = chan
    BY DEF Eases
  <2> QED
    BY <1>1, <2>1, <2>2, <2>4, <2>5, StillHeld DEF DeliveredOK, SameFile, TheFile
<1> QED
  BY <1>2, <1>3, <1>4, <1>5, <1>6 DEF FInv

LEMMA FTake ==
    ASSUME FInv, NEW e \in Engines, NEW f, Takes(e, f)
    PROVE  FInv'
<1>1. FType /\ (\A q \in Engines : CallsOK(q) /\ NoncesOK(q)) /\ DeliveredOK
  BY DEF FInv
<1>2. FType'
  BY <1>1 DEF FType, Takes
<1>3. CallsOK(e)'
  <2>1. CallsShrink(e)
    BY Zenon DEF CallsShrink, Takes, Active
  <2>2. /\ \A i \in DOMAIN waiting'[e] : call'[e][waiting'[e][i]].stage \in {"wait", "woken"}
        /\ \A i, j \in DOMAIN waiting'[e] : i # j => waiting'[e][i] # waiting'[e][j]
        /\ eng'[e].state = "idle" => eng[e].state = "idle" /\ ~eng'[e].sentConf
        /\ Active(e, "loop")' => eng'[e].loop = "receipt"
        /\ Active(e, "cancel")' => eng'[e].cleanup = "frame"
    BY <1>1, Zenon DEF CallsOK, Active, Takes, TakenFrame, SameSent
  <2> QED
    BY <1>1, <2>1, <2>2, CallsMove, Zenon
<1>4. \A q \in Engines \ {e} : CallsOK(q)'
  BY <1>1, CallsSame, Zenon DEF Takes
<1>i. /\ inbox[e] \in Seq(FrameSet) /\ inbox[e] # <<>> /\ f = Head(inbox[e])
      /\ inbox'[e] = Tail(inbox[e]) /\ \A q \in Engines \ {e} : inbox'[q] = inbox[q]
  BY <1>1 DEF FType, Takes
<1>5. \A q \in Engines : NoncesOK(q)'
  <2> SUFFICES ASSUME NEW q \in Engines PROVE NoncesOK(q)'
    BY Zenon
  <2>1. CallsShrink(q)
    BY DEF CallsShrink, Takes, Active
  <2>2. /\ eng[q].sendCtr \in Nat /\ chan' = chan /\ NoRepeat(chan[q])
        /\ NoRepeat(inbox[Peer(q)])
    BY <1>1, Zenon DEF FType, EngineSet, Takes, NoncesOK
  <2>3. eng'[q].sendCtr = eng[q].sendCtr
    BY DEF Takes, TakenFrame, SameSent
  <2>5. NoRepeat(inbox'[Peer(q)]) /\ Numbers(inbox'[Peer(q)]) \subseteq Numbers(inbox[Peer(q)])
    BY <2>2, <1>i, PeerFacts, TailFacts
  <2> QED
    BY <1>1, <2>1, <2>2, <2>3, <2>5, NonceShrink, Zenon
<1>6. DeliveredOK'
  <2>1. "sender" \in Engines /\ "recipient" \in Engines /\ "sender" # "recipient"
    BY DEF Engines
  <2>2. chan' = chan
    BY DEF Takes
  <2>3. CASE e = "sender"
    <3>1. /\ eng'["sender"].loop = "idle" /\ eng'["recipient"] = eng["recipient"]
          /\ eng'["sender"].state = "completed" => eng["sender"].state = "completed"
                                                   \/ f.type = "receipt"
      BY <1>1, <2>1, <2>3, Zenon DEF Takes, TakenFrame, DeliveredOK
    <3>2. f.type = "receipt" => Carries(inbox["sender"], {"receipt"})
      BY <1>i, <2>3, TailFacts
    <3>3. Carries(inbox'["sender"], {"receipt"}) => Carries(inbox["sender"], {"receipt"})
      BY <1>i, <2>3, TailFacts
    <3> QED
      BY <1>1, <2>2, <3>1, <3>2, <3>3, Zenon DEF DeliveredOK, TheFile
  <2>4. CASE e = "recipient"
    <3>1. /\ eng'["sender"] = eng["sender"] /\ inbox'["sender"] = inbox["sender"]
          /\ Keeps(eng["recipient"], eng'["recipient"])
          /\ eng'["recipient"].loop = "idle"
             \/ (eng'["recipient"].loop = "verify" /\ eng'["recipient"].got = TheFile)
      BY <1>i, <2>1, <2>4 DEF Takes, TakenFrame, SameFile, Keeps
    <3> QED
      BY <1>1, <2>2, <3>1, StillHeld, Zenon DEF DeliveredOK, TheFile
  <2> QED
    BY <2>3, <2>4 DEF Engines
<1> QED
  BY <1>2, <1>3, <1>4, <1>5, <1>6 DEF FInv

\* Calls of engine e end, or go on with their frame; its queue stays in order.
CallsGoOn(e) ==
    /\ CallsShrink(e)
    /\ call' \in [Engines -> [Coroutines -> CallSet]] /\ waiting' \in [Engines -> Seq(Coroutines)]
    /\ \A i \in DOMAIN waiting'[e] : call'[e][waiting'[e][i]].stage \in {"wait", "woken"}
    /\ \A i, j \in DOMAIN waiting'[e] : i # j => waiting'[e][i] # waiting'[e][j]
    /\ \A q \in Engines \ {e} : call'[q] = call[q] /\ waiting'[q] = waiting[q]

LEMMA LoopFrames ==
    ASSUME FInv, NEW e \in Engines, NEW c \in Coroutines, Active(e, c)
    PROVE  /\ call[e][c].frame \in FrameSet /\ call[e][c].frame.type \in FrameTypes
           /\ call[e][c].frame.type \in TypesOf(e, c)
           /\ call[e][c].frame.type = "receipt" <=> c = "loop"
           /\ call[e][c].frame.type = "cancel" <=> c = "cancel"
           /\ call[e][c].frame.type = "accept" <=> c = "accept"
           /\ call[e][c].frame.type = "confirm" <=> c = "start"
           /\ call[e][c].frame.type \in Contents => c = "file"
           /\ c = "loop" => e = "recipient" /\ eng[e].loop = "receipt"
           /\ c = "accept" => e = "recipient"
           /\ c = "file" => e = "sender"
           /\ eng[e].state # "idle"
<1>1. call[e][c].frame \in FrameSet /\ call[e][c].frame.type \in TypesOf(e, c) /\ CallsOK(e)
  BY Zenon DEF FInv, FType, CallSet, CallsOK
<1>2. call[e][c].frame.type \in FrameTypes
  BY <1>1 DEF FrameSet
<1>3. eng[e].state # "idle" /\ (c = "loop" => eng[e].loop = "receipt")
  BY <1>1, Zenon DEF CallsOK
<1> QED
  BY <1>1, <1>2, <1>3 DEF TypesOf, Contents, Coroutines

LEMMA FSend ==
    ASSUME FInv, NEW e \in Engines, NEW c \in Coroutines, Active(e, c), NEW x,
           Resembles(eng[e], x), Sends(e, c, x), CallsGoOn(e), ~Active(e, c)', inbox' = inbox
    PROVE  FInv'
<1>1. FType /\ (\A q \in Engines : CallsOK(q) /\ NoncesOK(q)) /\ DeliveredOK
  BY Zenon DEF FInv
<1> DEFINE f == call[e][c].frame
<1>f. /\ f \in FrameSet
      /\ f.type = "receipt" <=> c = "loop"
      /\ f.type = "cancel" <=> c = "cancel"
      /\ c = "loop" => e = "recipient" /\ eng[e].loop = "receipt"
      /\ eng[e].state # "idle"
  BY LoopFrames
<1>a. AfterType(x, eng'[e], f.type)
  BY Zenon DEF Sends
<1> HIDE DEF f
<1>b. /\ f.type = "receipt" \/ f.type # "receipt"
      /\ eng'[e].sendCtr = eng[e].sendCtr /\ eng'[e].blob = eng[e].blob
      /\ c # "loop" => Keeps(eng[e], eng'[e]) /\ eng'[e].loop = eng[e].loop
                       /\ Softer(eng[e], eng'[e])
      /\ c = "loop" => /\ eng'[e].presented = eng[e].blob /\ eng'[e].file = eng[e].blob
                       /\ eng'[e].loop = "idle" /\ eng'[e].state = "completed"
      /\ c # "cancel" => eng'[e].cleanup = eng[e].cleanup
  BY <1>a, <1>f, Zenon DEF AfterType, Resembles, SameFile, Keeps, Softer
<1>2. FType'
  BY <1>1 DEF FType, Sends, CallsGoOn
<1>3. CallsOK(e)'
  <2>1. eng'[e].state # "idle"
    BY <1>f, <1>b, Zenon DEF Softer
  <2>2. /\ Active(e, "loop")' => eng'[e].loop = "receipt"
        /\ Active(e, "cancel")' => eng'[e].cleanup = "frame"
    BY <1>1, <1>b, Zenon DEF CallsOK, CallsGoOn, CallsShrink, Coroutines
  <2> QED
    BY <1>1, <2>1, <2>2, CallsMove, Zenon DEF CallsGoOn
<1>4. \A q \in Engines \ {e} : CallsOK(q)'
  BY <1>1, CallsSame, Zenon DEF CallsGoOn, Sends
<1>5. NoncesOK(e)'
  BY <1>1, <1>b, NonceSent, Zenon DEF CallsGoOn, Sends
<1>6. \A q \in Engines \ {e} : NoncesOK(q)'
  <2> SUFFICES ASSUME NEW q \in Engines \ {e} PROVE NoncesOK(q)'
    BY Zenon
  <2>1. CallsShrink(q)
    BY DEF CallsShrink, CallsGoOn, Active
  <2>2. /\ eng[q].sendCtr \in Nat /\ eng'[q].sendCtr = eng[q].sendCtr
        /\ chan'[q] = chan[q] /\ NoRepeat(chan[q]) /\ NoRepeat(inbox[Peer(q)])
    BY <1>1, Zenon DEF FType, EngineSet, Sends, NoncesOK
  <2> QED
    BY <1>1, <2>1, <2>2, NonceShrink, Zenon
<1>7. DeliveredOK'
  <2>1. "sender" \in Engines /\ "recipient" \in Engines /\ "sender" # "recipient"
    BY ZenonT(60) DEF Engines
  <2>2. CASE e = "sender"
    <3>1. /\ eng'["recipient"] = eng["recipient"] /\ chan'["recipient"] = chan["recipient"]
          /\ eng'["sender"].loop = "idle"
          /\ eng'["sender"].state = "completed" => eng["sender"].state = "completed"
      BY <1>1, <1>b, <1>f, <2>1, <2>2, Zenon DEF Sends, DeliveredOK, Softer
    <3> QED
      BY <1>1, <3>1, ZenonT(60) DEF DeliveredOK, TheFile
  <2>3. CASE e = "recipient"
    <3>1. eng'["sender"] = eng["sender"]
      BY <2>1, <2>3 DEF Sends
    <3>2. CASE c = "loop"
      <4>1. Held(eng'["recipient"]) /\ eng'["recipient"].loop = "idle"
        BY <1>1, <1>b, <1>f, <2>3, <3>2, Zenon DEF DeliveredOK, Held
      <4> QED
        BY <1>1, <3>1, <4>1, Zenon DEF DeliveredOK, TheFile
    <3>3. CASE c # "loop"
      <4>1. /\ Keeps(eng["recipient"], eng'["recipient"])
            /\ eng'["recipient"].loop = eng["recipient"].loop
            /\ eng'["recipient"].blob = eng["recipient"].blob
            /\ eng'["recipient"].manifest => eng["recipient"].manifest
                                             /\ eng'["recipient"].got = eng["recipient"].got
        BY <1>b, <2>3, <3>3 DEF Softer
      <4>2. Carries(chan'["recipient"], {"receipt"}) => Carries(chan["recipient"], {"receipt"})
        <5>1. chan["recipient"] \in Seq(FrameSet) /\ chan'["recipient"] = Append(chan["recipient"], f)
          BY <1>1, <2>1, <2>3 DEF FType, Sends, f
        <5>2. f.type \notin {"receipt"}
          BY <1>f, <3>3
        <5> QED
          BY <1>f, <5>1, <5>2, AppendFacts, ZenonT(60)
      <4> QED
        BY <1>1, <3>1, <4>1, <4>2, StillHeld, ZenonT(60) DEF DeliveredOK, TheFile
    <3> QED
      BY <3>2, <3>3, ZenonT(60)
  <2> QED
    BY <2>2, <2>3 DEF Engines
<1> QED
  BY <1>2, <1>3, <1>4, <1>5, <1>6, <1>7 DEF FInv

\* Calls end without their frame, or wait.
Ends(e) ==
    /\ eng'[e].sendCtr = eng[e].sendCtr
    /\ SameFile(eng[e], eng'[e]) /\ Softer(eng[e], eng'[e])
    /\ eng'[e].loop = eng[e].loop \/ (eng'[e].loop = "idle" /\ ~Active(e, "loop")')
    /\ Active(e, "cancel")' => eng'[e].cleanup = eng[e].cleanup
    /\ eng'[e].state = "idle" => eng'[e].sentConf = eng[e].sentConf
    /\ \A q \in Engines \ {e} : eng'[q] = eng[q] /\ up'[q] = up[q]
    /\ UNCHANGED <<chan, buffered, inbox>>
    /\ eng' \in [Engines -> EngineSet] /\ up' \in [Engines -> {"open", "closing", "closed"}]
    /\ pos' \in Positions

LEMMA FEnd ==
    ASSUME FInv, NEW e \in Engines, Ends(e), CallsGoOn(e)
    PROVE  FInv'
<1>1. FType /\ (\A q \in Engines : CallsOK(q) /\ NoncesOK(q)) /\ DeliveredOK
  BY DEF FInv
<1>2. FType'
  BY <1>1 DEF FType, Ends, CallsGoOn
<1>3. CallsOK(e)'
  <2>1. eng'[e].state = "idle" => eng[e].state = "idle" /\ ~eng'[e].sentConf
    BY <1>1, ZenonT(60) DEF Ends, Softer, CallsOK
  <2>2. /\ Active(e, "loop")' => eng'[e].loop = "receipt"
        /\ Active(e, "cancel")' => eng'[e].cleanup = "frame"
    BY <1>1, Zenon DEF CallsOK, CallsGoOn, CallsShrink, Coroutines, Ends
  <2> QED
    BY <1>1, <2>1, <2>2, CallsMove, Zenon DEF CallsGoOn
<1>4. \A q \in Engines \ {e} : CallsOK(q)'
  BY <1>1, CallsSame, Zenon DEF CallsGoOn, Ends
<1>5. \A q \in Engines : NoncesOK(q)'
  <2> SUFFICES ASSUME NEW q \in Engines PROVE NoncesOK(q)'
    OBVIOUS
  <2>1. CallsShrink(q)
    BY Zenon DEF CallsShrink, CallsGoOn, Active
  <2>2. /\ eng[q].sendCtr \in Nat /\ eng'[q].sendCtr = eng[q].sendCtr
        /\ chan' = chan /\ inbox' = inbox /\ NoRepeat(chan[q]) /\ NoRepeat(inbox[Peer(q)])
    BY <1>1, Zenon DEF FType, EngineSet, Ends, NoncesOK
  <2> QED
    BY <1>1, <2>1, <2>2, NonceShrink, Zenon
<1>6. DeliveredOK'
  <2>1. "sender" \in Engines /\ "recipient" \in Engines
    BY DEF Engines
  <2>2. \A q \in Engines : /\ eng'[q].loop = eng[q].loop \/ eng'[q].loop = "idle"
                           /\ eng'[q].state = "completed" => eng[q].state = "completed"
                           /\ SameFile(eng[q], eng'[q])
                           /\ eng'[q].manifest => eng[q].manifest /\ eng'[q].got = eng[q].got
    BY Zenon DEF Ends, Softer, SameFile, Keeps
  <2>3. chan' = chan /\ inbox' = inbox
    BY DEF Ends
  <2> QED
    BY <1>1, <2>1, <2>2, <2>3, StillHeld, Zenon DEF DeliveredOK, SameFile, TheFile
<1> QED
  BY <1>2, <1>3, <1>4, <1>5, <1>6 DEF FInv

\* A frame of engine e arrives, or is damaged on its way.
Moves(e) ==
    /\ chan[e] # <<>> /\ UNCHANGED <<eng, call, waiting, up, pos>>
    /\ \/ /\ chan'[e] = Tail(chan[e])
          /\ \/ inbox'[Peer(e)] = inbox[Peer(e)]
             \/ inbox'[Peer(e)] = Append(inbox[Peer(e)], Head(chan[e]))
       \/ chan'[e] = [chan[e] EXCEPT ![1].ok = FALSE] /\ inbox' = inbox
    /\ \A q \in Engines \ {e} : chan'[q] = chan[q] /\ inbox'[Peer(q)] = inbox[Peer(q)]
    /\ chan' \in [Engines -> Seq(FrameSet)] /\ inbox' \in [Engines -> Seq(FrameSet)]
    /\ buffered' \in [Engines -> Int] /\ buffered'[e] <= buffered[e]
    /\ \A q \in Engines \ {e} : buffered'[q] = buffered[q]

LEMMA DeliverShape ==
    ASSUME FInv, NEW e \in Engines, Deliver(e)
    PROVE  Moves(Peer(e))
<1> DEFINE p == Peer(e)
<1>1. /\ p \in Engines /\ Peer(p) = e /\ \A q \in Engines \ {p} : q = e /\ Peer(q) = p /\ p # e
  BY PeerFacts
<1>2. /\ chan \in [Engines -> Seq(FrameSet)] /\ inbox \in [Engines -> Seq(FrameSet)]
      /\ chan[p] \in Seq(FrameSet) /\ inbox[e] \in Seq(FrameSet)
  BY <1>1, Zenon DEF FInv, FType
<1>3. /\ chan[p] # <<>> /\ chan' = [chan EXCEPT ![p] = Tail(chan[p])]
      /\ inbox' = inbox \/ inbox' = [inbox EXCEPT ![e] = Append(inbox[e], Head(chan[p]))]
      /\ UNCHANGED <<eng, call, waiting, up, pos>>
      /\ buffered' = [buffered EXCEPT ![p] = @ - Size(Head(chan[p]))]
  BY DEF Deliver
<1> HIDE DEF p
<1>4. Tail(chan[p]) \in Seq(FrameSet) /\ Append(inbox[e], Head(chan[p])) \in Seq(FrameSet)
  BY <1>2, <1>3
<1> DEFINE t == Tail(chan[p])
           a == Append(inbox[e], Head(chan[p]))
<1> HIDE DEF t, a
<1>5. chan' = [chan EXCEPT ![p] = t] /\ (inbox' = inbox \/ inbox' = [inbox EXCEPT ![e] = a])
      /\ t \in Seq(FrameSet) /\ a \in Seq(FrameSet)
  BY <1>3, <1>4 DEF t, a
<1>6. /\ chan'[p] = t /\ (inbox'[e] = inbox[e] \/ inbox'[e] = a)
      /\ \A q \in Engines \ {p} : chan'[q] = chan[q] /\ inbox'[Peer(q)] = inbox[Peer(q)]
      /\ chan' \in [Engines -> Seq(FrameSet)] /\ inbox' \in [Engines -> Seq(FrameSet)]
  BY <1>1, <1>2, <1>5, Zenon
<1>8. /\ buffered' \in [Engines -> Int] /\ buffered'[p] <= buffered[p]
      /\ \A q \in Engines \ {p} : buffered'[q] = buffered[q]
  BY <1>1, <1>3, SizeFacts DEF FInv, FType
<1>7. Moves(p)
  BY <1>1, <1>3, <1>6, <1>8 DEF Moves, t, a
<1> QED
  BY <1>7 DEF p

LEMMA DamageShape ==
    ASSUME FInv, NEW e \in Engines, Damage(e)
    PROVE  Moves(e)
<1> DEFINE t == [chan[e] EXCEPT ![1].ok = FALSE]
<1>1. /\ chan \in [Engines -> Seq(FrameSet)] /\ inbox \in [Engines -> Seq(FrameSet)]
      /\ chan[e] \in Seq(FrameSet) /\ buffered \in [Engines -> Int] /\ buffered[e] <= buffered[e]
  BY DEF FInv, FType
<1>2. chan[e] # <<>> /\ UNCHANGED <<eng, call, waiting, buffered, inbox, up, pos>>
  BY DEF Damage
<1>3. chan' = [chan EXCEPT ![e] = t]
  BY DEF Damage
<1>4. t \in Seq(FrameSet)
  BY <1>1, <1>2, DamageFacts, Zenon
<1> HIDE DEF t
<1>5. /\ chan'[e] = t /\ \A q \in Engines \ {e} : chan'[q] = chan[q]
      /\ chan' \in [Engines -> Seq(FrameSet)]
  BY <1>1, <1>3, <1>4
<1> QED
  BY <1>1, <1>2, <1>5 DEF Moves, t

LEMMA FMove ==
    ASSUME FInv, NEW e \in Engines, Moves(e)
    PROVE  FInv'
<1>1. FType /\ (\A q \in Engines : CallsOK(q) /\ NoncesOK(q)) /\ DeliveredOK
  BY DEF FInv
<1>2. FType'
  BY <1>1, Zenon DEF FType, Moves
<1>3. \A q \in Engines : CallsOK(q)'
  BY <1>1, CallsSame DEF Moves
<1>p. /\ Peer(e) \in Engines /\ chan[e] \in Seq(FrameSet) /\ inbox[Peer(e)] \in Seq(FrameSet)
      /\ chan[e] # <<>>
  BY <1>1, PeerFacts DEF FType, Moves
<1>4. \A q \in Engines : NoncesOK(q)'
  <2> SUFFICES ASSUME NEW q \in Engines PROVE NoncesOK(q)'
    OBVIOUS
  <2>1. CallsShrink(q) /\ eng' = eng /\ call' = call
    BY DEF CallsShrink, Moves, Active
  <2>2. eng[q].sendCtr \in Nat /\ NoRepeat(chan[q]) /\ NoRepeat(inbox[Peer(q)]) /\ NoncesOK(q)
    BY <1>1, Zenon DEF FType, EngineSet, NoncesOK
  <2>3. CASE q # e
    BY <2>1, <2>2, <2>3, NonceShrink, Zenon DEF Moves
  <2>4. CASE q = e /\ chan'[e] = [chan[e] EXCEPT ![1].ok = FALSE] /\ inbox' = inbox
    <3>1. NoRepeat(chan'[e]) /\ Numbers(chan'[e]) = Numbers(chan[e])
      BY <1>p, <2>2, <2>4, DamageFacts, Zenon
    <3> QED
      BY <2>1, <2>2, <2>4, <3>1, NonceShrink
  <2>5. CASE /\ q = e /\ chan'[e] = Tail(chan[e])
             /\ \/ inbox'[Peer(e)] = inbox[Peer(e)]
                \/ inbox'[Peer(e)] = Append(inbox[Peer(e)], Head(chan[e]))
    BY <1>1, <1>p, <2>1, <2>5, NonceDeliver, Zenon
  <2> QED
    BY <2>3, <2>4, <2>5 DEF Moves
<1>5. DeliveredOK'
  <2>1. "sender" \in Engines /\ "recipient" \in Engines /\ "sender" # "recipient"
        /\ Peer("recipient") = "sender" /\ eng' = eng
    BY DEF Engines, Peer, Moves
  <2>2. \/ Carries(chan'["recipient"], {"receipt"}) \/ Carries(inbox'["sender"], {"receipt"})
        => Carries(chan["recipient"], {"receipt"}) \/ Carries(inbox["sender"], {"receipt"})
    <3>1. CASE e # "recipient"
      BY <2>1, <3>1 DEF Moves
    <3>2. CASE e = "recipient"
      <4>1. CASE chan'[e] = [chan[e] EXCEPT ![1].ok = FALSE] /\ inbox' = inbox
        <5> DEFINE t == [chan[e] EXCEPT ![1].ok = FALSE]
        <5>1. Carries(t, {"receipt"}) => Carries(chan[e], {"receipt"})
          BY <1>p, DamageFacts, Zenon
        <5>2. chan'[e] = t
          BY <4>1
        <5> HIDE DEF t
        <5> QED
          BY <3>2, <4>1, <5>1, <5>2
      <4>2. CASE chan'[e] = Tail(chan[e])
        <5>1. /\ Head(chan[e]) \in FrameSet
              /\ Carries(Tail(chan[e]), {"receipt"}) \/ Head(chan[e]).type \in {"receipt"}
                   => Carries(chan[e], {"receipt"})
          BY <1>p, TailFacts
        <5>2. Carries(Append(inbox[Peer(e)], Head(chan[e])), {"receipt"}) =>
                Carries(inbox[Peer(e)], {"receipt"}) \/ Head(chan[e]).type \in {"receipt"}
          BY <1>p, <5>1, AppendFacts
        <5>3. inbox'[Peer(e)] \in {inbox[Peer(e)], Append(inbox[Peer(e)], Head(chan[e]))}
          BY <4>2 DEF Moves
        <5> QED
          BY <2>1, <3>2, <4>2, <5>1, <5>2, <5>3, Zenon
      <4> QED
        <5>1. \/ chan'[e] = Tail(chan[e])
              \/ chan'[e] = [chan[e] EXCEPT ![1].ok = FALSE] /\ inbox' = inbox
          BY DEF Moves
        <5> QED
          BY <4>1, <4>2, <5>1
    <3> QED
      BY <3>1, <3>2
  <2> QED
    BY <1>1, <2>1, <2>2 DEF DeliveredOK, TheFile
<1> QED
  BY <1>2, <1>3, <1>4, <1>5 DEF FInv

-----------------------------------------------------------------------------
(* What encryption, the drained channel and the closed channel do. *)

LEMMA OneWaiting ==
    ASSUME FType, NEW e \in Engines, NEW w \in Seq(Coroutines),
           waiting' = [waiting EXCEPT ![e] = w]
    PROVE  /\ waiting' \in [Engines -> Seq(Coroutines)] /\ waiting'[e] = w
           /\ \A q \in Engines \ {e} : waiting'[q] = waiting[q]
  BY DEF FType

\* The call of coroutine c, which does not wait, ends.
LEMMA CallEnds ==
    ASSUME FInv, NEW e \in Engines, NEW c \in Coroutines, call[e][c].stage = "encrypt",
           call' = [call EXCEPT ![e][c] = NoCall], waiting' = waiting
    PROVE  /\ CallsGoOn(e) /\ ~Active(e, c)'
           /\ \A d \in Coroutines \ {c} : call'[e][d] = call[e][d]
<1>1. FType /\ CallsOK(e) /\ waiting[e] \in Seq(Coroutines)
  BY DEF FInv, FType
<1>2. /\ call' \in [Engines -> [Coroutines -> CallSet]] /\ call'[e][c] = NoCall
      /\ \A d \in Coroutines \ {c} : call'[e][d] = call[e][d]
      /\ \A q \in Engines \ {e} : call'[q] = call[q]
  BY <1>1, NoCallFacts, OneCall, Zenon
<1>3. CallsShrink(e) /\ ~Active(e, c)'
  BY <1>2, NoCallFacts DEF CallsShrink, Active
<1>4. \A i \in DOMAIN waiting[e] : call'[e][waiting[e][i]].stage \in {"wait", "woken"}
  <2> SUFFICES ASSUME NEW i \in DOMAIN waiting[e]
               PROVE  call'[e][waiting[e][i]].stage \in {"wait", "woken"}
    OBVIOUS
  <2>1. waiting[e][i] \in Coroutines /\ call[e][waiting[e][i]].stage \in {"wait", "woken"}
    BY <1>1 DEF CallsOK
  <2>2. waiting[e][i] # c
    BY <2>1
  <2> QED
    BY <1>2, <2>1, <2>2
<1>5. \A i, j \in DOMAIN waiting[e] : i # j => waiting[e][i] # waiting[e][j]
  BY <1>1, Zenon DEF CallsOK
<1> QED
  BY <1>1, <1>2, <1>3, <1>4, <1>5, ZenonT(60) DEF CallsGoOn, FType

\* The encrypted frame has no room, and its coroutine waits.
Queues(e, c) ==
    /\ waiting'[e] = Append(waiting[e], c)
    /\ call'[e][c].stage = "wait" /\ call'[e][c].frame = call[e][c].frame
    /\ \A d \in Coroutines \ {c} : call'[e][d] = call[e][d]
    /\ UNCHANGED <<up, pos>>

LEMMA QueueShape ==
    ASSUME FInv, NEW e \in Engines, NEW c \in Coroutines, call[e][c].stage = "encrypt",
           NEW k \in CallSet, k.stage = "wait", k.frame = call[e][c].frame,
           call' = [call EXCEPT ![e][c] = k],
           waiting' = [waiting EXCEPT ![e] = Append(@, c)], UNCHANGED <<up, pos>>
    PROVE  CallsGoOn(e) /\ Queues(e, c)
<1> DEFINE w == Append(waiting[e], c)
<1>1. FType /\ CallsOK(e) /\ waiting[e] \in Seq(Coroutines)
  BY DEF FInv, FType
<1>2. waiting' = [waiting EXCEPT ![e] = w]
  OBVIOUS
<1>4. w \in Seq(Coroutines) /\ DOMAIN w = 1..(Len(waiting[e]) + 1)
      /\ DOMAIN waiting[e] = 1..Len(waiting[e]) /\ Len(waiting[e]) \in Nat
      /\ (\A i \in DOMAIN waiting[e] : w[i] = waiting[e][i]) /\ w[Len(waiting[e]) + 1] = c
  BY <1>1
<1> HIDE DEF w
<1>5. /\ call' \in [Engines -> [Coroutines -> CallSet]] /\ call'[e][c] = k
      /\ \A d \in Coroutines \ {c} : call'[e][d] = call[e][d]
      /\ \A q \in Engines \ {e} : call'[q] = call[q]
  BY <1>1, OneCall, Zenon
<1>6. /\ waiting' \in [Engines -> Seq(Coroutines)] /\ waiting'[e] = w
      /\ \A q \in Engines \ {e} : waiting'[q] = waiting[q]
  BY <1>1, <1>2, <1>4, OneWaiting, Zenon
<1>7. CallsShrink(e)
  BY <1>5, Zenon DEF CallsShrink, Active
<1>8. \A i \in DOMAIN waiting[e] : /\ waiting[e][i] \in Coroutines \ {c}
                                   /\ call'[e][waiting[e][i]].stage \in {"wait", "woken"}
  BY <1>1, <1>5 DEF CallsOK
<1>9. \A i \in DOMAIN w : /\ w[i] \in Coroutines
                          /\ call'[e][w[i]].stage \in {"wait", "woken"}
                          /\ i \in DOMAIN waiting[e] \/ (i = Len(waiting[e]) + 1 /\ w[i] = c)
  <2> SUFFICES ASSUME NEW i \in DOMAIN w
               PROVE  /\ w[i] \in Coroutines
                      /\ call'[e][w[i]].stage \in {"wait", "woken"}
                      /\ i \in DOMAIN waiting[e] \/ (i = Len(waiting[e]) + 1 /\ w[i] = c)
    OBVIOUS
  <2>1. i \in DOMAIN waiting[e] \/ i = Len(waiting[e]) + 1
    BY <1>4
  <2>2. CASE i \in DOMAIN waiting[e]
    <3>1. w[i] = waiting[e][i]
      BY <1>4, <2>2
    <3> QED
      BY <1>8, <2>2, <3>1
  <2>3. CASE i = Len(waiting[e]) + 1
    <3>1. w[i] = c
      BY <1>4, <2>3, Zenon
    <3> QED
      BY <1>5, <2>3, <3>1
  <2> QED
    BY <2>1, <2>2, <2>3
<1>10. \A i, j \in DOMAIN w : i # j => w[i] # w[j]
  <2> SUFFICES ASSUME NEW i \in DOMAIN w, NEW j \in DOMAIN w, i # j PROVE w[i] # w[j]
    BY Zenon
  <2>1. CASE i \in DOMAIN waiting[e] /\ j \in DOMAIN waiting[e]
    BY <1>1, <1>4, <2>1, Zenon DEF CallsOK
  <2>2. CASE i \in DOMAIN waiting[e] /\ j \notin DOMAIN waiting[e]
    BY <1>4, <1>8, <1>9, <2>2, Zenon
  <2>3. CASE i \notin DOMAIN waiting[e] /\ j \in DOMAIN waiting[e]
    BY <1>4, <1>8, <1>9, <2>3, Zenon
  <2>4. i \in DOMAIN waiting[e] \/ j \in DOMAIN waiting[e]
    <3>1. i \in DOMAIN waiting[e] \/ i = Len(waiting[e]) + 1
      BY <1>9, Zenon
    <3>2. j \in DOMAIN waiting[e] \/ j = Len(waiting[e]) + 1
      BY <1>9, Zenon
    <3> QED
      BY <3>1, <3>2, Zenon
  <2> QED
    BY <2>1, <2>2, <2>3, <2>4, Zenon
<1>11. CallsGoOn(e)
  <2>1. \A i \in DOMAIN waiting'[e] : call'[e][waiting'[e][i]].stage \in {"wait", "woken"}
    BY <1>6, <1>9, Zenon
  <2>2. \A i, j \in DOMAIN waiting'[e] : i # j => waiting'[e][i] # waiting'[e][j]
    BY <1>6, <1>10
  <2>3. /\ call' \in [Engines -> [Coroutines -> CallSet]] /\ waiting' \in [Engines -> Seq(Coroutines)]
        /\ \A q \in Engines \ {e} : call'[q] = call[q] /\ waiting'[q] = waiting[q]
    BY <1>5, <1>6, Zenon
  <2> QED
    BY <1>7, <2>1, <2>2, <2>3, Zenon DEF CallsGoOn
<1>12. Queues(e, c)
  BY <1>5, <1>6, ZenonT(60) DEF Queues, w
<1> QED
  BY <1>11, <1>12, Zenon

\* The three ways an encrypted frame goes; x is the engine once it counts as sent.
LEMMA EncryptedShape ==
    ASSUME FInv, NEW e \in Engines, NEW c \in Coroutines, Encrypted(e, c)
    PROVE  LET x == Applied(eng[e], call[e][c].frame.type) IN
           /\ call[e][c].stage = "encrypt" /\ Active(e, c) /\ CallsGoOn(e) /\ inbox' = inbox
           /\ Resembles(eng[e], x) /\ x.sentType = call[e][c].frame.type
           /\ x.sentConf = (eng[e].sentConf \/ c = "start")
           /\ \/ /\ up[e] # "open" /\ Throws(e, c, x) /\ ~Active(e, c)'
                 /\ UNCHANGED <<waiting, chan, buffered>>
              \/ /\ up[e] = "open" /\ Room(e) /\ Sends(e, c, x) /\ ~Active(e, c)'
                 /\ waiting' = waiting /\ \A d \in Coroutines \ {c} : call'[e][d] = call[e][d]
              \/ /\ up[e] = "open" /\ ~Room(e) /\ Queues(e, c) /\ eng'[e] = x
                 /\ \A q \in Engines \ {e} : eng'[q] = eng[q]
                 /\ eng' \in [Engines -> EngineSet] /\ chan' = chan /\ buffered' = buffered
<1> DEFINE x == Applied(eng[e], call[e][c].frame.type)
<1>1. /\ FType /\ CallsOK(e) /\ eng[e] \in EngineSet
      /\ call[e][c].stage = "encrypt" /\ Active(e, c) /\ inbox' = inbox
  BY Zenon DEF FInv, FType, Encrypted, Active
<1>2. call[e][c].frame.type \in FrameTypes /\ (call[e][c].frame.type = "confirm" <=> c = "start")
  BY <1>1, LoopFrames, Zenon
<1>3. /\ Resembles(eng[e], x) /\ x.sentType = call[e][c].frame.type /\ x \in EngineSet
      /\ x.sentConf = (eng[e].sentConf \/ c = "start")
  <2>1. eng[e] \in EngineSet /\ call[e][c].frame.type \in FrameTypes
    BY <1>1, <1>2, Zenon
  <2>2. Ordered(eng[e], x, call[e][c].frame.type)
    BY <2>1, AppliedFacts, Zenon
  <2> HIDE DEF x
  <2>3. /\ Resembles(eng[e], x) /\ x.sentType = call[e][c].frame.type /\ x \in EngineSet
        /\ x.sentConf = (eng[e].sentConf \/ call[e][c].frame.type = "confirm")
    BY <2>2, Zenon DEF Ordered
  <2> QED
    BY <1>2, <2>3, Zenon
<1>4. \/ up[e] # "open" /\ Thrown(e, c, x) /\ UNCHANGED <<waiting, chan, buffered>>
      \/ /\ up[e] = "open" /\ Room(e) /\ Sent(e, c, x)
         /\ call' = [call EXCEPT ![e][c] = NoCall] /\ UNCHANGED waiting
      \/ /\ up[e] = "open" /\ ~Room(e)
         /\ waiting' = [waiting EXCEPT ![e] = Append(@, c)]
         /\ call' = [call EXCEPT ![e][c].stage = "wait"]
         /\ eng' = [eng EXCEPT ![e] = x] /\ UNCHANGED <<chan, buffered, up, pos>>
  BY Zenon DEF Encrypted
<1> HIDE DEF x
<1>5. CASE up[e] # "open" /\ Thrown(e, c, x) /\ UNCHANGED <<waiting, chan, buffered>>
  <2>1. call' = [call EXCEPT ![e][c] = NoCall]
    BY <1>5 DEF Thrown
  <2>2. CallsGoOn(e) /\ ~Active(e, c)'
    BY <1>1, <1>5, <2>1, CallEnds, Zenon
  <2>3. Throws(e, c, x)
    BY <1>1, <1>3, <1>5, ThrownFacts, ZenonT(60)
  <2> QED
    BY <1>1, <1>3, <1>5, <2>2, <2>3, Zenon DEF x
<1>6. CASE /\ up[e] = "open" /\ Room(e) /\ Sent(e, c, x)
           /\ call' = [call EXCEPT ![e][c] = NoCall] /\ UNCHANGED waiting
  <2>1. CallsGoOn(e) /\ ~Active(e, c)' /\ \A d \in Coroutines \ {c} : call'[e][d] = call[e][d]
    BY <1>1, <1>6, CallEnds, Zenon
  <2>2. Sends(e, c, x)
    BY <1>1, <1>3, <1>6, SentFacts, Zenon
  <2> QED
    BY <1>1, <1>3, <1>6, <2>1, <2>2 DEF x
<1>7. CASE /\ up[e] = "open" /\ ~Room(e)
           /\ waiting' = [waiting EXCEPT ![e] = Append(@, c)]
           /\ call' = [call EXCEPT ![e][c].stage = "wait"]
           /\ eng' = [eng EXCEPT ![e] = x] /\ UNCHANGED <<chan, buffered, up, pos>>
  <2> DEFINE k == [call[e][c] EXCEPT !.stage = "wait"]
  <2>k. k \in CallSet /\ k.stage = "wait" /\ k.frame = call[e][c].frame
    <3>1. call[e][c] \in CallSet
      BY <1>1 DEF FType
    <3>2. \A r \in CallSet : /\ [r EXCEPT !.stage = "wait"] \in CallSet
                             /\ [r EXCEPT !.stage = "wait"].stage = "wait"
                             /\ [r EXCEPT !.stage = "wait"].frame = r.frame
      BY DEF CallSet
    <3> QED
      BY <3>1, <3>2
  <2>c. call' = [call EXCEPT ![e][c] = k]
    BY <1>7
  <2> HIDE DEF k
  <2>1. CallsGoOn(e) /\ Queues(e, c)
    BY <1>1, <1>7, <2>k, <2>c, QueueShape, Zenon
  <2>2. /\ eng' \in [Engines -> EngineSet] /\ eng'[e] = x
        /\ \A q \in Engines \ {e} : eng'[q] = eng[q]
    BY <1>1, <1>3, <1>7, OneEngine, Zenon
  <2> QED
    BY <1>1, <1>3, <1>7, <2>1, <2>2 DEF x
<1> QED
  BY <1>4, <1>5, <1>6, <1>7

LEMMA FEncrypted ==
    ASSUME FInv, NEW e \in Engines, NEW c \in Coroutines, Encrypted(e, c)
    PROVE  FInv'
<1> DEFINE x == Applied(eng[e], call[e][c].frame.type)
<1>1. /\ call[e][c].stage = "encrypt" /\ Active(e, c) /\ CallsGoOn(e) /\ inbox' = inbox
      /\ Resembles(eng[e], x)
      /\ \/ /\ up[e] # "open" /\ Throws(e, c, x) /\ ~Active(e, c)'
            /\ UNCHANGED <<waiting, chan, buffered>>
         \/ Sends(e, c, x) /\ ~Active(e, c)'
         \/ /\ Queues(e, c) /\ eng'[e] = x
            /\ \A q \in Engines \ {e} : eng'[q] = eng[q]
            /\ eng' \in [Engines -> EngineSet] /\ chan' = chan /\ buffered' = buffered
  BY EncryptedShape, ZenonT(60)
<1> HIDE DEF x
<1>2. eng[e].state # "idle"
  BY <1>1, LoopFrames, Zenon
<1>3. CASE up[e] # "open" /\ Throws(e, c, x) /\ ~Active(e, c)' /\ UNCHANGED <<waiting, chan, buffered>>
  <2>1. Ends(e)
    BY <1>1, <1>2, <1>3, Zenon DEF Ends, Throws, Resembles, SameSent, SameFile, Keeps, Softer
  <2> QED
    BY <1>1, <2>1, FEnd
<1>4. CASE Sends(e, c, x) /\ ~Active(e, c)'
  BY <1>1, <1>4, FSend, Zenon
<1>5. CASE /\ Queues(e, c) /\ eng'[e] = x
           /\ \A q \in Engines \ {e} : eng'[q] = eng[q]
           /\ eng' \in [Engines -> EngineSet] /\ chan' = chan /\ buffered' = buffered
  <2>1. up' = up /\ pos' = pos /\ FType
    BY <1>5, Zenon DEF Queues, FInv
  <2>2. Ends(e)
    BY <1>1, <1>2, <1>5, <2>1 DEF Ends, Resembles, SameFile, Keeps, Softer, FType
  <2> QED
    BY <1>1, <2>2, FEnd
<1> QED
  BY <1>1, <1>3, <1>4, <1>5, Zenon

\* The drained channel takes the frame of the first waiting coroutine, and the
\* others are woken.
Woken(e, c) ==
    /\ waiting[e] # <<>> /\ c = Head(waiting[e]) /\ up[e] = "open"
    /\ Drained(e) \/ call[e][c].stage = "woken"
    /\ waiting'[e] = Tail(waiting[e]) /\ call'[e][c] = NoCall
    /\ \A d \in Coroutines \ {c} :
          /\ call'[e][d].frame = call[e][d].frame
          /\ call'[e][d].stage = IF Waits(e, d) THEN "woken" ELSE call[e][d].stage

LEMMA WakeShape ==
    ASSUME FInv, NEW e \in Engines, Wake(e)
    PROVE  \E c \in Coroutines :
             /\ Woken(e, c) /\ Active(e, c) /\ ~Active(e, c)' /\ CallsGoOn(e)
             /\ Sends(e, c, eng[e]) /\ inbox' = inbox
<1>0. PICK c \in Coroutines : c = Head(waiting[e])
  <2>1. waiting[e] \in Seq(Coroutines) /\ waiting[e] # <<>>
    BY DEF FInv, FType, Wake
  <2> QED
    BY <2>1
<1> DEFINE k(d) == IF d = c THEN NoCall
                   ELSE IF Waits(e, d) THEN [call[e][d] EXCEPT !.stage = "woken"] ELSE call[e][d]
           m == [d \in Coroutines |-> k(d)]
           w == waiting[e]
<1>1. /\ FType /\ CallsOK(e) /\ w \in Seq(Coroutines) /\ eng[e] \in EngineSet
      /\ call \in [Engines -> [Coroutines -> CallSet]] /\ call[e] \in [Coroutines -> CallSet]
  BY DEF FInv, FType
<1>2. /\ w # <<>> /\ up[e] = "open" /\ (Drained(e) \/ call[e][c].stage = "woken")
      /\ waiting' = [waiting EXCEPT ![e] = Tail(w)] /\ Sent(e, c, eng[e]) /\ inbox' = inbox
  BY <1>0 DEF Wake
<1>3. call' = [call EXCEPT ![e] = m]
  BY <1>0, Zenon DEF Wake
<1>4. /\ c \in Coroutines /\ Tail(w) \in Seq(Coroutines) /\ c = w[1] /\ 1 \in DOMAIN w
      /\ DOMAIN w = 1..Len(w) /\ Len(w) \in Nat
      /\ \A i \in DOMAIN Tail(w) : i + 1 \in DOMAIN w /\ Tail(w)[i] = w[i + 1] /\ i \in Nat /\ i # 0
  BY <1>0, <1>1, <1>2
<1>5. call[e][c].stage \in {"wait", "woken"} /\ Active(e, c)
  BY <1>1, <1>4, Zenon DEF CallsOK, Active
<1>6. \A d \in Coroutines : Waits(e, d) => call[e][d].stage \in {"wait", "woken"}
  BY <1>1 DEF CallsOK, Waits
<1>7. /\ k(c) = NoCall
      /\ \A d \in Coroutines \ {c} :
           k(d) = IF Waits(e, d) THEN [call[e][d] EXCEPT !.stage = "woken"] ELSE call[e][d]
  OBVIOUS
<1>8. \A r \in CallSet : /\ [r EXCEPT !.stage = "woken"] \in CallSet
                         /\ [r EXCEPT !.stage = "woken"].stage = "woken"
                         /\ [r EXCEPT !.stage = "woken"].frame = r.frame
  BY DEF CallSet
<1>9. /\ \A d \in Coroutines : k(d) \in CallSet
      /\ \A d \in Coroutines \ {c} :
           /\ k(d).frame = call[e][d].frame
           /\ k(d).stage = IF Waits(e, d) THEN "woken" ELSE call[e][d].stage
  BY <1>1, <1>7, <1>8, NoCallFacts
<1> HIDE DEF k
<1>10. m \in [Coroutines -> CallSet] /\ \A d \in Coroutines : m[d] = k(d)
  BY <1>9, Zenon
<1> HIDE DEF m
<1>11. /\ call' \in [Engines -> [Coroutines -> CallSet]] /\ call'[e] = m
       /\ \A q \in Engines \ {e} : call'[q] = call[q]
  BY <1>1, <1>3, <1>10
<1>12. /\ waiting' \in [Engines -> Seq(Coroutines)] /\ waiting'[e] = Tail(w)
       /\ \A q \in Engines \ {e} : waiting'[q] = waiting[q]
  BY <1>1, <1>2, <1>4, OneWaiting, Zenon
<1>13. /\ call'[e][c] = NoCall
       /\ \A d \in Coroutines \ {c} :
           /\ call'[e][d].frame = call[e][d].frame
           /\ call'[e][d].stage = IF Waits(e, d) THEN "woken" ELSE call[e][d].stage
  BY <1>4, <1>7, <1>9, <1>10, <1>11
<1>14. Woken(e, c)
  BY <1>0, <1>2, <1>12, <1>13, Zenon DEF Woken
<1>15. ~Active(e, c)'
  BY <1>13, NoCallFacts, Zenon DEF Active
<1>16. CallsShrink(e)
  <2> SUFFICES ASSUME NEW d \in Coroutines, Active(e, d)'
               PROVE  Active(e, d) /\ call'[e][d].frame = call[e][d].frame
    BY DEF CallsShrink
  <2>1. d # c
    BY <1>15
  <2> QED
    BY <1>6, <1>13, <2>1, Zenon DEF Active
<1>17. \A i \in DOMAIN Tail(w) : Tail(w)[i] \in Coroutines \ {c} /\ Waits(e, Tail(w)[i])
  <2> SUFFICES ASSUME NEW i \in DOMAIN Tail(w)
               PROVE  Tail(w)[i] \in Coroutines \ {c} /\ Waits(e, Tail(w)[i])
    OBVIOUS
  <2>1. i + 1 \in DOMAIN w /\ i + 1 # 1 /\ Tail(w)[i] = w[i + 1]
    BY <1>4
  <2>2. w[i + 1] # w[1] /\ w[i + 1] \in Coroutines
    <3>1. \A a, b \in DOMAIN w : a # b => w[a] # w[b]
      BY <1>1, Zenon DEF CallsOK
    <3>2. w[i + 1] \in Coroutines
      BY <1>1, <2>1
    <3> QED
      BY <1>4, <2>1, <3>1, <3>2, Zenon
  <2> QED
    BY <1>4, <2>1, <2>2, Zenon DEF Waits
<1>18. \A i \in DOMAIN Tail(w) : call'[e][Tail(w)[i]].stage \in {"wait", "woken"}
  BY <1>13, <1>17, Zenon
<1>19. \A i, j \in DOMAIN Tail(w) : i # j => Tail(w)[i] # Tail(w)[j]
  <2> SUFFICES ASSUME NEW i \in DOMAIN Tail(w), NEW j \in DOMAIN Tail(w), i # j
               PROVE  Tail(w)[i] # Tail(w)[j]
    OBVIOUS
  <2>1. i + 1 \in DOMAIN w /\ j + 1 \in DOMAIN w /\ i + 1 # j + 1
        /\ Tail(w)[i] = w[i + 1] /\ Tail(w)[j] = w[j + 1]
    BY <1>4
  <2> QED
    BY <1>1, <2>1, Zenon DEF CallsOK
<1>20. CallsGoOn(e)
  BY <1>11, <1>12, <1>16, <1>18, <1>19, Zenon DEF CallsGoOn
<1>21. Sends(e, c, eng[e])
  BY <1>1, <1>2, <1>4, <1>5, SentFacts, Zenon
<1> QED
  BY <1>2, <1>4, <1>5, <1>14, <1>15, <1>20, <1>21, Zenon

LEMMA FWake ==
    ASSUME FInv, NEW e \in Engines, Wake(e)
    PROVE  FInv'
<1>1. PICK c \in Coroutines :
             /\ Woken(e, c) /\ Active(e, c) /\ ~Active(e, c)' /\ CallsGoOn(e)
             /\ Sends(e, c, eng[e]) /\ inbox' = inbox
  BY WakeShape
<1>2. Resembles(eng[e], eng[e])
  BY DEF Resembles, SameFile, Keeps, FInv, FType
<1> QED
  BY <1>1, <1>2, FSend

\* The channel of engine e closes under its waiting coroutines.
Shuts(e) ==
    /\ up'[e] = "closed" /\ waiting'[e] = <<>>
    /\ \A d \in Coroutines : call'[e][d] = IF Waits(e, d) THEN NoCall ELSE call[e][d]
    /\ SameSent(eng[e], eng'[e])
    /\ pos' \in Later => pos \in Later

LEMMA CloseShape ==
    ASSUME FInv, NEW e \in Engines, ChannelCloses(e)
    PROVE  Ends(e) /\ CallsGoOn(e) /\ Shuts(e)
<1> DEFINE x0 == eng[e]
           x == Failed(x0)
           y == IF Waits(e, "loop") THEN LoopFailed(x) ELSE x
           z == IF Waits(e, "cancel") THEN Disposed(y) ELSE y
           v == IF x0.state = "idle" THEN x0 ELSE z
           m == [c \in Coroutines |-> IF Waits(e, c) THEN NoCall ELSE call[e][c]]
<1>1. /\ FType /\ CallsOK(e) /\ x0 \in EngineSet /\ pos \in Positions
      /\ call[e] \in [Coroutines -> CallSet] /\ waiting[e] \in Seq(Coroutines)
      /\ call \in [Engines -> [Coroutines -> CallSet]]
      /\ up \in [Engines -> {"open", "closing", "closed"}]
  BY DEF FInv, FType
<1>2. /\ up' = [up EXCEPT ![e] = "closed"] /\ UNCHANGED <<chan, buffered, inbox>>
      /\ waiting' = [waiting EXCEPT ![e] = <<>>]
      /\ pos' = IF Waits(e, "file") THEN "error" ELSE FailPos(e, pos)
      /\ call' = [call EXCEPT ![e] = m]
  BY DEF ChannelCloses
<1>3. eng' = [eng EXCEPT ![e] = v]
  BY ZenonT(60) DEF ChannelCloses, Disposed
<1>4. /\ x \in EngineSet /\ SameSent(x0, x) /\ SameFile(x0, x) /\ Softer(x0, x)
      /\ x.loop = x0.loop /\ x.cleanup = x0.cleanup
  BY <1>1, FailedFacts
<1> HIDE DEF x
<1>5. /\ y \in EngineSet /\ SameSent(x0, y) /\ SameFile(x0, y) /\ Softer(x0, y)
      /\ y.loop = (IF Waits(e, "loop") THEN "idle" ELSE x0.loop) /\ y.cleanup = x0.cleanup
  <2>1. CASE ~Waits(e, "loop")
    BY <1>4, <2>1
  <2>2. CASE Waits(e, "loop")
    <3> DEFINE l == LoopFailed(x)
    <3>1. /\ l \in EngineSet /\ SameSent(x, l) /\ SameFile(x, l) /\ Softer(x, l)
          /\ l.loop = "idle" /\ l.cleanup = x.cleanup
      BY <1>4, LoopFailedFacts, Zenon
    <3> HIDE DEF l
    <3>2. SameSent(x0, l) /\ SameFile(x0, l) /\ Softer(x0, l)
      BY <1>4, <3>1 DEF SameSent, SameFile, Keeps, Softer
    <3>3. y = l
      BY <2>2 DEF l
    <3> QED
      BY <1>4, <2>2, <3>1, <3>2, <3>3, Zenon
  <2> QED
    BY <2>1, <2>2, Zenon
<1> HIDE DEF y
<1>6. /\ z \in EngineSet /\ SameSent(x0, z) /\ SameFile(x0, z) /\ Softer(x0, z)
      /\ z.loop = y.loop /\ (~Waits(e, "cancel") => z.cleanup = x0.cleanup)
  <2>1. CASE ~Waits(e, "cancel")
    BY <1>5, <2>1, Zenon
  <2>2. CASE Waits(e, "cancel")
    <3> DEFINE l == Disposed(y)
    <3>1. /\ l \in EngineSet /\ SameSent(y, l) /\ SameFile(y, l) /\ Softer(y, l)
          /\ l.loop = y.loop
      BY <1>5, DisposedFacts, Zenon
    <3> HIDE DEF l
    <3>2. SameSent(x0, l) /\ SameFile(x0, l) /\ Softer(x0, l)
      BY <1>5, <3>1 DEF SameSent, SameFile, Keeps, Softer
    <3>3. z = l
      BY <2>2 DEF l
    <3> QED
      BY <1>5, <2>2, <3>1, <3>2, <3>3, Zenon
  <2> QED
    BY <2>1, <2>2, Zenon
<1> HIDE DEF z
<1>7. /\ v \in EngineSet /\ SameSent(x0, v) /\ SameFile(x0, v) /\ Softer(x0, v)
      /\ v.loop = x0.loop \/ (v.loop = "idle" /\ Waits(e, "loop"))
      /\ ~Waits(e, "cancel") => v.cleanup = x0.cleanup
  BY <1>1, <1>5, <1>6, SameEngine, Zenon
<1> HIDE DEF v
<1>8. /\ eng' \in [Engines -> EngineSet] /\ eng'[e] = v
      /\ \A q \in Engines \ {e} : eng'[q] = eng[q]
  BY <1>1, <1>3, <1>7, OneEngine, Zenon
<1>9. /\ m \in [Coroutines -> CallSet]
      /\ \A d \in Coroutines : m[d] = IF Waits(e, d) THEN NoCall ELSE call[e][d]
  BY <1>1, NoCallFacts
<1> HIDE DEF m
<1>10. /\ call' \in [Engines -> [Coroutines -> CallSet]] /\ call'[e] = m
       /\ \A q \in Engines \ {e} : call'[q] = call[q]
  BY <1>1, <1>2, <1>9
<1>11. /\ waiting' \in [Engines -> Seq(Coroutines)] /\ waiting'[e] = <<>>
       /\ \A q \in Engines \ {e} : waiting'[q] = waiting[q]
  BY <1>1, <1>2, EmptyFacts, OneWaiting, Zenon
<1>12. /\ up' \in [Engines -> {"open", "closing", "closed"}] /\ up'[e] = "closed"
       /\ \A q \in Engines \ {e} : up'[q] = up[q]
  BY <1>1, <1>2
<1>13. pos' \in Positions /\ (pos' \in Later => pos \in Later)
  <2>1. CASE Waits(e, "file")
    BY <1>2, <2>1 DEF Positions, Later, Contents
  <2>2. CASE ~Waits(e, "file")
    BY <1>1, <1>2, <2>2, PosFacts, Zenon
  <2> QED
    BY <2>1, <2>2
<1>14. CallsShrink(e)
  BY <1>9, <1>10, NoCallFacts, Zenon DEF CallsShrink, Active
<1>15. CallsGoOn(e)
  BY <1>10, <1>11, <1>14 DEF CallsGoOn
<1>16. \A d \in Coroutines : Waits(e, d) => ~Active(e, d)'
  BY <1>9, <1>10, NoCallFacts DEF Active
<1>17. Ends(e)
  <2>1. "loop" \in Coroutines /\ "cancel" \in Coroutines
    BY DEF Coroutines
  <2>2. eng'[e].loop = eng[e].loop \/ (eng'[e].loop = "idle" /\ ~Active(e, "loop")')
    BY <1>7, <1>8, <1>16, <2>1, Zenon
  <2>3. Active(e, "cancel")' => eng'[e].cleanup = eng[e].cleanup
    BY <1>7, <1>8, <1>16, <2>1, Zenon
  <2> QED
    BY <1>2, <1>7, <1>8, <1>12, <1>13, <2>2, <2>3, Zenon DEF Ends, SameSent
<1>18. Shuts(e)
  BY <1>7, <1>8, <1>9, <1>10, <1>11, <1>12, <1>13, Zenon DEF Shuts
<1> QED
  BY <1>15, <1>17, <1>18, Zenon

-----------------------------------------------------------------------------
(* The theorems *)

LEMMA FInit1 ==
    ASSUME FInit
    PROVE  FInv
<1>1. NewEngine \in EngineSet
  BY NoFile, Zenon DEF NewEngine, EngineSet, States, TerminalStates, FrameTypes
<1>2. /\ NewEngine.state = "idle" /\ ~NewEngine.sentConf /\ NewEngine.loop = "idle"
  BY DEF NewEngine
<1> HIDE DEF NewEngine
<1>3. \A e \in Engines :
        /\ eng[e] = NewEngine /\ waiting[e] = <<>> /\ chan[e] = <<>> /\ inbox[e] = <<>>
        /\ buffered[e] = 0 /\ \A c \in Coroutines : call[e][c] = NoCall
  BY DEF FInit
<1>4. FType
  BY <1>1, NoCallFacts, EmptyFacts DEF FInit, FType, Positions
<1>5. \A e \in Engines : \A c \in Coroutines : ~Active(e, c)
  BY <1>3, NoCallFacts, ZenonT(60) DEF Active
<1>6. \A e \in Engines : CallsOK(e)
  BY <1>2, <1>3, <1>5 DEF CallsOK, Coroutines
<1>7. \A e \in Engines : NoncesOK(e)
  BY <1>3, <1>5, EmptyFacts, PeerFacts, Zenon DEF NoncesOK
<1>8. DeliveredOK
  BY <1>2, <1>3, EmptyFacts, Zenon DEF DeliveredOK, Engines
<1> QED
  BY <1>4, <1>6, <1>7, <1>8, Zenon DEF FInv

LEMMA FNext1 ==
    ASSUME FInv, [FNext]_fvars
    PROVE  FInv'
<1>t. "confirm" \in FrameTypes /\ "accept" \in FrameTypes /\ "receipt" \in FrameTypes
      /\ "cancel" \in FrameTypes /\ "start" \in Coroutines /\ "accept" \in Coroutines
      /\ "loop" \in Coroutines /\ "cancel" \in Coroutines /\ "file" \in Coroutines
      /\ "sender" \in Engines /\ "recipient" \in Engines
  BY DEF FrameTypes, Coroutines, Engines
<1>1. ASSUME NEW e \in Engines, Create(e) PROVE FInv'
  BY <1>1, <1>t, CreateShape, FBegin
<1>2. ASSUME NEW e \in Engines, Wake(e) PROVE FInv'
  BY <1>2, FWake
<1>3. ASSUME NEW e \in Engines, Deliver(e) PROVE FInv'
  BY <1>3, DeliverShape, PeerFacts, FMove
<1>4. ASSUME NEW e \in Engines, Handle(e) PROVE FInv'
  BY <1>4, HandleShape, FTake, FEase
<1>5. ASSUME NEW e \in Engines, Verified(e) PROVE FInv'
  BY <1>5, <1>t, VerifiedShape, FBegin, FEase, Zenon
<1>6. ASSUME NEW e \in Engines, SendTerminalFrame(e) PROVE FInv'
  BY <1>6, <1>t, TerminalFrameShape, FBegin, FEase
<1>7. ASSUME NEW e \in Engines, NEW c \in Coroutines, Encrypted(e, c) PROVE FInv'
  BY <1>7, FEncrypted
<1>8. ASSUME NEW e \in Engines, Cancel(e) PROVE FInv'
  BY <1>8, CancelShape, FEase
<1>9. ASSUME NEW e \in Engines, Leave(e) PROVE FInv'
  BY <1>9, LeaveShape, FEase
<1>10. ASSUME NEW e \in Engines, Damage(e) PROVE FInv'
  BY <1>10, DamageShape, FMove
<1>11. ASSUME NEW e \in Engines, ChannelCloses(e) PROVE FInv'
  BY <1>11, CloseShape, FEnd
<1>12. ASSUME SendNext PROVE FInv'
  BY <1>12, <1>t, SendNextShape, SendNextFails, FBegin, FEase, Zenon
<1>13. ASSUME SendFile \/ ReadSliceFails PROVE FInv'
  BY <1>13, <1>t, SendFileShape, FEase
<1>14. ASSUME Accept PROVE FInv'
  BY <1>14, <1>t, AcceptShape, FBegin, FEase
<1>15. ASSUME UNCHANGED fvars PROVE FInv'
  <2>1. UNCHANGED <<eng, call, waiting, chan, buffered, inbox, up, pos>>
    BY <1>15, Zenon DEF fvars
  <2>2. Eases("sender")
    BY <2>1, SameEngine DEF Eases, FType, FInv
  <2> QED
    BY <1>t, <2>2, FEase
<1> QED
  BY <1>1, <1>2, <1>3, <1>4, <1>5, <1>6, <1>7, <1>8, <1>9, <1>10, <1>11, <1>12, <1>13, <1>14,
     <1>15, ZenonT(60) DEF FNext, Run

\* Whatever coroutines run between each other's awaits, no two frames of an
\* engine carry the same counter, and none carries one that FrameCounter has
\* yet to hand out.
THEOREM NonceTheorem == FSpec => []NonceOnce
<1>1. FInv => NonceOnce
  <2> SUFFICES ASSUME FInv, NEW e \in Engines
               PROVE  /\ \A f, g \in InFlight(e) :
                           f.n = g.n => [f EXCEPT !.ok = TRUE] = [g EXCEPT !.ok = TRUE]
                      /\ \A f \in InFlight(e) : f.n < eng[e].sendCtr
    BY DEF NonceOnce
  <2>1. NoncesOK(e)
    BY DEF FInv
  <2>2. \A f \in InFlight(e) :
          \/ \E c \in Coroutines : Active(e, c) /\ f = call[e][c].frame
          \/ \E i \in DOMAIN chan[e] : f = chan[e][i]
          \/ \E i \in DOMAIN inbox[Peer(e)] : f = inbox[Peer(e)][i]
    BY DEF InFlight, Active
  <2>3. \A f \in InFlight(e) : f.n < eng[e].sendCtr
    <3>1. /\ \A c \in Coroutines : Active(e, c) => call[e][c].frame.n < eng[e].sendCtr
          /\ \A n \in Numbers(chan[e]) : n < eng[e].sendCtr
          /\ \A n \in Numbers(inbox[Peer(e)]) : n < eng[e].sendCtr
      BY <2>1, Zenon DEF NoncesOK
    <3>2. /\ \A i \in DOMAIN chan[e] : chan[e][i].n \in Numbers(chan[e])
          /\ \A i \in DOMAIN inbox[Peer(e)] : inbox[Peer(e)][i].n \in Numbers(inbox[Peer(e)])
      BY Zenon DEF Numbers
    <3> QED
      BY <2>2, <3>1, <3>2, Zenon
  <2>4. \A f, g \in InFlight(e) : f.n = g.n => f = g
    <3> SUFFICES ASSUME NEW f \in InFlight(e), NEW g \in InFlight(e), f.n = g.n PROVE f = g
      BY Zenon
    <3> DEFINE carried == Numbers(chan[e])
               arrived == Numbers(inbox[Peer(e)])
    <3>a. /\ \A c \in Coroutines : Active(e, c) =>
                call[e][c].frame.n \notin carried /\ call[e][c].frame.n \notin arrived
          /\ \A c, d \in Coroutines :
                Active(e, c) /\ Active(e, d) /\ call[e][c].frame.n = call[e][d].frame.n => c = d
      BY <2>1, Zenon DEF NoncesOK
    <3>b. /\ \A i, j \in DOMAIN chan[e] : chan[e][i].n = chan[e][j].n => i = j
          /\ \A i, j \in DOMAIN inbox[Peer(e)] : inbox[Peer(e)][i].n = inbox[Peer(e)][j].n => i = j
          /\ \A n \in carried : n \notin arrived
      BY <2>1, Zenon DEF NoncesOK, NoRepeat
    <3>c. /\ \A i \in DOMAIN chan[e] : chan[e][i].n \in carried
          /\ \A i \in DOMAIN inbox[Peer(e)] : inbox[Peer(e)][i].n \in arrived
      BY Zenon DEF Numbers
    <3> HIDE DEF carried, arrived
    <3>1. CASE \E c \in Coroutines : Active(e, c) /\ f = call[e][c].frame
      <4>1. PICK c \in Coroutines : Active(e, c) /\ f = call[e][c].frame
        BY <3>1, Zenon
      <4>2. \A k \in DOMAIN chan[e] : g # chan[e][k]
        BY <3>a, <3>b, <3>c, <4>1, Zenon
      <4>3. \A k \in DOMAIN inbox[Peer(e)] : g # inbox[Peer(e)][k]
        BY <3>a, <3>b, <3>c, <4>1, Zenon
      <4>4. PICK d \in Coroutines : Active(e, d) /\ g = call[e][d].frame
        BY <2>2, <4>2, <4>3, Zenon
      <4> QED
        BY <3>a, <4>1, <4>4, Zenon
    <3>2. CASE \E i \in DOMAIN chan[e] : f = chan[e][i]
      <4>1. PICK i \in DOMAIN chan[e] : f = chan[e][i]
        BY <3>2, Zenon
      <4>2. \A d \in Coroutines : Active(e, d) => g # call[e][d].frame
        BY <3>a, <3>b, <3>c, <4>1, Zenon
      <4>3. \A k \in DOMAIN inbox[Peer(e)] : g # inbox[Peer(e)][k]
        BY <3>a, <3>b, <3>c, <4>1, Zenon
      <4>4. PICK j \in DOMAIN chan[e] : g = chan[e][j]
        BY <2>2, <4>2, <4>3, Zenon
      <4> QED
        BY <3>b, <4>1, <4>4, Zenon
    <3>3. CASE \E i \in DOMAIN inbox[Peer(e)] : f = inbox[Peer(e)][i]
      <4>1. PICK i \in DOMAIN inbox[Peer(e)] : f = inbox[Peer(e)][i]
        BY <3>3, Zenon
      <4>2. \A d \in Coroutines : Active(e, d) => g # call[e][d].frame
        BY <3>a, <3>b, <3>c, <4>1, Zenon
      <4>3. \A k \in DOMAIN chan[e] : g # chan[e][k]
        BY <3>a, <3>b, <3>c, <4>1, Zenon
      <4>4. PICK j \in DOMAIN inbox[Peer(e)] : g = inbox[Peer(e)][j]
        BY <2>2, <4>2, <4>3, ZenonT(60)
      <4> QED
        BY <3>b, <4>1, <4>4, Zenon
    <3> QED
      BY <2>2, <3>1, <3>2, <3>3, Zenon
  <2> QED
    BY <2>3, <2>4, Zenon
<1> QED
  BY <1>1, FInit1, FNext1, PTL DEF FSpec

\* A sender that shows "completed", or has the receipt on its way to it, has a
\* recipient that was shown the whole file by handleComplete() and holds it
\* until its own page disposes of the engine.
THEOREM ReceiptTheorem == FSpec => []ReceiptMeansDelivered
<1>1. FInv => ReceiptMeansDelivered
  <2> SUFFICES ASSUME FInv,
                      \/ eng["sender"].state = "completed"
                      \/ \E f \in InFlight("recipient") : f.type = "receipt" /\ f \notin
                            {call["recipient"][c].frame : c \in Coroutines}
               PROVE  Held(eng["recipient"])
    BY DEF ReceiptMeansDelivered, Held
  <2>1. DeliveredOK /\ Peer("recipient") = "sender"
    BY DEF FInv, Peer
  <2>2. CASE eng["sender"].state = "completed"
    BY <2>1, <2>2, Zenon DEF DeliveredOK
  <2>3. ASSUME NEW f \in InFlight("recipient"), f.type = "receipt",
               f \notin {call["recipient"][c].frame : c \in Coroutines}
        PROVE  Held(eng["recipient"])
    <3>1. \/ \E i \in DOMAIN chan["recipient"] : f = chan["recipient"][i]
          \/ \E i \in DOMAIN inbox["sender"] : f = inbox["sender"][i]
      BY <2>1, <2>3, Zenon DEF InFlight
    <3>2. Carries(chan["recipient"], {"receipt"}) \/ Carries(inbox["sender"], {"receipt"})
      BY <2>3, <3>1 DEF Carries
    <3> QED
      BY <2>1, <3>2, Zenon DEF DeliveredOK
  <2> QED
    BY <2>2, <2>3
<1> QED
  BY <1>1, FInit1, FNext1, PTL DEF FSpec

-----------------------------------------------------------------------------
(* Backpressure *)

EngineOK(e) == StartOK(e) /\ OneWorker(e) /\ WokenOK(e)

LEMMA NothingAfterCancel ==
    ASSUME NEW type, SequenceTypeAllowed("cancel", type)
    PROVE  type = "cancel"
  BY ZenonT(60) DEF SequenceTypeAllowed

LEMMA EngineSame ==
    ASSUME NEW q \in Engines, EngineOK(q), eng'[q] = eng[q], call'[q] = call[q],
           waiting'[q] = waiting[q], chan'[q] = chan[q], buffered'[q] = buffered[q], up'[q] = up[q]
    PROVE  EngineOK(q)'
  BY DEF EngineOK, StartOK, OneWorker, WokenOK, Active

\* What the invariant says of a coroutine with a frame under way.
LEMMA WorkerFacts ==
    ASSUME FInv, PressInv, NEW e \in Engines, NEW c \in Coroutines, Active(e, c)
    PROVE  /\ c # "start" <=> eng[e].sentConf
           /\ c = "start" => call[e][c].stage = "encrypt" /\ chan[e] = <<>>
           /\ \A d \in Workers : c \in Workers /\ Active(e, d) => c = d
           /\ c \in Workers => call[e]["cancel"].stage # "woken"
  BY Zenon DEF PressInv, StartOK, OneWorker, WokenOK, Coroutines, Workers

\* A frame leaves the encryption: no other worker is waiting before it.
LEMMA LastSent ==
    ASSUME FInv, PressInv, NEW e \in Engines, NEW c \in Coroutines, call[e][c].stage = "encrypt",
           NEW i \in DOMAIN waiting[e], i # 1, waiting[e][i] = "cancel"
    PROVE  FALSE
<1>1. CallsOK(e) /\ waiting[e] \in Seq(Coroutines) /\ OneWorker(e)
  BY Zenon DEF FInv, FType, PressInv
<1>2. 1 \in DOMAIN waiting[e] /\ waiting[e][1] \in Coroutines /\ waiting[e][1] # "cancel"
  <2>1. DOMAIN waiting[e] = 1..Len(waiting[e]) /\ Len(waiting[e]) \in Nat
    BY <1>1
  <2>2. 1 \in DOMAIN waiting[e]
    BY <2>1
  <2> QED
    <3>1. waiting[e][1] \in Coroutines
      BY <1>1, <2>2
    <3>2. waiting[e][1] # waiting[e][i]
      BY <1>1, <2>2, Zenon DEF CallsOK
    <3> QED
      BY <2>2, <3>1, <3>2, ZenonT(60)
<1>3. /\ call[e][waiting[e][1]].stage \in {"wait", "woken"}
      /\ call[e]["cancel"].stage \in {"wait", "woken"}
  BY <1>1, <1>2, Zenon DEF CallsOK
<1>4. c \in Workers /\ waiting[e][1] \in Workers /\ c # waiting[e][1]
  BY <1>2, <1>3, Zenon DEF Workers
<1>5. Active(e, c) /\ Active(e, waiting[e][1])
  BY <1>3 DEF Active
<1> QED
  BY <1>1, <1>4, <1>5, Zenon DEF OneWorker

LEMMA PBegin ==
    ASSUME FInv, PressInv, NEW e \in Engines, NEW c \in Coroutines, NEW type \in FrameTypes,
           Begins(e, c, type)
    PROVE  PressInv'
<1>1. /\ FType /\ CallsOK(e) /\ (\A q \in Engines : EngineOK(q)) /\ AcceptedOK
  BY DEF FInv, PressInv, EngineOK
<1>2. /\ ~Active(e, c) /\ call'[e][c].stage = "encrypt" /\ call'[e][c].frame.type = type
      /\ \A d \in Coroutines \ {c} : call'[e][d] = call[e][d]
      /\ waiting' = waiting /\ chan' = chan /\ buffered' = buffered /\ inbox' = inbox /\ up' = up /\ pos' = pos
      /\ eng'[e].sentConf = eng[e].sentConf /\ eng'[e].sentType = eng[e].sentType
      /\ eng'[e].acceptSent = eng[e].acceptSent /\ eng'[e].manifest = eng[e].manifest
      /\ \A q \in Engines \ {e} : eng'[q] = eng[q] /\ call'[q] = call[q]
  BY Zenon DEF Begins
<1>3. /\ type = "confirm" <=> c = "start"
      /\ type = "cancel" <=> c = "cancel"
      /\ c = "file" => e = "sender"
      /\ c \in {"accept", "loop"} => e = "recipient"
      /\ type \in Contents => c = "file"
  BY DEF Begins, TypesOf, Contents, Coroutines
<1>4. c = "start" => ~eng[e].sentConf /\ \A d \in Coroutines : ~Active(e, d)
  BY <1>1, Zenon DEF Begins, CallsOK
<1>5. c # "start" => eng[e].sentConf /\ SequenceTypeAllowed(eng[e].sentType, type)
  BY <1>3, Zenon DEF Begins, MaySend
<1>6. c # "start" => ~Active(e, "start")
  BY <1>1, <1>5, Zenon DEF EngineOK, StartOK
<1>7. c \in Workers => \A d \in Workers : ~Active(e, d)
  <2>1. CASE c = "start"
    BY <1>4, <2>1 DEF Workers
  <2>2. CASE c = "file"
    <3>1. \A d \in Coroutines : Active("sender", d) => d # "accept" /\ d # "loop"
      BY LoopFrames, Zenon DEF Engines
    <3> QED
      BY <1>2, <1>3, <1>6, <2>2, <3>1, Zenon DEF Workers, Coroutines
  <2>3. CASE c = "accept"
    <3>1. \A d \in Coroutines : Active("recipient", d) => d # "file"
      BY LoopFrames, Zenon DEF Engines
    <3>2. ~eng[e].acceptSent
      BY <2>3, Zenon DEF Begins
    <3>3. ~Active(e, "loop")
      <4>1. Active(e, "loop") => eng[e].loop = "receipt"
        BY <1>1 DEF CallsOK
      <4>2. eng[e].loop # "idle" => eng[e].acceptSent
        BY <1>1, <1>3, <2>3, Zenon DEF AcceptedOK, Onward, Accepted
      <4> QED
        BY <3>2, <4>1, <4>2, ZenonT(60)
    <3> QED
      BY <1>2, <1>3, <1>6, <2>3, <3>1, <3>3, Zenon DEF Workers, Coroutines
  <2>4. CASE c = "loop"
    <3>1. \A d \in Coroutines : Active("recipient", d) => d # "file"
      BY LoopFrames DEF Engines
    <3>2. ~Active(e, "accept")
      <4>1. eng[e].loop = "verify"
        BY <2>4, Zenon DEF Begins
      <4> QED
        BY <1>1, <1>3, <2>4, <4>1, Zenon DEF AcceptedOK, Onward, Accepted
    <3> QED
      BY <1>2, <1>3, <1>6, <2>4, <3>1, <3>2, ZenonT(60) DEF Workers, Coroutines
  <2> QED
    BY <2>1, <2>2, <2>3, <2>4, Zenon DEF Workers, Coroutines
<1>8. StartOK(e)'
  <2>1. ~eng'[e].sentConf => /\ chan'[e] = <<>> /\ buffered'[e] = 0
                             /\ \A d \in Coroutines \ {"start"} : ~Active(e, d)'
    BY <1>1, <1>2, <1>5, ZenonT(60) DEF EngineOK, StartOK, Active
  <2>2. Active(e, "start")' => ~eng'[e].sentConf /\ call'[e]["start"].stage = "encrypt"
    BY <1>1, <1>2, <1>4, <1>6, Zenon DEF EngineOK, StartOK, Active, Coroutines
  <2> QED
    BY <2>1, <2>2 DEF StartOK
<1>9. OneWorker(e)'
  <2> SUFFICES ASSUME NEW d \in Workers, NEW w \in Workers, Active(e, d)', Active(e, w)'
               PROVE  d = w
    BY ZenonT(60) DEF OneWorker
  <2>1. \A u \in Workers : u # c /\ Active(e, u)' => Active(e, u)
    BY <1>2, ZenonT(60) DEF Active, Workers
  <2> QED
    BY <1>1, <1>7, <2>1 DEF EngineOK, OneWorker
<1>10. WokenOK(e)'
  <2>1. \A i \in DOMAIN waiting'[e] : i # 1 /\ waiting'[e][i] = "cancel" => eng'[e].sentType = "cancel"
    BY <1>1, <1>2, Zenon DEF EngineOK, WokenOK
  <2>2. ASSUME call'[e]["cancel"].stage = "woken"
        PROVE  /\ eng'[e].sentType = "cancel" /\ buffered'[e] <= Low + MaxFrame
               /\ \A d \in Workers : ~Active(e, d)'
    <3>1. c # "cancel" /\ call[e]["cancel"] = call'[e]["cancel"]
      BY <1>2, <2>2, Zenon DEF Coroutines
    <3>2. /\ eng[e].sentType = "cancel" /\ Active(e, "cancel")
      BY <1>1, <2>2, <3>1, ZenonT(60) DEF EngineOK, WokenOK, Active
    <3>3. c # "start"
      BY <1>4, <3>2 DEF Coroutines
    <3>4. type = "cancel"
      BY <1>5, <3>2, <3>3, NothingAfterCancel, ZenonT(60)
    <3> QED
      BY <1>3, <3>1, <3>4
  <2>3. \A d \in Workers : call'[e][d].stage = "woken" => up'[e] # "open"
    BY <1>1, <1>2, ZenonT(60) DEF EngineOK, WokenOK, Workers
  <2>4. buffered'[e] < High + MaxFrame
    BY <1>1, <1>2, Zenon DEF EngineOK, WokenOK
  <2> QED
    BY <2>1, <2>2, <2>3, <2>4, Zenon DEF WokenOK
<1>11. \A q \in Engines \ {e} : EngineOK(q)'
  BY <1>1, <1>2, EngineSame, Zenon
<1>12. AcceptedOK'
  <2>1. "sender" \in Engines /\ "recipient" \in Engines /\ "file" \in Coroutines
        /\ "accept" \in Coroutines
    BY DEF Engines, Coroutines
  <2>2. eng'["recipient"].manifest = eng["recipient"].manifest
    BY <1>2, <2>1, Zenon
  <2>3. eng'["recipient"].loop # "idle" => eng["recipient"].loop # "idle"
    BY <2>1, ZenonT(60) DEF Begins
  <2>4. Active("sender", "file")' /\ call'["sender"]["file"].frame.type \in Contents =>
          \/ pos \in Later
          \/ Active("sender", "file") /\ call["sender"]["file"].frame.type \in Contents
    <3>1. c = "file" /\ type \in Contents => pos \in Later
      BY Zenon DEF Begins
    <3>2. CASE e = "sender" /\ c = "file"
      BY <1>2, <3>1, <3>2, Zenon
    <3>3. CASE ~(e = "sender" /\ c = "file")
      <4>1. call'["sender"]["file"] = call["sender"]["file"]
        BY <1>2, <2>1, <3>3
      <4> QED
        BY <4>1, Zenon DEF Active
    <3> QED
      BY <3>2, <3>3
  <2>5. Onward' => Onward
    BY <1>2, <2>2, <2>3, <2>4, Zenon DEF Onward, Later, Contents
  <2>6. Accepted => Accepted'
    <3>1. c = "accept" => ~eng[e].acceptSent
      BY Zenon DEF Begins
    <3>2. CASE e = "recipient" /\ c = "accept"
      BY <3>1, <3>2, Zenon DEF Accepted
    <3>3. CASE ~(e = "recipient" /\ c = "accept")
      <4>1. /\ call'["recipient"]["accept"] = call["recipient"]["accept"]
            /\ eng'["recipient"].acceptSent = eng["recipient"].acceptSent
        BY <1>2, <2>1, <3>3, Zenon
      <4> QED
        BY <4>1 DEF Accepted, Active
    <3> QED
      BY <3>2, <3>3
  <2> QED
    BY <1>1, <2>5, <2>6 DEF AcceptedOK
<1> QED
  BY <1>8, <1>9, <1>10, <1>11, <1>12, Zenon DEF PressInv, EngineOK

LEMMA PEase ==
    ASSUME FInv, PressInv, NEW e \in Engines, Eases(e)
    PROVE  PressInv'
<1>1. /\ FType /\ (\A q \in Engines : EngineOK(q)) /\ AcceptedOK
  BY DEF FInv, PressInv, EngineOK
<1>2. EngineOK(e)'
  <2>1. /\ call' = call /\ waiting' = waiting /\ chan' = chan /\ buffered' = buffered
        /\ eng'[e].sentConf = eng[e].sentConf /\ eng'[e].sentType = eng[e].sentType
        /\ up[e] # "open" => up'[e] # "open"
    BY Zenon DEF Eases, SameSent
  <2> QED
    BY <1>1, <2>1, Zenon DEF EngineOK, StartOK, OneWorker, WokenOK, Active
<1>3. \A q \in Engines \ {e} : EngineOK(q)'
  BY <1>1, EngineSame, Zenon DEF Eases
<1>4. AcceptedOK'
  <2>1. "sender" \in Engines /\ "recipient" \in Engines
    BY DEF Engines
  <2>2. \A q \in Engines : /\ inbox'[q] = inbox[q] \/ inbox'[q] = <<>>
                           /\ eng'[q].manifest => eng[q].manifest
                           /\ eng'[q].loop # "idle" => eng[q].loop # "idle"
                           /\ eng'[q].acceptSent = eng[q].acceptSent
    BY ZenonT(60) DEF Eases, Softer, SameSent
  <2>3. \A q \in Engines : \A types : Carries(inbox'[q], types) => Carries(inbox[q], types)
    BY <2>2, EmptyFacts, Zenon
  <2>4. call' = call /\ chan' = chan /\ (pos' \in Later => pos \in Later)
    BY DEF Eases
  <2>5. Onward' => Onward
    BY <2>1, <2>2, <2>3, <2>4, Zenon DEF Onward, Later, Active, Contents
  <2>6. Accepted => Accepted'
    BY <2>1, <2>2, <2>4 DEF Accepted, Active
  <2> QED
    BY <1>1, <2>5, <2>6 DEF AcceptedOK
<1> QED
  BY <1>2, <1>3, <1>4 DEF PressInv, EngineOK

LEMMA PTake ==
    ASSUME FInv, PressInv, NEW e \in Engines, NEW f, Takes(e, f)
    PROVE  PressInv'
<1>1. /\ FType /\ (\A q \in Engines : EngineOK(q)) /\ AcceptedOK
  BY Zenon DEF FInv, PressInv, EngineOK
<1>2. EngineOK(e)'
  <2>1. /\ call' = call /\ waiting' = waiting /\ chan' = chan /\ buffered' = buffered /\ up' = up
        /\ eng'[e].sentConf = eng[e].sentConf /\ eng'[e].sentType = eng[e].sentType
    BY DEF Takes, TakenFrame, SameSent
  <2> QED
    BY <1>1, <2>1, ZenonT(60) DEF EngineOK, StartOK, OneWorker, WokenOK, Active
<1>3. \A q \in Engines \ {e} : EngineOK(q)'
  BY <1>1, EngineSame, Zenon DEF Takes
<1>4. AcceptedOK'
  <2>1. "sender" \in Engines /\ "recipient" \in Engines /\ "sender" # "recipient"
    BY Zenon DEF Engines
  <2>2. call' = call /\ chan' = chan
    BY DEF Takes
  <2>3. /\ inbox[e] \in Seq(FrameSet) /\ inbox[e] # <<>> /\ f = Head(inbox[e])
        /\ inbox'[e] = Tail(inbox[e]) /\ \A q \in Engines \ {e} : inbox'[q] = inbox[q]
    BY <1>1, ZenonT(60) DEF FType, Takes
  <2>4. \A q \in Engines : \A types : Carries(inbox'[q], types) => Carries(inbox[q], types)
    BY <2>3, TailFacts, SMTT(20)
  <2>5. \A types : f.type \in types => Carries(inbox[e], types)
    BY <2>3, TailFacts, ZenonT(60)
  <2>6. pos' \in Later => pos \in Later \/ Carries(inbox["sender"], {"accept"})
    BY <2>5 DEF Takes
  <2>7. eng'["recipient"].manifest =>
          eng["recipient"].manifest \/ Carries(inbox["recipient"], Contents)
    BY <2>1, <2>5, Zenon DEF Takes, TakenFrame, Contents
  <2>8. eng'["recipient"].loop # "idle" =>
          eng["recipient"].loop # "idle" \/ Carries(inbox["recipient"], Contents)
    BY <2>1, <2>5, Zenon DEF Takes, TakenFrame, Contents
  <2>9. Onward' => Onward
    BY <2>1, <2>2, <2>4, <2>6, <2>7, <2>8, ZenonT(60) DEF Onward, Later, Active, Contents
  <2>10. Accepted => Accepted'
    BY <2>1, <2>2, Zenon DEF Accepted, Active, Takes, TakenFrame, SameSent
  <2> QED
    BY <1>1, <2>9, <2>10 DEF AcceptedOK
<1> QED
  BY <1>2, <1>3, <1>4 DEF PressInv, EngineOK

LEMMA MoveCarries ==
    ASSUME FInv, NEW e \in Engines, Moves(e), NEW types,
           Carries(chan'[e], types) \/ Carries(inbox'[Peer(e)], types)
    PROVE  Carries(chan[e], types) \/ Carries(inbox[Peer(e)], types)
<1>p. /\ Peer(e) \in Engines /\ chan[e] \in Seq(FrameSet) /\ inbox[Peer(e)] \in Seq(FrameSet)
      /\ chan[e] # <<>>
  BY PeerFacts DEF FInv, FType, Moves
<1>1. CASE chan'[e] = [chan[e] EXCEPT ![1].ok = FALSE] /\ inbox' = inbox
  <2> DEFINE t == [chan[e] EXCEPT ![1].ok = FALSE]
  <2>1. Carries(t, types) => Carries(chan[e], types)
    BY <1>p, DamageFacts, Zenon
  <2>2. chan'[e] = t
    BY <1>1
  <2> HIDE DEF t
  <2> QED
    BY <1>1, <2>1, <2>2
<1>2. CASE chan'[e] = Tail(chan[e])
  <2>1. /\ Head(chan[e]) \in FrameSet
        /\ Carries(Tail(chan[e]), types) \/ Head(chan[e]).type \in types => Carries(chan[e], types)
    BY <1>p, TailFacts, Zenon
  <2>2. Carries(Append(inbox[Peer(e)], Head(chan[e])), types) =>
          Carries(inbox[Peer(e)], types) \/ Head(chan[e]).type \in types
    BY <1>p, <2>1, AppendFacts, Zenon
  <2>3. inbox'[Peer(e)] \in {inbox[Peer(e)], Append(inbox[Peer(e)], Head(chan[e]))}
    BY <1>2 DEF Moves
  <2> QED
    BY <1>2, <2>1, <2>2, <2>3, Zenon
<1> QED
  <2>1. \/ chan'[e] = Tail(chan[e])
        \/ chan'[e] = [chan[e] EXCEPT ![1].ok = FALSE] /\ inbox' = inbox
    BY DEF Moves
  <2> QED
    BY <1>1, <1>2, <2>1

LEMMA PMove ==
    ASSUME FInv, PressInv, NEW e \in Engines, Moves(e)
    PROVE  PressInv'
<1>1. /\ FType /\ (\A q \in Engines : EngineOK(q)) /\ AcceptedOK
  BY DEF FInv, PressInv, EngineOK
<1>2. /\ eng' = eng /\ call' = call /\ waiting' = waiting /\ up' = up /\ pos' = pos
      /\ chan[e] # <<>> /\ chan[e] \in Seq(FrameSet)
  BY <1>1 DEF Moves, FType
<1>3. buffered'[e] \in Int /\ buffered[e] \in Int /\ buffered'[e] <= buffered[e]
  BY <1>1, Zenon DEF Moves, FType
<1>4. eng[e].sentConf
  BY <1>1, <1>2 DEF EngineOK, StartOK
<1>5. EngineOK(e)'
  <2>1. StartOK(e)' /\ OneWorker(e)'
    BY <1>1, <1>2, <1>4, ZenonT(60) DEF EngineOK, StartOK, OneWorker, Active
  <2>2. WokenOK(e)'
    BY <1>1, <1>2, <1>3, WatermarksAssumption, FrameAssumption DEF EngineOK, WokenOK, Active
  <2> QED
    BY <2>1, <2>2, Zenon DEF EngineOK
<1>6. \A q \in Engines \ {e} : EngineOK(q)'
  BY <1>1, <1>2, EngineSame, ZenonT(60) DEF Moves
<1>7. AcceptedOK'
  <2>1. "sender" \in Engines /\ "recipient" \in Engines /\ Peer("sender") = "recipient"
        /\ Peer("recipient") = "sender"
    BY DEF Engines, Peer
  <2>2. \A q \in Engines : \A types : Carries(chan'[q], types) \/ Carries(inbox'[Peer(q)], types)
          => Carries(chan[q], types) \/ Carries(inbox[Peer(q)], types)
    <3> SUFFICES ASSUME NEW q \in Engines, NEW types,
                        Carries(chan'[q], types) \/ Carries(inbox'[Peer(q)], types)
                 PROVE  Carries(chan[q], types) \/ Carries(inbox[Peer(q)], types)
      OBVIOUS
    <3>1. CASE q = e
      BY <3>1, MoveCarries
    <3>2. CASE q # e
      BY <3>2 DEF Moves
    <3> QED
      BY <3>1, <3>2, Zenon
  <2>3. Onward' => Onward
    BY <1>2, <2>1, <2>2, Zenon DEF Onward, Active, Contents
  <2> QED
    BY <1>1, <1>2, <2>3 DEF AcceptedOK, Accepted, Active
<1> QED
  BY <1>5, <1>6, <1>7 DEF PressInv, EngineOK

LEMMA PClose ==
    ASSUME FInv, PressInv, NEW e \in Engines, Ends(e), CallsGoOn(e), Shuts(e)
    PROVE  PressInv'
<1>1. /\ FType /\ (\A q \in Engines : EngineOK(q)) /\ AcceptedOK
  BY DEF FInv, PressInv, EngineOK
<1>2. /\ chan' = chan /\ buffered' = buffered /\ inbox' = inbox /\ up'[e] = "closed" /\ waiting'[e] = <<>>
      /\ eng'[e].sentConf = eng[e].sentConf /\ eng'[e].sentType = eng[e].sentType
      /\ eng'[e].acceptSent = eng[e].acceptSent
      /\ \A d \in Coroutines : call'[e][d].stage # "none" => call'[e][d] = call[e][d]
      /\ \A q \in Engines \ {e} : eng'[q] = eng[q] /\ call'[q] = call[q]
  <2>1. \A d \in Coroutines : call'[e][d].stage # "none" => call'[e][d] = call[e][d]
    BY NoCallFacts DEF Shuts
  <2> QED
    BY <2>1, Zenon DEF Ends, Shuts, SameSent, CallsGoOn
<1>3. EngineOK(e)'
  <2>1. StartOK(e)'
    <3>1. StartOK(e) /\ "start" \in Coroutines
      BY <1>1, Zenon DEF EngineOK, Coroutines
    <3>2. /\ \A d \in Coroutines : Active(e, d)' => Active(e, d) /\ call'[e][d].stage = call[e][d].stage
          /\ chan'[e] = chan[e] /\ buffered'[e] = buffered[e] /\ eng'[e].sentConf = eng[e].sentConf
      BY <1>2, Zenon DEF Active
    <3> QED
      BY <3>1, <3>2, Zenon DEF StartOK
  <2>2. OneWorker(e)'
    <3>1. OneWorker(e)
      BY <1>1, Zenon DEF EngineOK
    <3>2. \A d \in Workers : Active(e, d)' => Active(e, d)
      BY <1>2, Zenon DEF Active, Workers
    <3> QED
      BY <3>1, <3>2, Zenon DEF OneWorker
  <2>3. WokenOK(e)'
    <3>1. \A i \in DOMAIN waiting'[e] : FALSE
      BY <1>2, NoIndex, ZenonT(60)
    <3>2. call'[e]["cancel"].stage = "woken" =>
            /\ eng'[e].sentType = "cancel" /\ buffered'[e] <= Low + MaxFrame
            /\ \A c \in Workers : ~Active(e, c)'
      BY <1>1, <1>2 DEF EngineOK, WokenOK, Active, Workers, Coroutines
    <3> QED
      BY <1>1, <1>2, <3>1, <3>2, Zenon DEF EngineOK, WokenOK
  <2> QED
    BY <2>1, <2>2, <2>3, Zenon DEF EngineOK
<1>4. \A q \in Engines \ {e} : EngineOK(q)'
  BY <1>1, EngineSame, Zenon DEF Ends, CallsGoOn
<1>5. AcceptedOK'
  <2>1. "sender" \in Engines /\ "recipient" \in Engines /\ "file" \in Coroutines
        /\ "accept" \in Coroutines
    BY Zenon DEF Engines, Coroutines
  <2>2. \A q \in Engines : \A d \in Coroutines :
          call'[q][d].stage # "none" => call'[q][d] = call[q][d]
    BY <1>2
  <2>3. \A q \in Engines : /\ eng'[q].manifest => eng[q].manifest
                           /\ eng'[q].loop # "idle" => eng[q].loop # "idle"
                           /\ eng'[q].acceptSent = eng[q].acceptSent
    BY <1>2, Zenon DEF Ends, Softer
  <2>4. pos' \in Later => pos \in Later
    BY DEF Shuts
  <2>5. Onward' => Onward
    BY <1>2, <2>1, <2>2, <2>3, <2>4, ZenonT(60) DEF Onward, Active, Contents, Later
  <2>6. Accepted => Accepted'
    BY <2>1, <2>2, <2>3 DEF Accepted, Active
  <2> QED
    BY <1>1, <2>5, <2>6 DEF AcceptedOK
<1> QED
  BY <1>3, <1>4, <1>5 DEF PressInv, EngineOK

\* What a frame that is sent does to the acceptance.
LEMMA SendAccepted ==
    ASSUME FInv, PressInv, NEW e \in Engines, NEW c \in Coroutines, Active(e, c), NEW x,
           Resembles(eng[e], x), Sends(e, c, x), CallsGoOn(e), ~Active(e, c)', inbox' = inbox
    PROVE  AcceptedOK'
<1> DEFINE f == call[e][c].frame
<1>1. "sender" \in Engines /\ "recipient" \in Engines /\ "file" \in Coroutines
      /\ "accept" \in Coroutines /\ AcceptedOK /\ FType
  BY DEF Engines, Coroutines, PressInv, FInv
<1>2. /\ f \in FrameSet
      /\ f.type = "accept" <=> c = "accept"
      /\ f.type = "receipt" <=> c = "loop"
      /\ f.type \in Contents => c = "file"
      /\ c = "accept" => e = "recipient"
      /\ c = "file" => e = "sender"
  BY LoopFrames, Zenon
<1>3. /\ AfterType(x, eng'[e], f.type) /\ chan'[e] = Append(chan[e], f)
      /\ \A q \in Engines \ {e} : chan'[q] = chan[q] /\ eng'[q] = eng[q]
      /\ pos' \in Later => pos \in Later \/ (c = "file" /\ f.type \in Contents)
  BY Zenon DEF Sends
<1>c. \A q \in Engines : CallsShrink(q)
  BY Zenon DEF CallsGoOn, CallsShrink, Active
<1>o. Active(e, c) /\ f.type \in Contents => Onward
  BY <1>2, Zenon DEF Onward
<1> HIDE DEF f
<1>4. /\ \A types : Carries(chan'[e], types) => Carries(chan[e], types) \/ f.type \in types
  <2>1. chan[e] \in Seq(FrameSet)
    BY <1>1 DEF FType
  <2>2. \A types : Carries(Append(chan[e], f), types) => Carries(chan[e], types) \/ f.type \in types
    BY <1>2, <2>1, AppendFacts, Zenon
  <2>3. chan'[e] = Append(chan[e], f)
    BY <1>3, Zenon
  <2> QED
    BY <2>2, <2>3, Zenon
<1>5. /\ eng'[e].manifest => eng[e].manifest
      /\ eng'[e].loop # "idle" => eng[e].loop # "idle"
      /\ eng'[e].acceptSent = (eng[e].acceptSent \/ c = "accept")
  <2>1. x.manifest = eng[e].manifest /\ x.loop = eng[e].loop /\ x.acceptSent = eng[e].acceptSent
    BY Zenon DEF Resembles
  <2> QED
    BY <1>2, <1>3, <2>1, Zenon DEF AfterType, Softer
<1>6. c = "accept" => Accepted'
  BY <1>2, <1>5, Zenon DEF Accepted
<1>7. Onward' => Onward \/ c = "accept"
  <2>1. Carries(chan'["sender"], Contents) => Carries(chan["sender"], Contents) \/ f.type \in Contents
    BY <1>1, <1>3, <1>4, Zenon
  <2>2. Carries(chan'["recipient"], {"accept"}) =>
          Carries(chan["recipient"], {"accept"}) \/ f.type = "accept"
    BY <1>1, <1>3, <1>4, Zenon
  <2>3. /\ eng'["recipient"].manifest => eng["recipient"].manifest
        /\ eng'["recipient"].loop # "idle" => eng["recipient"].loop # "idle"
    BY <1>1, <1>3, <1>5, Zenon
  <2>4. Active("sender", "file")' /\ call'["sender"]["file"].frame.type \in Contents =>
          Active("sender", "file") /\ call["sender"]["file"].frame.type \in Contents
    BY <1>1, <1>c, ZenonT(60) DEF CallsShrink
  <2>5. pos' \in Later => pos \in Later \/ f.type \in Contents
    BY <1>3
  <2> QED
    BY <1>2, <1>o, <2>1, <2>2, <2>3, <2>4, <2>5, Zenon DEF Onward, Later, Contents
<1>8. Accepted => Accepted'
  <2>1. eng["recipient"].acceptSent => eng'["recipient"].acceptSent
    BY <1>1, <1>3, <1>5, Zenon
  <2>2. Active("recipient", "accept")' => Active("recipient", "accept")
    BY <1>1, <1>c DEF CallsShrink
  <2> QED
    BY <2>1, <2>2 DEF Accepted
<1> QED
  BY <1>1, <1>6, <1>7, <1>8, Zenon DEF AcceptedOK

LEMMA PEncrypted ==
    ASSUME FInv, PressInv, NEW e \in Engines, NEW c \in Coroutines, Encrypted(e, c)
    PROVE  PressInv'
<1> DEFINE x == Applied(eng[e], call[e][c].frame.type)
<1>1. /\ call[e][c].stage = "encrypt" /\ Active(e, c) /\ CallsGoOn(e) /\ inbox' = inbox
      /\ Resembles(eng[e], x) /\ x.sentType = call[e][c].frame.type
      /\ x.sentConf = (eng[e].sentConf \/ c = "start")
      /\ \/ /\ up[e] # "open" /\ Throws(e, c, x) /\ ~Active(e, c)'
            /\ UNCHANGED <<waiting, chan, buffered>>
         \/ /\ up[e] = "open" /\ Room(e) /\ Sends(e, c, x) /\ ~Active(e, c)'
            /\ waiting' = waiting /\ \A d \in Coroutines \ {c} : call'[e][d] = call[e][d]
         \/ /\ up[e] = "open" /\ ~Room(e) /\ Queues(e, c) /\ eng'[e] = x
            /\ \A q \in Engines \ {e} : eng'[q] = eng[q]
            /\ eng' \in [Engines -> EngineSet] /\ chan' = chan /\ buffered' = buffered
  BY EncryptedShape, ZenonT(60)
<1>2. call[e][c].frame.type = "cancel" <=> c = "cancel"
  BY <1>1, LoopFrames, Zenon
<1> HIDE DEF x
<1>3. /\ FType /\ CallsOK(e) /\ (\A q \in Engines : EngineOK(q)) /\ AcceptedOK
      /\ waiting[e] \in Seq(Coroutines) /\ chan[e] \in Seq(FrameSet)
  BY DEF FInv, FType, PressInv, EngineOK
<1>4. /\ c # "start" <=> eng[e].sentConf
      /\ c = "start" => chan[e] = <<>>
      /\ \A d \in Workers : c \in Workers /\ Active(e, d) => c = d
      /\ c \in Workers => call[e]["cancel"].stage # "woken"
  BY <1>1, WorkerFacts, Zenon
<1>5. \A i \in DOMAIN waiting[e] : i # 1 => waiting[e][i] # "cancel"
  BY <1>1, LastSent, Zenon
<1>6. x.sentConf
  BY <1>1, <1>4, Zenon
<1>7. call[e]["cancel"].stage # "woken"
  BY <1>1, <1>4, Zenon DEF Workers
<1>8. c # "start" => ~Active(e, "start")
  BY <1>3, <1>4, Zenon DEF EngineOK, StartOK
<1>9. CASE /\ up[e] # "open" /\ Throws(e, c, x) /\ ~Active(e, c)'
           /\ UNCHANGED <<waiting, chan, buffered>>
  <2>1. /\ eng'[e].sentConf /\ eng'[e].acceptSent = eng[e].acceptSent
        /\ \A d \in Coroutines \ {c} : call'[e][d] = call[e][d]
        /\ call'[e][c] = NoCall /\ up'[e] # "open"
        /\ \A q \in Engines \ {e} : eng'[q] = eng[q] /\ up'[q] = up[q] /\ call'[q] = call[q]
        /\ pos' \in Later => pos \in Later
        /\ eng'[e].manifest => eng[e].manifest
        /\ eng'[e].loop # "idle" => eng[e].loop # "idle"
    BY <1>1, <1>6, <1>9, Zenon DEF Throws, SameSent, Resembles, Softer
  <2>2. \A d \in Coroutines : call'[e][d].stage # "none" => call'[e][d] = call[e][d]
    BY <2>1, NoCallFacts, Zenon
  <2>3. StartOK(e)'
    BY <1>8, <1>9, <2>1, <2>2, Zenon DEF StartOK, Active, Coroutines
  <2>4. OneWorker(e)'
    BY <1>3, <2>2 DEF EngineOK, OneWorker, Active, Workers
  <2>5. WokenOK(e)'
    <3>1. call'[e]["cancel"].stage # "woken"
      BY <1>7, <2>2 DEF Coroutines
    <3> QED
      BY <1>3, <1>5, <1>9, <2>1, <3>1, Zenon DEF EngineOK, WokenOK
  <2>6. \A q \in Engines \ {e} : EngineOK(q)'
    BY <1>3, <1>9, <2>1, EngineSame, Zenon
  <2>7. AcceptedOK'
    <3>1. "sender" \in Engines /\ "recipient" \in Engines /\ "file" \in Coroutines
          /\ "accept" \in Coroutines
      BY DEF Engines, Coroutines
    <3>2. \A q \in Engines : \A d \in Coroutines :
            call'[q][d].stage # "none" => call'[q][d] = call[q][d]
      BY <2>1, <2>2, Zenon
    <3>3. \A q \in Engines : /\ eng'[q].manifest => eng[q].manifest
                             /\ eng'[q].loop # "idle" => eng[q].loop # "idle"
                             /\ eng'[q].acceptSent = eng[q].acceptSent
      BY <2>1
    <3>4. Onward' => Onward
      BY <1>1, <1>9, <2>1, <3>1, <3>2, <3>3, Zenon DEF Onward, Active, Contents, Later
    <3>5. Accepted => Accepted'
      BY <3>1, <3>2, <3>3, Zenon DEF Accepted, Active
    <3> QED
      BY <1>3, <3>4, <3>5, Zenon DEF AcceptedOK
  <2> QED
    BY <2>3, <2>4, <2>5, <2>6, <2>7 DEF PressInv, EngineOK
<1>10. CASE /\ up[e] = "open" /\ Room(e) /\ Sends(e, c, x) /\ ~Active(e, c)'
            /\ waiting' = waiting /\ \A d \in Coroutines \ {c} : call'[e][d] = call[e][d]
  <2>1. /\ eng'[e].sentConf /\ chan'[e] = Append(chan[e], call[e][c].frame)
        /\ \A q \in Engines \ {e} : /\ chan'[q] = chan[q] /\ eng'[q] = eng[q] /\ up'[q] = up[q]
                                    /\ call'[q] = call[q] /\ buffered'[q] = buffered[q]
    BY <1>1, <1>6, <1>10, Zenon DEF Sends, AfterType, CallsGoOn
  <2>2. \A d \in Coroutines : call'[e][d].stage # "none" => d # c /\ call'[e][d] = call[e][d]
    BY <1>10, Zenon DEF Active
  <2>3. StartOK(e)'
    BY <1>8, <2>1, <2>2, Zenon DEF StartOK, Active, Coroutines
  <2>4. OneWorker(e)'
    BY <1>3, <2>2 DEF EngineOK, OneWorker, Active, Workers
  <2>5. WokenOK(e)'
    <3>1. call'[e]["cancel"].stage # "woken"
      BY <1>7, <2>2 DEF Coroutines
    <3>2. \A d \in Workers : call'[e][d].stage # "woken"
      BY <1>3, <1>10, <2>2, Zenon DEF EngineOK, WokenOK, Workers
    <3>3. buffered'[e] < High + MaxFrame
      <4>1. /\ buffered'[e] = buffered[e] + Size(call[e][c].frame) /\ buffered[e] \in Int
            /\ buffered[e] < High
        BY <1>3, <1>10, Zenon DEF Sends, FType, Room
      <4>2. Size(call[e][c].frame) \in Nat /\ Size(call[e][c].frame) <= MaxFrame /\ MaxFrame \in Nat
        BY SizeFacts
      <4> QED
        BY <4>1, <4>2, WatermarksAssumption
    <3> QED
      BY <1>5, <1>10, <3>1, <3>2, <3>3, Zenon DEF WokenOK
  <2>6. \A q \in Engines \ {e} : EngineOK(q)'
    BY <1>3, <1>10, <2>1, EngineSame, Zenon
  <2>7. AcceptedOK'
    BY <1>1, <1>10, SendAccepted, Zenon
  <2> QED
    BY <2>3, <2>4, <2>5, <2>6, <2>7 DEF PressInv, EngineOK
<1>11. CASE /\ up[e] = "open" /\ ~Room(e) /\ Queues(e, c) /\ eng'[e] = x
            /\ \A q \in Engines \ {e} : eng'[q] = eng[q]
            /\ eng' \in [Engines -> EngineSet] /\ chan' = chan /\ buffered' = buffered
  <2>1. /\ waiting'[e] = Append(waiting[e], c) /\ up' = up /\ pos' = pos
        /\ call'[e][c].stage = "wait" /\ call'[e][c].frame = call[e][c].frame
        /\ \A d \in Coroutines \ {c} : call'[e][d] = call[e][d]
        /\ \A q \in Engines \ {e} : call'[q] = call[q] /\ waiting'[q] = waiting[q]
    BY <1>1, <1>11, ZenonT(60) DEF Queues, CallsGoOn
  <2>2. c # "start"
    <3>1. c = "start" => buffered[e] = 0
      BY <1>3, <1>4, Zenon DEF EngineOK, StartOK
    <3> QED
      BY <1>11, <3>1, WatermarksAssumption DEF Room
  <2>3. \A d \in Coroutines : /\ Active(e, d)' => Active(e, d)
                              /\ call'[e][d].frame = call[e][d].frame
                              /\ call'[e][d].stage = "woken" => call[e][d].stage = "woken"
    BY <1>1, <2>1, Zenon DEF Active
  <2>4. StartOK(e)'
    BY <1>6, <1>8, <1>11, <2>2, <2>3, ZenonT(60) DEF StartOK, Coroutines
  <2>5. OneWorker(e)'
    BY <1>3, <2>3 DEF EngineOK, OneWorker, Workers
  <2>6. WokenOK(e)'
    <3>1. call'[e]["cancel"].stage # "woken"
      BY <1>7, <2>3 DEF Coroutines
    <3>2. \A i \in DOMAIN waiting'[e] : i # 1 /\ waiting'[e][i] = "cancel" => eng'[e].sentType = "cancel"
      <4> SUFFICES ASSUME NEW i \in DOMAIN waiting'[e], i # 1, waiting'[e][i] = "cancel"
                   PROVE  eng'[e].sentType = "cancel"
        BY ZenonT(60)
      <4>1. (i \in DOMAIN waiting[e] /\ waiting'[e][i] = waiting[e][i]) \/ waiting'[e][i] = c
        BY <1>3, <2>1, SMTT(20)
      <4>2. c = "cancel"
        BY <1>5, <4>1
      <4> QED
        BY <1>1, <1>2, <1>11, <4>2, Zenon
    <3> QED
      BY <1>3, <1>11, <2>1, <2>3, <3>1, <3>2, ZenonT(60) DEF EngineOK, WokenOK, Workers
  <2>7. \A q \in Engines \ {e} : EngineOK(q)'
    BY <1>3, <1>11, <2>1, EngineSame, ZenonT(60)
  <2>8. AcceptedOK'
    <3>1. "sender" \in Engines /\ "recipient" \in Engines /\ "file" \in Coroutines
          /\ "accept" \in Coroutines
      BY DEF Engines, Coroutines
    <3>2. \A q \in Engines : \A d \in Coroutines :
            (Active(q, d)' => Active(q, d)) /\ call'[q][d].frame = call[q][d].frame
      BY <2>1, <2>3 DEF Active
    <3>3. \A q \in Engines : /\ eng'[q].manifest = eng[q].manifest
                             /\ eng'[q].loop = eng[q].loop
                             /\ eng'[q].acceptSent = eng[q].acceptSent
      BY <1>1, <1>11, Zenon DEF Resembles
    <3>4. Onward' => Onward
      BY <1>1, <1>11, <2>1, <3>1, <3>2, <3>3, Zenon DEF Onward, Contents
    <3>5. Accepted => Accepted'
      BY <3>1, <3>2, <3>3, Zenon DEF Accepted
    <3> QED
      BY <1>3, <3>4, <3>5, Zenon DEF AcceptedOK
  <2> QED
    BY <2>4, <2>5, <2>6, <2>7, <2>8 DEF PressInv, EngineOK
<1> QED
  BY <1>1, <1>9, <1>10, <1>11, Zenon

\* The only step that needs the watermarks two frames apart: a frame and the
\* cancellation behind it are woken together.
LEMMA PWake ==
    ASSUME FInv, PressInv, Low + MaxFrame < High, NEW e \in Engines, Wake(e)
    PROVE  PressInv'
<1>1. PICK c \in Coroutines :
             /\ Woken(e, c) /\ Active(e, c) /\ ~Active(e, c)' /\ CallsGoOn(e)
             /\ Sends(e, c, eng[e]) /\ inbox' = inbox
  BY WakeShape
<1>2. Resembles(eng[e], eng[e])
  BY DEF Resembles, SameFile, Keeps, FInv, FType
<1>3. /\ FType /\ CallsOK(e) /\ (\A q \in Engines : EngineOK(q))
      /\ waiting[e] \in Seq(Coroutines) /\ chan[e] \in Seq(FrameSet)
  BY DEF FInv, FType, PressInv, EngineOK
<1>4. /\ waiting[e] # <<>> /\ c = Head(waiting[e]) /\ up[e] = "open"
      /\ Drained(e) \/ call[e][c].stage = "woken"
      /\ waiting'[e] = Tail(waiting[e]) /\ call'[e][c] = NoCall
      /\ \A d \in Coroutines \ {c} :
            /\ call'[e][d].frame = call[e][d].frame
            /\ call'[e][d].stage = IF Waits(e, d) THEN "woken" ELSE call[e][d].stage
  BY <1>1, Zenon DEF Woken
<1>5. /\ c = waiting[e][1] /\ 1 \in DOMAIN waiting[e]
      /\ \A i \in DOMAIN Tail(waiting[e]) :
           i + 1 \in DOMAIN waiting[e] /\ i + 1 # 1 /\ Tail(waiting[e])[i] = waiting[e][i + 1]
  BY <1>3, <1>4, TailIndex, ZenonT(60)
<1>6. /\ call[e][c].stage \in {"wait", "woken"}
      /\ \A d \in Coroutines : Waits(e, d) => Active(e, d)
  BY <1>3, <1>5, ZenonT(60) DEF CallsOK, Waits, Active
<1>7. /\ c # "start" <=> eng[e].sentConf
      /\ c = "start" => call[e][c].stage = "encrypt"
      /\ \A d \in Workers : c \in Workers /\ Active(e, d) => c = d
      /\ c \in Workers => call[e]["cancel"].stage # "woken"
  BY <1>1, WorkerFacts, Zenon
<1>8. /\ eng[e].sentConf /\ ~Active(e, "start")
  BY <1>3, <1>6, <1>7, Zenon DEF EngineOK, StartOK
<1>9. \A d \in Workers : call[e][d].stage # "woken"
  BY <1>3, <1>4, Zenon DEF EngineOK, WokenOK
<1>10. \A d \in Coroutines : Active(e, d)' => Active(e, d) /\ d # c
  BY <1>1, Zenon DEF CallsGoOn, CallsShrink
<1>11. /\ eng'[e].sentConf /\ eng'[e].sentType = eng[e].sentType
       /\ chan'[e] = Append(chan[e], call[e][c].frame)
       /\ c = "cancel" => up'[e] # "open"
       /\ \A q \in Engines \ {e} : /\ chan'[q] = chan[q] /\ eng'[q] = eng[q] /\ up'[q] = up[q]
                                   /\ call'[q] = call[q] /\ waiting'[q] = waiting[q]
                                   /\ buffered'[q] = buffered[q]
  BY <1>1, <1>8, Zenon DEF Sends, AfterType, CallsGoOn
<1>12. /\ buffered[e] \in Int /\ buffered'[e] \in Int /\ buffered'[e] <= buffered[e] + MaxFrame
       /\ MaxFrame \in Nat
  <2>1. buffered'[e] = buffered[e] + Size(call[e][c].frame) /\ buffered[e] \in Int
    BY <1>1, <1>3, Zenon DEF Sends, FType
  <2>2. Size(call[e][c].frame) \in Nat /\ Size(call[e][c].frame) <= MaxFrame /\ MaxFrame \in Nat
    BY SizeFacts
  <2> QED
    BY <2>1, <2>2
<1>13. c \in Workers => buffered[e] <= Low
  BY <1>4, <1>9, ZenonT(60) DEF Drained
<1>14. c = "cancel" => buffered[e] <= Low + MaxFrame
  <2>1. CASE Drained(e)
    BY <1>12, <2>1, WatermarksAssumption DEF Drained
  <2>2. CASE call[e][c].stage = "woken"
    BY <1>3, <2>2, Zenon DEF EngineOK, WokenOK
  <2> QED
    BY <1>4, <2>1, <2>2
<1>15. StartOK(e)'
  BY <1>8, <1>10, <1>11, Zenon DEF StartOK, Coroutines
<1>16. OneWorker(e)'
  BY <1>3, <1>10, Zenon DEF EngineOK, OneWorker, Workers
<1>17. WokenOK(e)'
  <2>1. \A i \in DOMAIN waiting'[e] : i # 1 /\ waiting'[e][i] = "cancel" => eng'[e].sentType = "cancel"
    <3> SUFFICES ASSUME NEW i \in DOMAIN Tail(waiting[e]), Tail(waiting[e])[i] = "cancel"
                 PROVE  eng'[e].sentType = "cancel"
      BY <1>4, Zenon
    <3>1. \A j \in DOMAIN waiting[e] : j # 1 /\ waiting[e][j] = "cancel" => eng[e].sentType = "cancel"
      BY <1>3, Zenon DEF EngineOK, WokenOK
    <3>2. i + 1 \in DOMAIN waiting[e] /\ i + 1 # 1 /\ Tail(waiting[e])[i] = waiting[e][i + 1]
      BY <1>5, Zenon
    <3> QED
      BY <1>11, <3>1, <3>2, Zenon
  <2>2. ASSUME call'[e]["cancel"].stage = "woken"
        PROVE  /\ eng'[e].sentType = "cancel" /\ buffered'[e] <= Low + MaxFrame
               /\ \A d \in Workers : ~Active(e, d)'
    <3>1. c # "cancel" /\ c \in Workers
      BY <1>4, <2>2, NoCallFacts DEF Workers
    <3>2. Waits(e, "cancel")
      BY <1>4, <1>7, <2>2, <3>1, Zenon DEF Coroutines
    <3>3. eng[e].sentType = "cancel"
      <4>1. PICK i \in DOMAIN waiting[e] : waiting[e][i] = "cancel"
        BY <3>2, Zenon DEF Waits
      <4>2. i # 1
        BY <1>5, <3>1, <4>1
      <4> QED
        BY <1>3, <4>1, <4>2, Zenon DEF EngineOK, WokenOK
    <3>4. buffered'[e] <= Low + MaxFrame
      BY <1>12, <1>13, <3>1, WatermarksAssumption
    <3>5. \A d \in Workers : ~Active(e, d)'
      BY <1>7, <1>10, <3>1, Zenon DEF Workers
    <3> QED
      BY <1>11, <3>3, <3>4, <3>5, ZenonT(60)
  <2>3. \A d \in Workers : call'[e][d].stage = "woken" => up'[e] # "open"
    <3> SUFFICES ASSUME NEW d \in Workers, call'[e][d].stage = "woken" PROVE up'[e] # "open"
      BY Zenon
    <3>1. d # c /\ d \in Coroutines
      BY <1>4, NoCallFacts, Zenon DEF Workers
    <3>2. Waits(e, d)
      BY <1>4, <1>9, <3>1, Zenon
    <3>3. c \notin Workers
      BY <1>6, <1>7, <3>1, <3>2, Zenon
    <3> QED
      BY <1>11, <3>3, Zenon DEF Workers
  <2>4. buffered'[e] < High + MaxFrame
    <3>1. c \in Workers \/ c = "cancel"
      BY DEF Workers
    <3> QED
      BY <1>12, <1>13, <1>14, <3>1, WatermarksAssumption
  <2> QED
    BY <2>1, <2>2, <2>3, <2>4, Zenon DEF WokenOK
<1>18. \A q \in Engines \ {e} : EngineOK(q)'
  BY <1>3, <1>11, EngineSame, Zenon
<1>19. AcceptedOK'
  BY <1>1, <1>2, SendAccepted
<1> QED
  BY <1>15, <1>16, <1>17, <1>18, <1>19, Zenon DEF PressInv, EngineOK

LEMMA PressInit ==
    ASSUME FInit
    PROVE  PressInv
<1>2. NewEngine.sentConf = FALSE /\ ~NewEngine.manifest /\ NewEngine.loop = "idle"
  BY Zenon DEF NewEngine
<1> HIDE DEF NewEngine
<1>3. \A e \in Engines :
        /\ eng[e] = NewEngine /\ waiting[e] = <<>> /\ chan[e] = <<>> /\ inbox[e] = <<>>
        /\ buffered[e] = 0 /\ \A c \in Coroutines : call[e][c] = NoCall
  BY DEF FInit
<1>4. \A e \in Engines : \A c \in Coroutines : call[e][c].stage = "none" /\ ~Active(e, c)
  BY <1>3, NoCallFacts, Zenon DEF Active
<1>5. \A e \in Engines : StartOK(e) /\ OneWorker(e)
  BY <1>3, <1>4, Zenon DEF StartOK, OneWorker, Workers, Coroutines
<1>6. \A e \in Engines : WokenOK(e)
  <2> SUFFICES ASSUME NEW e \in Engines PROVE WokenOK(e)
    OBVIOUS
  <2>1. (\A i \in DOMAIN waiting[e] : FALSE) /\ buffered[e] < High + MaxFrame
    BY <1>3, WatermarksAssumption, FrameAssumption
  <2> QED
    BY <1>4, <2>1, Zenon DEF WokenOK, Workers, Coroutines
<1>7. ~Onward
  BY <1>2, <1>3, <1>4, EmptyFacts, Zenon DEF Onward, Contents, Engines, Coroutines, FInit
<1> QED
  BY <1>5, <1>6, <1>7, Zenon DEF PressInv, AcceptedOK

LEMMA PressNext ==
    ASSUME FInv, PressInv, Low + MaxFrame < High, [FNext]_fvars
    PROVE  PressInv'
<1>t. "confirm" \in FrameTypes /\ "accept" \in FrameTypes /\ "receipt" \in FrameTypes
      /\ "cancel" \in FrameTypes /\ "start" \in Coroutines /\ "accept" \in Coroutines
      /\ "loop" \in Coroutines /\ "cancel" \in Coroutines /\ "file" \in Coroutines
      /\ "sender" \in Engines /\ "recipient" \in Engines
  BY DEF FrameTypes, Coroutines, Engines
<1>1. ASSUME NEW e \in Engines, Create(e) PROVE PressInv'
  BY <1>1, <1>t, CreateShape, PBegin
<1>2. ASSUME NEW e \in Engines, Wake(e) PROVE PressInv'
  BY <1>2, PWake
<1>3. ASSUME NEW e \in Engines, Deliver(e) PROVE PressInv'
  BY <1>3, DeliverShape, PeerFacts, PMove, Zenon
<1>4. ASSUME NEW e \in Engines, Handle(e) PROVE PressInv'
  BY <1>4, HandleShape, PTake, PEase
<1>5. ASSUME NEW e \in Engines, Verified(e) PROVE PressInv'
  BY <1>5, <1>t, VerifiedShape, PBegin, PEase, Zenon
<1>6. ASSUME NEW e \in Engines, SendTerminalFrame(e) PROVE PressInv'
  BY <1>6, <1>t, TerminalFrameShape, PBegin, PEase
<1>7. ASSUME NEW e \in Engines, NEW c \in Coroutines, Encrypted(e, c) PROVE PressInv'
  BY <1>7, PEncrypted
<1>8. ASSUME NEW e \in Engines, Cancel(e) PROVE PressInv'
  BY <1>8, CancelShape, PEase
<1>9. ASSUME NEW e \in Engines, Leave(e) PROVE PressInv'
  BY <1>9, LeaveShape, PEase, Zenon
<1>10. ASSUME NEW e \in Engines, Damage(e) PROVE PressInv'
  BY <1>10, DamageShape, PMove
<1>11. ASSUME NEW e \in Engines, ChannelCloses(e) PROVE PressInv'
  BY <1>11, CloseShape, PClose
<1>12. ASSUME SendNext PROVE PressInv'
  BY <1>12, <1>t, SendNextShape, SendNextFails, PBegin, PEase, Zenon
<1>13. ASSUME SendFile \/ ReadSliceFails PROVE PressInv'
  BY <1>13, <1>t, SendFileShape, PEase
<1>14. ASSUME Accept PROVE PressInv'
  BY <1>14, <1>t, AcceptShape, PBegin, PEase, Zenon
<1>15. ASSUME UNCHANGED fvars PROVE PressInv'
  <2>1. UNCHANGED <<eng, call, waiting, chan, buffered, inbox, up, pos>>
    BY <1>15, Zenon DEF fvars
  <2>2. Eases("sender")
    BY <2>1, SameEngine DEF Eases, FType, FInv
  <2> QED
    BY <1>t, <2>2, PEase
<1> QED
  BY <1>1, <1>2, <1>3, <1>4, <1>5, <1>6, <1>7, <1>8, <1>9, <1>10, <1>11, <1>12, <1>13, <1>14,
     <1>15, ZenonT(60) DEF FNext, Run

\* waitForDataChannelCapacity() keeps the buffer less than one frame over the
\* high watermark, whatever coroutines send and however long the file: at most
\* one frame waits beside the cancellation, and when the two are woken together
\* the buffer takes both as long as the watermarks are more than a frame apart
\* (the defaults of fileTransfer.ts are 1 MiB and 256 KiB, and a frame has at
\* most 64 KiB and its header and tag).
THEOREM BackpressureTheorem ==
    ASSUME Low + MaxFrame < High
    PROVE  FSpec => []Backpressure
<1>1. PressInv => Backpressure
  BY DEF PressInv, WokenOK, Backpressure
<1> QED
  BY <1>1, FInit1, FNext1, PressInit, PressNext, PTL DEF FSpec

=============================================================================
