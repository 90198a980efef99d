---------------------------- MODULE FileTransfer ----------------------------
(***************************************************************************)
(* The two FileTransferEngines of one transfer and the ordered data        *)
(* channel between them.  In each engine several coroutines run between    *)
(* each other's awaits: start() sends the confirmation, sendFile() the     *)
(* file, accept() the acceptance, the receive queue the receipt, and       *)
(* cleanupTransferRuntime() of the page the cancellation.  All of them     *)
(* send through sendFrame(), which reserves a counter, waits for the       *)
(* encryption and then for room in the channel's buffer.                   *)
(*                                                                         *)
(* An engine is created when its end of the channel opens, so it starts    *)
(* at once.  File bytes are chunk numbers; a digest or signature matches   *)
(* exactly when what it covers is the same.                                *)
(***************************************************************************)
EXTENDS Integers, Sequences, FiniteSets

CONSTANTS
    Chunks,     \* the chunks of the file
    High, Low,  \* the watermarks, in bytes
    MaxFrame,   \* the bytes of a frame that carries a chunk, the largest there is
    Control,    \* the bytes of any other frame
    Cancellers, \* engines whose user may cancel the transfer
    Leavers,    \* engines whose page may be left
    Drops,      \* whether the connection may be lost
    Damages,    \* whether a frame may fail to authenticate
    ReadFails   \* whether reading the file may fail

Engines == {"sender", "recipient"}
Peer(e) == IF e = "sender" THEN "recipient" ELSE "sender"

ASSUME WatermarksAssumption == High \in Nat /\ Low \in Nat /\ Low < High

ASSUME FrameAssumption == MaxFrame \in Nat /\ Control \in 1..MaxFrame

ASSUME EngineScenarioAssumption ==
    /\ Chunks \in Nat
    /\ Cancellers \subseteq Engines
    /\ Leavers \subseteq Engines
    /\ {Drops, Damages, ReadFails} \subseteq BOOLEAN

VARIABLES
    eng,      \* the fields of each engine and of its FrameStream
    call,     \* per coroutine, the frame it is sending
    waiting,  \* coroutines waiting in waitForDataChannelCapacity, in order
    chan,     \* frames sent by each engine and not yet delivered
    buffered, \* bufferedAmount of each end of the channel
    inbox,    \* FileTransferEngine.receiveQueue
    up,       \* readyState of each end of the channel
    pos       \* where sendFile() stands

fvars == <<eng, call, waiting, chan, buffered, inbox, up, pos>>

Coroutines == {"start", "file", "accept", "loop", "cancel"}

NoCall == [stage |-> "none",
           frame |-> [type |-> "confirm", n |-> 0, chunk |-> 0, ok |-> TRUE]]

TerminalStates == {"completed", "cancelled", "failed", "closed"}

Terminal(x) == x.state \in TerminalStates

NewEngine ==
    [state |-> "idle",
     sentConf |-> FALSE, recvConf |-> FALSE,
     sentType |-> "none", recvType |-> "none",
     sendCtr |-> 0, recvCtr |-> 0,
     offered |-> FALSE, accepted |-> FALSE, acceptSent |-> FALSE,
     manifest |-> FALSE, got |-> <<>>, blob |-> <<>>, presented |-> <<>>, file |-> <<>>,
     sentChunks |-> 0, completionSent |-> FALSE, reserved |-> FALSE,
     loop |-> "idle", poisoned |-> FALSE, cleanup |-> "none", disposed |-> FALSE]

\* The bytes a frame takes in the buffer; every chunk is taken to be full.
Size(f) == IF f.type = "chunk" THEN MaxFrame ELSE Control

TheFile == [i \in 1..Chunks |-> i]

-----------------------------------------------------------------------------
(* What ends an engine *)

\* setState().
InState(x, s) == [x EXCEPT !.state = s]

\* cleanupReceiver() and releaseInbound().
CleanedUp(x) == [x EXCEPT !.manifest = FALSE, !.got = <<>>, !.reserved = FALSE]

\* fail().  It sets the state before it calls sendTerminalFrame('error'),
\* which returns at once in a terminal state: no error frame is sent.
Failed(x) == IF Terminal(x) THEN x ELSE InState(CleanedUp(x), "failed")

\* dispose(): close(), and the file the engine holds is revoked; the page that
\* calls it forgets the file too.
Closed(x) == InState([CleanedUp(x) EXCEPT !.file = <<>>, !.disposed = TRUE], "closed")

\* Mutant: the promise of the receipt is left pending.
RejectedButReceipt(p) == IF p \in {"await confirm", "await accept"} THEN "error" ELSE p

\* rejectPending(): sendFile() stops waiting.
Rejected(p) == IF p \in {"await confirm", "await accept", "await receipt"} THEN "error" ELSE p

\* An engine that fails takes its sendFile() with it, if it is waiting.
FailPos(e, p) == IF e = "sender" /\ ~Terminal(eng[e]) THEN Rejected(p) ELSE p

\* An operation of the receive queue threw: the queue stays rejected.
LoopFailed(x) == [Failed(x) EXCEPT !.loop = "idle", !.poisoned = TRUE]

-----------------------------------------------------------------------------
(* Sending frames *)

\* sequenceTypeAllowed(), for the types each direction has.
SequenceTypeAllowed(previous, next) ==
    CASE next = "confirm" -> previous = "none"
      [] next # "confirm" /\ previous \in {"none", "confirm"} ->
            next \in {"file_offer", "accept", "manifest", "receipt", "cancel"}
      [] next = "manifest" /\ previous \notin {"none", "confirm"} ->
            previous = "file_offer"
      [] next \in {"chunk", "complete"} /\ previous \notin {"none", "confirm"} ->
            previous \in {"manifest", "chunk"}
      [] next = "receipt" /\ previous \notin {"none", "confirm"} ->
            previous \in {"complete", "accept"}
      [] OTHER -> next = "cancel"

\* The checks of sendFrame() and createFrame(), made before the first await.
MaySend(e, type) ==
    /\ ~Terminal(eng[e])
    /\ up[e] = "open"
    /\ type # "confirm" => eng[e].sentConf /\ eng[e].recvConf
    /\ SequenceTypeAllowed(eng[e].sentType, type)

\* Mutant: the terminal frame uses the next counter without reserving it.
ReserveButCancel(x, type) == IF type = "cancel" THEN x ELSE [x EXCEPT !.sendCtr = @ + 1]

\* FrameCounter.reserve(), in the same step as the checks.
Reserve(x, type) == [x EXCEPT !.sendCtr = @ + 1]

Encrypting(e, c, type, chunk) ==
    call' = [call EXCEPT ![e][c] =
        [stage |-> "encrypt",
         frame |-> [type |-> type, n |-> eng[e].sendCtr, chunk |-> chunk, ok |-> TRUE]]]

\* sentCounterApplied(), once the frame is encrypted.
Applied(x, type) == [x EXCEPT !.sentType = type, !.sentConf = @ \/ type = "confirm"]

\* Mutant: an engine its page is cleaning up leaves no file.
AfterSendUnlessCleaning(x, type) ==
    CASE type = "receipt" ->
            IF x.cleanup # "none" THEN [x EXCEPT !.loop = "idle"]
            ELSE InState([x EXCEPT !.presented = x.blob, !.file = x.blob, !.got = <<>>,
                                   !.loop = "idle"], "completed")
      [] type = "accept" -> [x EXCEPT !.acceptSent = TRUE]
      [] type = "chunk" -> [x EXCEPT !.sentChunks = @ + 1]
      [] type = "cancel" -> [Closed(x) EXCEPT !.cleanup = "done"]
      [] OTHER -> x

\* What a coroutine does once its frame is in the channel: handleComplete()
\* presents the file (onReceived()), accept() is done, and the page disposes of
\* a cancelled engine.
AfterSend(x, type) ==
    CASE type = "receipt" ->
            InState([x EXCEPT !.presented = x.blob, !.file = x.blob, !.got = <<>>,
                              !.loop = "idle"], "completed")
      [] type = "accept" -> [x EXCEPT !.acceptSent = TRUE]
      [] type = "chunk" -> [x EXCEPT !.sentChunks = @ + 1]
      [] type = "cancel" -> [Closed(x) EXCEPT !.cleanup = "done"]
      [] OTHER -> x

\* What a coroutine does when sendFrame() throws.
AfterThrow(x, c) ==
    CASE c = "start" -> Failed(x)
      [] c = "loop" -> LoopFailed(x)
      [] c = "cancel" -> [Closed(x) EXCEPT !.cleanup = "done"]
      [] OTHER -> x

\* sendFile() after one of its frames was sent; a promise it is about to wait
\* for was rejected if the engine ended while the frame was under way.
NextPos(x, f) ==
    CASE f.type = "file_offer" -> IF Terminal(x) THEN "error" ELSE "await accept"
      [] f.type = "complete" -> IF Terminal(x) THEN "error" ELSE "await receipt"
      [] f.type = "manifest" -> IF Chunks = 0 THEN "complete" ELSE "chunk"
      [] f.type = "chunk" -> IF f.chunk = Chunks THEN "complete" ELSE "chunk"

\* Mutant: waitForConfirmation() waits even if it is confirmed already.
WaitForConfirmationAlways(x) == "await confirm"

\* waitForConfirmation(), once start() has returned.  It does not look whether
\* the engine has ended meanwhile.
WaitForConfirmation(x) == IF x.sentConf /\ x.recvConf THEN "offer" ELSE "await confirm"

\* dispose() of the sender rejects what its sendFile() waits for.
CancelPos(e) == IF e = "sender" THEN Rejected(pos) ELSE pos

\* ... and closes this end of the channel.
ClosesChannel(e) == IF up[e] = "open" THEN [up EXCEPT ![e] = "closing"] ELSE up

\* The frame of coroutine `c` enters the channel; `x` is the engine before.
Sent(e, c, x) ==
    LET f == call[e][c].frame IN
    /\ chan' = [chan EXCEPT ![e] = Append(@, f)]
    /\ buffered' = [buffered EXCEPT ![e] = @ + Size(f)]
    /\ eng' = [eng EXCEPT ![e] = AfterSend(x, f.type)]
    /\ up' = IF c = "cancel" THEN ClosesChannel(e) ELSE up
    /\ pos' = CASE c = "file" -> NextPos(eng[e], f)
                [] c = "start" /\ e = "sender" /\ pos = "start" -> WaitForConfirmation(x)
                [] c = "cancel" -> CancelPos(e)
                [] OTHER -> pos

Thrown(e, c, x) ==
    /\ call' = [call EXCEPT ![e][c] = NoCall]
    /\ eng' = [eng EXCEPT ![e] = AfterThrow(x, c)]
    /\ up' = IF c = "cancel" THEN ClosesChannel(e) ELSE up
    /\ pos' = CASE c = "file" -> "error"
                [] c = "cancel" -> CancelPos(e)
                [] c = "start" /\ e = "sender" /\ pos = "start" -> "error"
                [] c \in {"start", "loop"} /\ ~(e = "sender" /\ pos = "start") -> FailPos(e, pos)
                [] OTHER -> pos

\* Mutant: a buffer at the high watermark takes another frame.
RoomAtMark(e) == buffered[e] <= High

\* The buffer is under the high watermark; the frame is then added whole.
Room(e) == buffered[e] < High

\* encryptFrame() resolves, in any order with other encryptions; then
\* waitForDataChannelCapacity().
Encrypted(e, c) ==
    LET x == Applied(eng[e], call[e][c].frame.type) IN
    /\ call[e][c].stage = "encrypt"
    /\ \/ /\ up[e] # "open"
          /\ Thrown(e, c, x)
          /\ UNCHANGED <<waiting, chan, buffered>>
       \/ /\ up[e] = "open"
          /\ Room(e)
          /\ Sent(e, c, x)
          /\ call' = [call EXCEPT ![e][c] = NoCall]
          /\ UNCHANGED waiting
       \/ /\ up[e] = "open"
          /\ ~Room(e)
          /\ waiting' = [waiting EXCEPT ![e] = Append(@, c)]
          /\ call' = [call EXCEPT ![e][c].stage = "wait"]
          /\ eng' = [eng EXCEPT ![e] = x]
          /\ UNCHANGED <<chan, buffered, up, pos>>
    /\ UNCHANGED inbox

Drained(e) == buffered[e] <= Low

Waits(e, c) == \E i \in DOMAIN waiting[e] : waiting[e][i] = c

\* onbufferedamountlow wakes every waiting coroutine; they send in the order
\* they came.
Wake(e) ==
    LET c == Head(waiting[e]) IN
    /\ waiting[e] # <<>>
    /\ up[e] = "open"
    /\ Drained(e) \/ call[e][c].stage = "woken"
    /\ waiting' = [waiting EXCEPT ![e] = Tail(@)]
    /\ call' = [call EXCEPT ![e] = [d \in Coroutines |->
                    IF d = c THEN NoCall
                    ELSE IF Waits(e, d) THEN [@[d] EXCEPT !.stage = "woken"] ELSE @[d]]]
    /\ Sent(e, c, eng[e])
    /\ UNCHANGED inbox

-----------------------------------------------------------------------------
(* The coroutines *)

\* A coroutine calls sendFrame(): it begins the frame or the call throws.
Begin(e, c, x, type, chunk) ==
    /\ Encrypting(e, c, type, chunk)
    /\ eng' = [eng EXCEPT ![e] = Reserve(x, type)]

\* This end of the channel opens: the engine is built and start() runs.
Create(e) ==
    /\ eng[e].state = "idle"
    /\ up[e] = "open"
    /\ Begin(e, "start",
             [eng[e] EXCEPT !.state = "confirming", !.reserved = (e = "recipient")],
             "confirm", 0)
    /\ UNCHANGED <<waiting, chan, buffered, inbox, up, pos>>

\* The page calls sendFile(), which waits for start() first.
SendFile ==
    /\ pos = "none"
    /\ eng["sender"].state # "idle"
    /\ eng["sender"].cleanup = "none"
    /\ pos' = CASE Terminal(eng["sender"]) -> "error"
                [] ~Terminal(eng["sender"]) /\ call["sender"]["start"].stage # "none" -> "start"
                [] OTHER -> WaitForConfirmation(eng["sender"])
    /\ UNCHANGED <<eng, call, waiting, chan, buffered, inbox, up>>

\* sendFile() reads the next chunk if it is at one, and sends its next frame.
SendNext ==
    LET x == eng["sender"]
        type == IF pos = "offer" THEN "file_offer" ELSE pos
    IN /\ pos \in {"offer", "manifest", "chunk", "complete"}
       /\ call["sender"]["file"].stage = "none"
       /\ IF MaySend("sender", type)
          THEN /\ Begin("sender", "file",
                        [x EXCEPT !.state = IF type = "manifest" THEN "sending" ELSE @,
                                  !.completionSent = @ \/ type = "complete"],
                        type, IF type = "chunk" THEN x.sentChunks + 1 ELSE 0)
               /\ UNCHANGED pos
          ELSE pos' = "error" /\ UNCHANGED <<eng, call>>
       /\ UNCHANGED <<waiting, chan, buffered, inbox, up>>

\* readSlice() throws or finds fewer bytes: sendFile() rejects, and the engine
\* is not told.
ReadSliceFails ==
    /\ ReadFails
    /\ pos = "chunk"
    /\ call["sender"]["file"].stage = "none"
    /\ pos' = "error"
    /\ UNCHANGED <<eng, call, waiting, chan, buffered, inbox, up>>

\* The recipient's user accepts the file that was offered.
Accept ==
    LET x == [eng["recipient"] EXCEPT !.accepted = TRUE] IN
    /\ eng["recipient"].offered
    /\ ~eng["recipient"].manifest
    /\ ~eng["recipient"].acceptSent
    /\ call["recipient"]["accept"].stage = "none"
    /\ eng["recipient"].cleanup = "none"
    /\ IF MaySend("recipient", "accept")
       THEN Begin("recipient", "accept", x, "accept", 0)
       ELSE eng' = [eng EXCEPT !["recipient"] = x] /\ UNCHANGED call
    /\ UNCHANGED <<waiting, chan, buffered, inbox, up, pos>>

\* handleCancel() and handleReject() of the page: cleanupTransferRuntime()
\* disposes of an engine that has failed, and first tells the peer otherwise.
Cancel(e) ==
    LET x == eng[e] IN
    /\ e \in Cancellers
    /\ x.cleanup = "none"
    /\ x.state \notin {"idle", "completed", "cancelled", "closed"}
    /\ IF Terminal(x)
       THEN /\ eng' = [eng EXCEPT ![e] = [Closed(x) EXCEPT !.cleanup = "done"]]
            /\ up' = ClosesChannel(e)
            /\ pos' = CancelPos(e)
       ELSE /\ eng' = [eng EXCEPT ![e].cleanup = "start"]
            /\ UNCHANGED <<up, pos>>
    /\ UNCHANGED <<call, waiting, chan, buffered, inbox>>

\* sendTerminalFrame(): after start(), a confirmed engine sends its frame; in
\* every case the engine is then cancelled and disposed of.
SendTerminalFrame(e) ==
    /\ eng[e].cleanup = "start"
    /\ call[e]["start"].stage = "none"
    /\ IF MaySend(e, "cancel")
       THEN /\ Begin(e, "cancel", [eng[e] EXCEPT !.cleanup = "frame"], "cancel", 0)
            /\ UNCHANGED <<up, pos>>
       ELSE /\ eng' = [eng EXCEPT ![e] = [Closed(@) EXCEPT !.cleanup = "done"]]
            /\ up' = ClosesChannel(e)
            /\ pos' = CancelPos(e)
            /\ UNCHANGED call
    /\ UNCHANGED <<waiting, chan, buffered, inbox>>

\* The page is left: dispose() without a word to the peer.
Leave(e) ==
    /\ e \in Leavers
    /\ eng[e].state \notin {"idle", "closed"}
    /\ eng' = [eng EXCEPT ![e] = Closed(@)]
    /\ up' = ClosesChannel(e)
    /\ pos' = CancelPos(e)
    /\ UNCHANGED <<call, waiting, chan, buffered, inbox>>

-----------------------------------------------------------------------------
(* Receiving frames *)

\* handleMessage(): an engine that has ended drops what arrives.  The bytes of a
\* frame leave the sender's buffer.
Deliver(e) ==
    LET from == Peer(e) IN
    /\ chan[from] # <<>>
    /\ up[e] = "open"
    /\ eng[e].state # "idle"
    /\ chan' = [chan EXCEPT ![from] = Tail(@)]
    /\ buffered' = [buffered EXCEPT ![from] = @ - Size(Head(chan[from]))]
    /\ inbox' = IF Terminal(eng[e]) \/ eng[e].poisoned THEN inbox
                ELSE [inbox EXCEPT ![e] = Append(@, Head(chan[from]))]
    /\ UNCHANGED <<eng, call, waiting, up, pos>>

\* A frame that does not authenticate when it arrives.
Damage(e) ==
    /\ Damages
    /\ chan[e] # <<>>
    /\ chan[e][1].ok
    /\ chan' = [chan EXCEPT ![e][1].ok = FALSE]
    /\ UNCHANGED <<eng, call, waiting, buffered, inbox, up, pos>>

\* receiveFrame() takes the frame.
ReceiveTakes(x, f) ==
    /\ f.ok
    /\ f.n = x.recvCtr
    /\ SequenceTypeAllowed(x.recvType, f.type)
    /\ x.recvConf \/ f.type = "confirm"

Received(x, f) ==
    [x EXCEPT !.recvCtr = @ + 1, !.recvType = f.type, !.recvConf = TRUE]

\* Whether the handler of a frame accepts it in the engine's state.
HandlerTakes(e, x, f) ==
    CASE f.type \in {"confirm", "cancel"} -> TRUE
      [] f.type = "file_offer" -> e = "recipient" /\ ~x.offered /\ ~x.manifest
      [] f.type = "accept" -> e = "sender"
      [] f.type = "manifest" -> e = "recipient" /\ x.accepted /\ x.offered /\ ~x.manifest
      [] f.type = "chunk" -> e = "recipient" /\ x.manifest /\ Len(x.got) < Chunks
      [] f.type = "complete" -> e = "recipient" /\ x.manifest /\ x.got = TheFile
      [] f.type = "receipt" -> e = "sender" /\ x.completionSent

Handled(x, f) ==
    CASE f.type = "confirm" ->
            IF x.sentConf /\ x.state = "confirming" THEN InState(x, "ready") ELSE x
      [] f.type = "file_offer" -> [x EXCEPT !.offered = TRUE]
      [] f.type = "accept" -> IF x.state = "confirming" THEN InState(x, "ready") ELSE x
      [] f.type = "manifest" -> InState([x EXCEPT !.manifest = TRUE], "receiving")
      [] f.type = "chunk" -> [x EXCEPT !.got = Append(@, f.chunk)]
      [] f.type = "complete" -> [x EXCEPT !.loop = "verify"]
      [] f.type = "receipt" -> InState(x, "completed")
      [] f.type = "cancel" -> Failed(x)

\* What the frame does to a sendFile() that waits for it.
Answered(x, f) ==
    CASE f.type = "confirm" /\ pos = "await confirm" /\ x.sentConf -> "offer"
      [] f.type = "accept" /\ pos = "await accept" -> "manifest"
      [] f.type = "receipt" /\ pos = "await receipt" -> "done"
      [] f.type = "cancel" -> FailPos("sender", pos)
      [] OTHER -> pos

\* The receive queue takes up its next operation.  It does not look whether
\* the engine has ended since the message arrived.
Handle(e) ==
    LET f == Head(inbox[e])
        x == Received(eng[e], f)
    IN /\ inbox[e] # <<>>
       /\ eng[e].loop = "idle"
       /\ IF ReceiveTakes(eng[e], f) /\ HandlerTakes(e, x, f)
          THEN /\ eng' = [eng EXCEPT ![e] = Handled(x, f)]
               /\ pos' = IF e = "sender" THEN Answered(x, f) ELSE pos
               /\ inbox' = [inbox EXCEPT ![e] = Tail(@)]
          ELSE /\ eng' = [eng EXCEPT ![e] = LoopFailed(@)]
               /\ pos' = FailPos(e, pos)
               /\ inbox' = [inbox EXCEPT ![e] = <<>>]
       /\ UNCHANGED <<call, waiting, chan, buffered, up>>

\* handleComplete() once the signature is verified: it builds the file and
\* sends the receipt.
Verified(e) ==
    LET x == [eng[e] EXCEPT !.blob = eng[e].got, !.loop = "receipt"] IN
    /\ eng[e].loop = "verify"
    /\ IF eng[e].manifest /\ MaySend(e, "receipt")
       THEN /\ Begin(e, "loop", x, "receipt", 0)
            /\ UNCHANGED <<inbox, pos>>
       ELSE /\ eng' = [eng EXCEPT ![e] = LoopFailed(@)]
            /\ pos' = FailPos(e, pos)
            /\ inbox' = [inbox EXCEPT ![e] = <<>>]
            /\ UNCHANGED call
    /\ UNCHANGED <<waiting, chan, buffered, up>>

\* onclose: after this end or the other was closed, or the connection lost.
\* The engine's handler runs first, then those of the waiting coroutines.
ChannelCloses(e) ==
    LET x == Failed(eng[e])
        y == IF Waits(e, "loop") THEN LoopFailed(x) ELSE x
        z == IF Waits(e, "cancel") THEN [Closed(y) EXCEPT !.cleanup = "done"] ELSE y
    IN /\ \/ up[e] = "closing"
          \/ up[e] = "open" /\ (up[Peer(e)] # "open" \/ Drops)
       /\ up' = [up EXCEPT ![e] = "closed"]
       /\ eng' = [eng EXCEPT ![e] = IF @.state = "idle" THEN @ ELSE z]
       /\ pos' = IF Waits(e, "file") THEN "error" ELSE FailPos(e, pos)
       /\ call' = [call EXCEPT ![e] =
                     [c \in Coroutines |-> IF Waits(e, c) THEN NoCall ELSE @[c]]]
       /\ waiting' = [waiting EXCEPT ![e] = <<>>]
       /\ UNCHANGED <<chan, buffered, inbox>>

-----------------------------------------------------------------------------

FInit ==
    /\ eng = [e \in Engines |-> NewEngine]
    /\ call = [e \in Engines |-> [c \in Coroutines |-> NoCall]]
    /\ waiting = [e \in Engines |-> <<>>]
    /\ chan = [e \in Engines |-> <<>>]
    /\ buffered = [e \in Engines |-> 0]
    /\ inbox = [e \in Engines |-> <<>>]
    /\ up = [e \in Engines |-> "open"]
    /\ pos = "none"

\* What the browser's event loop, its crypto and the channel do by themselves.
Run(e) ==
    \/ Create(e) \/ Wake(e) \/ Deliver(e) \/ Handle(e) \/ Verified(e)
    \/ SendTerminalFrame(e)
    \/ \E c \in Coroutines : Encrypted(e, c)

FNext ==
    \/ \E e \in Engines :
         Run(e) \/ Cancel(e) \/ Leave(e) \/ Damage(e) \/ ChannelCloses(e)
    \/ SendNext
    \/ SendFile \/ ReadSliceFails \/ Accept

FSpec == FInit /\ [][FNext]_fvars

\* Promises settle, the channel delivers, and closing one end of the channel
\* closes the other; users and failures do as they like.
FFairness ==
    /\ WF_fvars(SendNext)
    /\ \A e \in Engines :
         /\ WF_fvars(Create(e)) /\ WF_fvars(Wake(e)) /\ WF_fvars(Deliver(e))
         /\ WF_fvars(Handle(e)) /\ WF_fvars(Verified(e)) /\ WF_fvars(SendTerminalFrame(e))
         /\ WF_fvars((up["sender"] # "open" \/ up["recipient"] # "open") /\ ChannelCloses(e))
         /\ \A c \in Coroutines : WF_fvars(Encrypted(e, c))

FFairSpec == FSpec /\ FFairness

-----------------------------------------------------------------------------
(* Properties *)

\* Frames of one engine that are being encrypted, wait, or are under way.
InFlight(e) ==
    {call[e][c].frame : c \in {d \in Coroutines : call[e][d].stage # "none"}}
        \cup {chan[e][i] : i \in DOMAIN chan[e]}
        \cup {inbox[Peer(e)][i] : i \in DOMAIN inbox[Peer(e)]}

\* docs/transfer-protocol.md, invariant 4: no AES-GCM key and nonce pair is
\* used twice.  Five coroutines draw on one FrameCounter and encrypt at their
\* own pace; no two frames of an engine carry the same counter, and none
\* carries one the engine has yet to hand out.
NonceOnce ==
    \A e \in Engines :
        /\ \A f, g \in InFlight(e) : f.n = g.n => [f EXCEPT !.ok = TRUE] = [g EXCEPT !.ok = TRUE]
        /\ \A f \in InFlight(e) : f.n < eng[e].sendCtr

\* A sender that shows "completed", or is about to, has a recipient that was
\* shown the whole file, whatever cancellation, failure or closing crosses the
\* receipt; and the recipient still holds it, unless its own page disposed of
\* the engine (a recipient who cancels while the receipt is being encrypted
\* sends the receipt, is shown the file, and loses it).
ReceiptMeansDelivered ==
    \/ eng["sender"].state = "completed"
    \/ \E f \in InFlight("recipient") : f.type = "receipt" /\ f \notin
            {call["recipient"][c].frame : c \in Coroutines}
    => /\ eng["recipient"].presented = TheFile
       /\ eng["recipient"].file = TheFile \/ eng["recipient"].disposed

\* waitForDataChannelCapacity: a frame is added to a buffer under the high
\* watermark, or to one that fell to the low watermark since.  Whatever
\* coroutines send and are woken together, the channel's buffer stays less than
\* one frame over the high watermark.
Backpressure == \A e \in Engines : buffered[e] < High + MaxFrame

\* A page has given up on the transfer, or the channel is going away.
GivenUp == \E e \in Engines : eng[e].cleanup # "none" \/ up[e] # "open"

\* Unless a page gives up or the channel goes away, a file that is sent is
\* offered, and once it is accepted it arrives (where the file can be read and
\* every frame authenticates): no promise of the two engines is left
\* unresolved, whichever confirmation, acceptance or full buffer came first.
Delivers ==
    /\ pos # "none" ~> (eng["recipient"].offered \/ GivenUp)
    /\ eng["recipient"].accepted
         ~> \/ pos = "done" /\ \A e \in Engines : eng[e].state = "completed"
            \/ GivenUp

\* sendFile() does not hang: once either page has given up or the channel is
\* gone, it returns or throws.  The one exception is an engine that failed
\* before its own confirmation was out: that sendFile() then waits for the
\* peer's confirmation until its page disposes of the engine.
SendFileSettles ==
    GivenUp
        ~> \/ pos \in {"none", "done", "error"}
           \/ /\ pos = "await confirm"
              /\ eng["sender"].state = "failed"
              /\ ~eng["sender"].recvConf

=============================================================================
