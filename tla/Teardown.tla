------------------------------ MODULE Teardown ------------------------------
(***************************************************************************)
(* The RTCP path of one publisher and its end (internal/sfu/router.go,     *)
(* publisher.go, receiver.go, internal/buffer/buffer.go, factory.go).      *)
(*                                                                         *)
(* What the SFU has to tell the publisher's client goes through the        *)
(* channel rtcpCh of the router, which one goroutine, sendRTCP, empties.   *)
(* Those who fill it hold locks meanwhile: Buffer.calc the Buffer's, a     *)
(* writer its layer's and the receiver's rtcpMu, AddReceiver the router's. *)
(* Publisher.Close first stops sendRTCP and then closes the                *)
(* PeerConnection, which closes the Buffers and needs their locks.         *)
(*                                                                         *)
(* Each Buffer belongs to a track of one layer with a Receiver of its own. *)
(* Channels are abstracted to how many elements they hold.  A goroutine    *)
(* that sends on a closed channel or uses a nil pointer panics, which ends *)
(* the process; the model lets the other goroutines run on.                *)
(***************************************************************************)
EXTENDS Naturals

CONSTANTS
    Buffers,     \* the SSRCs of the publisher's tracks, each with one Buffer
    None,        \* nobody
    RtcpCap,     \* capacity of rtcpCh (10)
    ChanCap,     \* capacity of packetChan (100)
    MaxPending   \* bound: packets kept for Bind

ASSUME TeardownAssumption ==
    /\ {RtcpCap, ChanCap, MaxPending} \subseteq Nat \ {0}
    /\ None \notin Buffers

VARIABLES
    queued,      \* elements of rtcpCh
    sending,     \* the goroutine sendRTCP runs
    closer,      \* Publisher.Close, inside closeOnce
    toClose,     \* Buffers that pc.Close has still to close
    rtpBuffers,  \* Factory.rtpBuffers
    rtcpReader,  \* Factory.rtcpReader
    buf,         \* the Buffers
    net,         \* the SRTP goroutine: the Buffer it has a packet for
    onTrack,     \* the OnTrack goroutine of a track
    receivers,   \* router.receivers
    routerLock,  \* holder of the router's lock: AddReceiver of a track, or "Join"
    joinTodo,    \* receivers that AddDownTracks of a joining peer has still to visit
    writer,      \* writeRTP, then closeTracks, of a receiver
    handler,     \* handleRTCP of a down track of the receiver
    worker       \* a task of the receiver's nackWorker

closeVars  == <<sending, closer, toClose>>
bufferVars == <<rtpBuffers, rtcpReader, buf, net>>
routerVars == <<onTrack, receivers, routerLock, joinTodo>>
trackVars  == <<writer, handler, worker>>
vars == <<queued, closeVars, bufferVars, routerVars, trackVars>>

\* lock: who is in calc with the Buffer's lock, "Write" or "Bind"; calc: how
\* far it is.  All other uses of the lock are single steps.
Buffer == [bound : BOOLEAN, closed : BOOLEAN, pending : 0 .. MaxPending,
           packetChan : 0 .. ChanCap, lock : {"free", "Write", "Bind"},
           calc : {"idle", "nackSend", "chan", "twcc", "twccSend", "reportSend", "return"}]

NewBuffer == [bound |-> FALSE, closed |-> FALSE, pending |-> 0, packetChan |-> 0,
              lock |-> "free", calc |-> "idle"]

\* The Buffers that have been created and not been closed.
Open == {b \in Buffers : onTrack[b] # "none" /\ ~buf[b].closed}

Init ==
    /\ queued = 0
    /\ sending = TRUE
    /\ closer = "no"
    /\ toClose = {}
    /\ rtpBuffers = {}
    /\ rtcpReader = {}
    /\ buf = [b \in Buffers |-> NewBuffer]
    /\ net = None
    /\ onTrack = [b \in Buffers |-> "none"]
    /\ receivers = {}
    /\ routerLock = None
    /\ joinTodo = {}
    /\ writer = [b \in Buffers |-> "none"]
    /\ handler = [b \in Buffers |-> "idle"]
    /\ worker = [b \in Buffers |-> "idle"]

\* Variant: the channel has no bound.
ToRtcpChUnbounded == queued' = queued + 1

\* An element is put into rtcpCh.
ToRtcpCh == queued < RtcpCap /\ queued' = queued + 1

\* Variant: sendRTCP ends when WriteRTCP fails.
SendRTCPUntilError ==
    /\ sending /\ queued > 0
    /\ queued' = queued - 1
    /\ sending' \in BOOLEAN
    /\ UNCHANGED <<closer, toClose, bufferVars, routerVars, trackVars>>

\* One element of rtcpCh is written; an error is only logged.
SendRTCP ==
    /\ sending /\ queued > 0
    /\ queued' = queued - 1
    /\ UNCHANGED <<closeVars, bufferVars, routerVars, trackVars>>

-----------------------------------------------------------------------------
(* A Buffer: Write, Bind and what both have in common, calc.               *)

\* Variant: GetOrNew does not keep the Buffer it has made.
OpenTrackUnregistered(b) ==
    /\ closer \in {"no", "stop"}
    /\ onTrack[b] = "none"
    /\ rtcpReader' = rtcpReader \cup {b}
    /\ onTrack' = [onTrack EXCEPT ![b] = "called"]
    /\ UNCHANGED <<queued, closeVars, rtpBuffers, buf, net>>
    /\ UNCHANGED <<receivers, routerLock, joinTodo, trackVars>>

\* pion opens the streams of a track: GetOrNew creates the Buffer and the RTCP
\* reader, and the OnTrack callback gets a goroutine of its own.
OpenTrack(b) ==
    /\ closer \in {"no", "stop"}
    /\ onTrack[b] = "none"
    /\ rtpBuffers' = rtpBuffers \cup {b}
    /\ rtcpReader' = rtcpReader \cup {b}
    /\ onTrack' = [onTrack EXCEPT ![b] = "called"]
    /\ UNCHANGED <<queued, closeVars, buf, net, receivers, routerLock, joinTodo, trackVars>>

\* The SRTP goroutine has decrypted a packet and looked up its stream.
ReadSRTP(b) ==
    /\ closer # "done"
    /\ net = None
    /\ b \in Open
    /\ net' = b
    /\ UNCHANGED <<queued, closeVars, rtpBuffers, rtcpReader, buf, routerVars, trackVars>>

\* A packet that waits for Bind.
Keep(b) == [buf EXCEPT ![b].pending = IF @ < MaxPending THEN @ + 1 ELSE @]

\* calc begins with addPacket: onLost sends NACKs, if there are any.
Enter(b, who, to) == [buf EXCEPT ![b].lock = who, ![b].calc = to]

AfterAddPacket == {"nackSend", "chan"}

\* Variant: closed is not tested.
WriteUnchecked(b) ==
    /\ net = b
    /\ buf[b].lock = "free"
    /\ \/ ~buf[b].bound /\ buf' = Keep(b) /\ net' = None
       \/ buf[b].bound /\ UNCHANGED net
          /\ \E to \in AfterAddPacket : buf' = Enter(b, "Write", to)
    /\ UNCHANGED <<queued, closeVars, rtpBuffers, rtcpReader, routerVars, trackVars>>

\* Buffer.Write: EOF if closed; kept for Bind if not bound; else calc.
Write(b) ==
    /\ net = b
    /\ buf[b].lock = "free"
    /\ \/ buf[b].closed /\ net' = None /\ UNCHANGED buf
       \/ ~buf[b].closed /\ ~buf[b].bound /\ buf' = Keep(b) /\ net' = None
       \/ ~buf[b].closed /\ buf[b].bound /\ UNCHANGED net
          /\ \E to \in AfterAddPacket : buf' = Enter(b, "Write", to)
    /\ UNCHANGED <<queued, closeVars, rtpBuffers, rtcpReader, routerVars, trackVars>>

\* calc goes from one stage to the next.
CalcGoes(b, from, to) ==
    /\ buf[b].calc = from
    /\ buf' = [buf EXCEPT ![b].calc = to]
    /\ UNCHANGED <<closeVars, rtpBuffers, rtcpReader, net, routerVars, trackVars>>

\* onLost.
SendNack(b) == CalcGoes(b, "nackSend", "chan") /\ ToRtcpCh

\* The packet does not parse: calc returns early.
BadPacket(b) ==
    onTrack[b] # "panic" /\ CalcGoes(b, "chan", "return") /\ UNCHANGED queued

\* packetChan <- ep, under the Buffer's lock.
PassOn(b) ==
    /\ buf[b].calc = "chan"
    /\ ~buf[b].closed
    /\ buf[b].packetChan < ChanCap
    /\ buf' = [buf EXCEPT ![b].packetChan = @ + 1, ![b].calc = "twcc"]
    /\ UNCHANGED <<queued, closeVars, rtpBuffers, rtcpReader, net, routerVars, trackVars>>

\* The same if packetChan is closed.
BindPanics(b) ==
    /\ buf[b].calc = "chan"
    /\ buf[b].closed
    /\ onTrack[b] = "binding"
    /\ onTrack' = [onTrack EXCEPT ![b] = "panic"]
    /\ UNCHANGED <<queued, closeVars, bufferVars, receivers, routerLock, joinTodo, trackVars>>

\* Once a second calc sends getRTCP at its end.
AfterTwcc == {"reportSend", "return"}

\* feedbackTWCC: Responder.Push, whose lock is held while a packet is sent; or
\* the packet carries no transport-wide number.
PushTwcc(b) ==
    /\ \A c \in Buffers : buf[c].calc # "twccSend"
    /\ \E to \in {"twccSend"} \cup AfterTwcc : CalcGoes(b, "twcc", to)
    /\ UNCHANGED queued

SendTwcc(b) == (\E to \in AfterTwcc : CalcGoes(b, "twccSend", to)) /\ ToRtcpCh

SendReport(b) == CalcGoes(b, "reportSend", "return") /\ ToRtcpCh

WriteReturns(b) ==
    /\ buf[b].calc = "return" /\ buf[b].lock = "Write"
    /\ buf' = [buf EXCEPT ![b].calc = "idle", ![b].lock = "free"]
    /\ net' = None
    /\ UNCHANGED <<queued, closeVars, rtpBuffers, rtcpReader, routerVars, trackVars>>

\* All pending packets are through: Bind and AddReceiver return.
BindReturns(b) ==
    /\ buf' = [buf EXCEPT ![b].bound = TRUE, ![b].calc = "idle", ![b].lock = "free"]
    /\ onTrack' = [onTrack EXCEPT ![b] = "done"]
    /\ routerLock' = None

\* The next of the pending packets, or the end.
NextPending(b) ==
    /\ \/ /\ buf[b].pending = 0
          /\ BindReturns(b)
       \/ /\ buf[b].pending > 0
          /\ \E to \in AfterAddPacket :
                buf' = [Enter(b, "Bind", to) EXCEPT ![b].pending = @ - 1]
          /\ onTrack' = [onTrack EXCEPT ![b] = "binding"]
          /\ UNCHANGED routerLock
    /\ UNCHANGED <<queued, closeVars, rtpBuffers, rtcpReader, net, receivers, joinTodo, trackVars>>

\* Buffer.Bind, which does not ask whether the Buffer is closed.
Bind(b) == onTrack[b] = "bind" /\ buf[b].lock = "free" /\ NextPending(b)

BindContinues(b) == buf[b].calc = "return" /\ buf[b].lock = "Bind" /\ NextPending(b)

\* Buffer.Close: its close handler takes it out of the factory.
CloseBuffer(b) ==
    /\ buf[b].lock = "free"
    /\ buf' = [buf EXCEPT ![b].closed = TRUE]
    /\ rtpBuffers' = rtpBuffers \ {b}

\* RTCPReader.Close: its close handler takes it out of the factory.
CloseReader(b) == rtcpReader' = rtcpReader \ {b}

\* pion stops the receiver of a track: the RTCP stream is closed, then the
\* other one.
CloseStreams(b) ==
    \/ b \in rtcpReader /\ CloseReader(b) /\ UNCHANGED <<rtpBuffers, buf>>
    \/ b \notin rtcpReader /\ CloseBuffer(b) /\ UNCHANGED rtcpReader

\* The client has removed the track.
RemoveTrack(b) ==
    /\ closer \in {"no", "stop"}
    /\ b \in Open
    /\ CloseStreams(b)
    /\ UNCHANGED <<queued, closeVars, net, routerVars, trackVars>>

-----------------------------------------------------------------------------
(* The router.                                                             *)

\* AddReceiver: the Buffer and the RTCP reader are looked up, the Receiver made
\* and its writer started; Bind follows under the same lock.
AddReceiver(b) ==
    /\ onTrack[b] = "called"
    /\ routerLock = None
    /\ b \in rtpBuffers \cap rtcpReader
    /\ routerLock' = b
    /\ receivers' = receivers \cup {b}
    /\ writer' = [writer EXCEPT ![b] = "range"]
    /\ onTrack' = [onTrack EXCEPT ![b] = "bind"]
    /\ UNCHANGED <<queued, closeVars, bufferVars, joinTodo, handler, worker>>

\* GetBufferPair does not find both, and the nil Buffer or the nil reader is used.
AddReceiverPanics(b) ==
    /\ onTrack[b] = "called"
    /\ routerLock = None
    /\ b \notin rtpBuffers \cap rtcpReader
    /\ onTrack' = [onTrack EXCEPT ![b] = "panic"]
    /\ UNCHANGED <<queued, closeVars, bufferVars, receivers, routerLock, joinTodo, trackVars>>

\* AddDownTracks for a peer that joins: all receivers, each under its layer's lock.
JoinLocks ==
    /\ routerLock = None
    /\ receivers # {}
    /\ routerLock' = "Join"
    /\ joinTodo' = receivers
    /\ UNCHANGED <<queued, closeVars, bufferVars, onTrack, receivers, trackVars>>

\* Variant: the lock is kept when AddDownTrack fails on a track that has ended.
JoinVisitsUntilError(b) ==
    /\ routerLock = "Join"
    /\ b \in joinTodo
    /\ writer[b] \notin {"write", "rtcpMu", "pli"}
    /\ joinTodo' = joinTodo \ {b}
    /\ routerLock' = IF joinTodo = {b} /\ ~buf[b].closed THEN None ELSE "Join"
    /\ UNCHANGED <<queued, closeVars, bufferVars, onTrack, receivers, trackVars>>

\* After the last of them the router's lock is released.
JoinVisits(b) ==
    /\ routerLock = "Join"
    /\ b \in joinTodo
    /\ writer[b] \notin {"write", "rtcpMu", "pli"}
    /\ joinTodo' = joinTodo \ {b}
    /\ routerLock' = IF joinTodo = {b} THEN None ELSE "Join"
    /\ UNCHANGED <<queued, closeVars, bufferVars, onTrack, receivers, trackVars>>

-----------------------------------------------------------------------------
(* The receiver: writeRTP, SendRTCP, RetransmitPackets, closeTracks.       *)

\* A packet is taken from packetChan and the layer's lock is taken.
ReadChan(b) ==
    /\ writer[b] = "range"
    /\ buf[b].packetChan > 0
    /\ buf' = [buf EXCEPT ![b].packetChan = @ - 1]
    /\ writer' = [writer EXCEPT ![b] = "write"]
    /\ UNCHANGED <<queued, closeVars, rtpBuffers, rtcpReader, net, routerVars, handler, worker>>

\* rtcpMu is free.
RtcpMuFree(b) == writer[b] # "pli" /\ handler[b] # "pli"

\* The goroutine writeRTP goes from one stage to the next.
WriterGoes(b, from, to) ==
    /\ writer[b] = from
    /\ writer' = [writer EXCEPT ![b] = to]
    /\ UNCHANGED <<closeVars, bufferVars, routerVars, handler, worker>>

\* All down tracks have the packet.
WriteDone(b) == WriterGoes(b, "write", "range") /\ UNCHANGED queued

\* A down track waits for a key frame and calls SendRTCP.
AskKeyFrame(b) == WriterGoes(b, "write", "rtcpMu") /\ UNCHANGED queued

\* SendRTCP with rtcpMu: nothing is sent within 500 ms of the last PLI.
WriterLocksRtcpMu(b) ==
    /\ RtcpMuFree(b)
    /\ \E to \in {"pli", "write"} : WriterGoes(b, "rtcpMu", to)
    /\ UNCHANGED queued

WriterSendsPLI(b) == WriterGoes(b, "pli", "write") /\ ToRtcpCh

HandlerGoes(b, from, to) ==
    /\ handler[b] = from
    /\ handler' = [handler EXCEPT ![b] = to]
    /\ UNCHANGED <<closeVars, bufferVars, routerVars, writer, worker>>

\* handleRTCP forwards a subscriber's PLI, or a FIR first, by SendRTCP.
ForwardPLI(b) == b \in receivers /\ HandlerGoes(b, "idle", "rtcpMu") /\ UNCHANGED queued

ForwardFIR(b) == b \in receivers /\ HandlerGoes(b, "idle", "fir") /\ UNCHANGED queued

HandlerLocksRtcpMu(b) ==
    /\ RtcpMuFree(b)
    /\ \E to \in {"pli", "idle"} : HandlerGoes(b, "rtcpMu", to)
    /\ UNCHANGED queued

HandlerSends(b) == (HandlerGoes(b, "pli", "idle") \/ HandlerGoes(b, "fir", "idle")) /\ ToRtcpCh

\* nackWorker.Stop has begun: its channel of tasks is closed.
WorkerStopped(b) == writer[b] \in {"stopping", "stopped", "done"}

\* handleRTCP has a NACK: RetransmitPackets finds the nackWorker not stopped.
\* The nackWorker has at most one task at a time.
Retransmit(b) ==
    /\ b \in receivers
    /\ ~WorkerStopped(b)
    /\ worker[b] = "idle"
    /\ HandlerGoes(b, "idle", "submit")
    /\ UNCHANGED queued

\* The task is handed to the nackWorker ...
Submit(b) ==
    /\ handler[b] = "submit"
    /\ ~WorkerStopped(b)
    /\ handler' = [handler EXCEPT ![b] = "idle"]
    /\ worker' = [worker EXCEPT ![b] = "get"]
    /\ UNCHANGED <<queued, closeVars, bufferVars, routerVars, writer>>

\* ... or sent on the closed channel.
SubmitPanics(b) ==
    /\ WorkerStopped(b)
    /\ HandlerGoes(b, "submit", "panic")
    /\ UNCHANGED queued

\* GetPacket, under the Buffer's lock.
GetPacket(b) ==
    /\ worker[b] = "get"
    /\ buf[b].lock = "free"
    /\ worker' = [worker EXCEPT ![b] = "idle"]
    /\ UNCHANGED <<queued, closeVars, bufferVars, routerVars, writer, handler>>

\* Variant: closeTracks is not started.
WriterEndsQuietly(b) ==
    /\ buf[b].closed /\ buf[b].packetChan = 0
    /\ WriterGoes(b, "range", "done") /\ UNCHANGED queued

\* packetChan is closed and empty: writeRTP ends and starts closeTracks, where
\* nackWorker.Stop closes the channel of tasks ...
WriterEnds(b) ==
    /\ buf[b].closed /\ buf[b].packetChan = 0
    /\ WriterGoes(b, "range", "stopping") /\ UNCHANGED queued

\* ... and waits for the running task.
StopWorker(b) == worker[b] = "idle" /\ WriterGoes(b, "stopping", "stopped") /\ UNCHANGED queued

\* The Receiver's close handler, under the router's lock.
DeleteReceiver(b) ==
    /\ writer[b] = "stopped"
    /\ routerLock = None
    /\ receivers' = receivers \ {b}
    /\ writer' = [writer EXCEPT ![b] = "done"]
    /\ UNCHANGED <<queued, closeVars, bufferVars, onTrack, routerLock, joinTodo, handler, worker>>

-----------------------------------------------------------------------------
(* Publisher.Close, from Peer.Close or the ICE callback, once.             *)

Close ==
    /\ closer = "no"
    /\ closer' = "stop"
    /\ UNCHANGED <<queued, sending, toClose, bufferVars, routerVars, trackVars>>

\* router.Stop: stopCh has no place, so sendRTCP must take the signal.
Stop ==
    /\ closer = "stop"
    /\ sending
    /\ sending' = FALSE
    /\ closer' = "pc"
    /\ toClose' = Open
    /\ UNCHANGED <<queued, bufferVars, routerVars, trackVars>>

\* pc.Close: one Buffer after another.
CloseNext(b) ==
    /\ closer = "pc"
    /\ b \in toClose
    /\ CloseStreams(b)
    /\ toClose' = IF b \in rtcpReader THEN toClose ELSE toClose \ {b}
    /\ UNCHANGED <<queued, sending, closer, net, routerVars, trackVars>>

\* pc.Close: it waits for the SRTP goroutine.
PCClosed ==
    /\ closer = "pc"
    /\ toClose = {}
    /\ net = None
    /\ closer' = "done"
    /\ UNCHANGED <<queued, sending, toClose, bufferVars, routerVars, trackVars>>

-----------------------------------------------------------------------------
CalcStep(b) ==
    \/ SendNack(b) \/ BadPacket(b) \/ PassOn(b) \/ BindPanics(b)
    \/ PushTwcc(b) \/ SendTwcc(b) \/ SendReport(b)
    \/ WriteReturns(b) \/ BindContinues(b)

OnTrackStep(b) == AddReceiver(b) \/ AddReceiverPanics(b) \/ Bind(b)

WriterStep(b) ==
    \/ ReadChan(b) \/ WriteDone(b)
    \/ AskKeyFrame(b) \/ WriterLocksRtcpMu(b) \/ WriterSendsPLI(b)
    \/ WriterEnds(b) \/ StopWorker(b) \/ DeleteReceiver(b)

HandlerStep(b) == HandlerLocksRtcpMu(b) \/ HandlerSends(b) \/ Submit(b) \/ SubmitPanics(b)

JoinStep == \E b \in Buffers : JoinVisits(b)

CloseStep == Stop \/ PCClosed \/ \E b \in Buffers : CloseNext(b)

Next ==
    \/ SendRTCP \/ JoinLocks \/ JoinStep \/ Close \/ CloseStep
    \/ \E b \in Buffers :
          \/ OpenTrack(b) \/ ReadSRTP(b) \/ Write(b) \/ CalcStep(b) \/ OnTrackStep(b)
          \/ RemoveTrack(b) \/ WriterStep(b)
          \/ ForwardPLI(b) \/ ForwardFIR(b) \/ Retransmit(b) \/ HandlerStep(b) \/ GetPacket(b)

Spec == Init /\ [][Next]_vars

\* A goroutine that can go on again and again goes on: a Go mutex starves
\* nobody, goroutines that wait for a channel are served in order, and the
\* select of sendRTCP prefers no case.  A writer's list is finite.
FairSpec ==
    /\ Spec
    /\ WF_vars(SendRTCP) /\ SF_vars(JoinStep) /\ SF_vars(CloseStep)
    /\ \A b \in Buffers :
          /\ SF_vars(Write(b)) /\ SF_vars(CalcStep(b)) /\ SF_vars(OnTrackStep(b))
          /\ SF_vars(WriterStep(b)) /\ SF_vars(WriteDone(b))
          /\ SF_vars(HandlerStep(b)) /\ SF_vars(GetPacket(b))

-----------------------------------------------------------------------------
(* Properties.                                                             *)

TypeOK ==
    /\ queued \in 0 .. RtcpCap
    /\ sending \in BOOLEAN
    /\ closer \in {"no", "stop", "pc", "done"}
    /\ toClose \subseteq Buffers
    /\ rtpBuffers \subseteq Buffers
    /\ rtcpReader \subseteq Buffers
    /\ buf \in [Buffers -> Buffer]
    /\ net \in Buffers \cup {None}
    /\ onTrack \in [Buffers -> {"none", "called", "bind", "binding", "done", "panic"}]
    /\ receivers \subseteq Buffers
    /\ joinTodo \subseteq Buffers
    /\ routerLock \in Buffers \cup {None, "Join"}
    /\ writer \in [Buffers ->
            {"none", "range", "write", "rtcpMu", "pli", "stopping", "stopped", "done"}]
    /\ handler \in [Buffers -> {"idle", "rtcpMu", "pli", "fir", "submit", "panic"}]
    /\ worker \in [Buffers -> {"idle", "get"}]

\* Write never sends on a closed packetChan, whenever the Buffer is closed,
\* and the SRTP goroutine is in at most one Buffer.
WriteIsSafe ==
    \A b \in Buffers : buf[b].lock = "Write" => ~buf[b].closed /\ net = b

\* None of these goroutines panics while its track lives.  An OnTrack callback
\* does only when the streams of its track are being closed: when it finds no
\* Buffer or no RTCP reader, or binds a closed Buffer.  A retransmission does
\* only when its track has ended and closeTracks has stopped the nackWorker.
PanicNeedsEndingTrack ==
    \A b \in Buffers :
        /\ onTrack[b] = "panic" => b \notin rtcpReader
        /\ handler[b] = "panic" => buf[b].closed /\ WorkerStopped(b)

\* Nobody takes from rtcpCh any more, and it is full.
Jammed == ~sending /\ queued = RtcpCap

\* The promises below end where rtcpCh is jammed or the process has ended.
Over == Jammed \/ \E b \in Buffers : "panic" \in {onTrack[b], handler[b]}

\* Publisher.Close returns, although it waits for sendRTCP, the Buffers' locks
\* and the SRTP goroutine one after another, unless rtcpCh has filled up after
\* sendRTCP ended.
CloseReturns == closer = "stop" ~> (closer = "done" \/ Over)

\* A peer that joins gets through this publisher's receivers and lets go of
\* the router's lock, whoever of the writers waits for what.
JoinReturns == routerLock = "Join" ~> (routerLock # "Join" \/ Over)

\* The router forgets the receiver of a track whose Buffer was closed: its
\* writer ends, no task of the nackWorker keeps closeTracks waiting.
EndedTracksAreDeleted ==
    \A b \in Buffers :
        (buf[b].closed /\ b \in receivers) ~> (b \notin receivers \/ Over)

\* Every Buffer that is open can be found by the OnTrack callback.
OpenAreListed == Open \subseteq rtpBuffers

\* Only what was opened is closed, the RTCP reader before the Buffer, and the
\* nackWorker is stopped after that.
ClosedInOrder ==
    \A b \in Buffers :
        /\ onTrack[b] = "none" => ~buf[b].closed /\ b \notin toClose
        /\ buf[b].closed => b \notin rtcpReader
        /\ WorkerStopped(b) => buf[b].closed

\* calc on behalf of Bind is run by the OnTrack callback.
BindIsOnTrack == \A b \in Buffers : buf[b].lock = "Bind" => onTrack[b] \in {"binding", "panic"}

TracksOK == PanicNeedsEndingTrack /\ OpenAreListed /\ ClosedInOrder /\ BindIsOnTrack

\* The inductive invariant behind the theorems of TeardownProofs.
IInv == TypeOK /\ WriteIsSafe /\ TracksOK

=============================================================================
