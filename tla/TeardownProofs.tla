--------------------------- MODULE TeardownProofs ---------------------------
(***************************************************************************)
(* Theorems about module Teardown for any set of tracks and any capacity   *)
(* of the channels: however packets, feedback, joins, ended tracks and     *)
(* Publisher.Close interleave, Write meets no closed channel, and nobody   *)
(* panics but who comes too late for a track whose streams are closing.    *)
(***************************************************************************)
EXTENDS Teardown, TLAPS

\* A publisher without tracks satisfies the inductive invariant.
LEMMA InitIInv == Init => IInv
  <1> SUFFICES ASSUME Init
               PROVE  IInv
    OBVIOUS
  <1> USE TeardownAssumption DEF TeardownAssumption, Init
  <1>1. NewBuffer \in Buffer
    BY DEF NewBuffer, Buffer
  <1>2. TypeOK
    BY <1>1 DEF TypeOK
  <1>3. WriteIsSafe
    BY DEF WriteIsSafe, NewBuffer
  <1>4. TracksOK
    BY DEF TracksOK, PanicNeedsEndingTrack, OpenAreListed, ClosedInOrder, BindIsOnTrack, Open,
           WorkerStopped, NewBuffer
  <1>5. QED
    BY <1>2, <1>3, <1>4 DEF IInv

\* What the invariant says of the Buffers, apart from types, depends on these
\* variables only.
SafetyVars == <<buf, net, onTrack, rtpBuffers, rtcpReader, toClose, writer, handler>>

LEMMA SafetyKept ==
  ASSUME IInv, UNCHANGED SafetyVars
  PROVE  WriteIsSafe' /\ TracksOK'
  BY DEF IInv, SafetyVars, WriteIsSafe, TracksOK, PanicNeedsEndingTrack, OpenAreListed,
         ClosedInOrder, BindIsOnTrack, Open, WorkerStopped

\* A step that only changes the stage or the channel of a Buffer.
LEMMA CalcKept ==
  ASSUME IInv, NEW b \in Buffers, NEW new \in Buffer,
         new.lock = buf[b].lock, new.closed = buf[b].closed,
         buf' = [buf EXCEPT ![b] = new],
         UNCHANGED <<net, onTrack, rtpBuffers, rtcpReader, toClose, handler>>,
         \A c \in Buffers : WorkerStopped(c)' <=> WorkerStopped(c)
  PROVE  /\ buf' \in [Buffers -> Buffer]
         /\ WriteIsSafe' /\ TracksOK'
  <1> USE DEF IInv
  <1>1. buf' \in [Buffers -> Buffer]
    BY DEF TypeOK
  <1>2. \A c \in Buffers : buf'[c].lock = buf[c].lock /\ buf'[c].closed = buf[c].closed
    BY DEF TypeOK
  <1>3. WriteIsSafe'
    BY <1>2 DEF WriteIsSafe
  <1>4. TracksOK'
    BY <1>2
       DEF TracksOK, PanicNeedsEndingTrack, OpenAreListed, ClosedInOrder, BindIsOnTrack, Open
  <1>5. QED
    BY <1>1, <1>3, <1>4

\* calc goes to another stage, with or without an element for rtcpCh.
LEMMA CalcGoesKept ==
  ASSUME IInv, NEW b \in Buffers, NEW from,
         NEW to \in {"chan", "twccSend", "reportSend", "return"},
         CalcGoes(b, from, to), UNCHANGED queued \/ ToRtcpCh
  PROVE  IInv'
  <1> USE DEF IInv
  <1> DEFINE new == [buf[b] EXCEPT !.calc = to]
  <1>1. new \in Buffer /\ new.lock = buf[b].lock /\ new.closed = buf[b].closed
    BY DEF TypeOK, Buffer
  <1>2. /\ buf' = [buf EXCEPT ![b] = new]
        /\ UNCHANGED <<net, onTrack, rtpBuffers, rtcpReader, toClose, writer, handler>>
    BY DEF CalcGoes, closeVars, routerVars, trackVars
  <1> HIDE DEF new
  <1>3. /\ buf' \in [Buffers -> Buffer]
        /\ WriteIsSafe' /\ TracksOK'
    BY <1>1, <1>2, CalcKept DEF WorkerStopped
  <1>4. queued' \in 0 .. RtcpCap
    BY TeardownAssumption DEF TeardownAssumption, TypeOK, ToRtcpCh
  <1>5. TypeOK'
    BY <1>3, <1>4 DEF TypeOK, CalcGoes, closeVars, routerVars, trackVars
  <1>6. QED
    BY <1>3, <1>5

\* The steps of calc, but for its begin and end: the SRTP goroutine or Bind
\* goes through the NACKs, packetChan, the TWCC responder and the reports.
LEMMA CalcPreserves ==
  ASSUME IInv, NEW b \in Buffers,
         \/ SendNack(b) \/ BadPacket(b) \/ PassOn(b) \/ BindPanics(b)
         \/ PushTwcc(b) \/ SendTwcc(b) \/ SendReport(b)
  PROVE  IInv'
  <1>1. CASE SendNack(b) \/ BadPacket(b)
    BY <1>1, CalcGoesKept DEF SendNack, BadPacket
  <1>2. CASE PushTwcc(b) \/ SendTwcc(b)
    BY <1>2, CalcGoesKept DEF PushTwcc, SendTwcc, AfterTwcc
  <1>3. CASE SendReport(b)
    BY <1>3, CalcGoesKept DEF SendReport
  <1>4. CASE PassOn(b)
    <2> USE <1>4 DEF IInv, PassOn
    <2> DEFINE new == [buf[b] EXCEPT !.packetChan = @ + 1, !.calc = "twcc"]
    <2>1. new \in Buffer /\ new.lock = buf[b].lock /\ new.closed = buf[b].closed
      BY TeardownAssumption DEF TeardownAssumption, TypeOK, Buffer
    <2>2. /\ buf' = [buf EXCEPT ![b] = new]
          /\ UNCHANGED <<net, onTrack, rtpBuffers, rtcpReader, toClose, writer, handler>>
      BY DEF TypeOK, Buffer, closeVars, routerVars, trackVars
    <2> HIDE DEF new
    <2>3. /\ buf' \in [Buffers -> Buffer]
          /\ WriteIsSafe' /\ TracksOK'
      BY <2>1, <2>2, CalcKept DEF WorkerStopped
    <2>4. TypeOK'
      BY <2>3 DEF TypeOK, closeVars, routerVars, trackVars
    <2>5. QED
      BY <2>3, <2>4
  <1>5. CASE BindPanics(b)
    <2> USE <1>5 DEF IInv, BindPanics
    <2>1. TypeOK'
      BY DEF TypeOK, closeVars, bufferVars, trackVars
    <2>2. WriteIsSafe'
      BY DEF WriteIsSafe, bufferVars
    <2>3. b \notin rtcpReader
      BY DEF TracksOK, ClosedInOrder
    <2>4. TracksOK'
      BY <2>3 DEF TracksOK, PanicNeedsEndingTrack, OpenAreListed, ClosedInOrder, BindIsOnTrack,
             Open, WorkerStopped, TypeOK, closeVars, bufferVars, trackVars
    <2>5. QED
      BY <2>1, <2>2, <2>4
  <1>6. QED
    BY <1>1, <1>2, <1>3, <1>4, <1>5

\* A packet that is kept for Bind changes neither lock nor closed.
LEMMA KeepType ==
  ASSUME TypeOK, NEW b \in Buffers
  PROVE  /\ Keep(b) \in [Buffers -> Buffer]
         /\ \A c \in Buffers : Keep(b)[c].closed = buf[c].closed /\ Keep(b)[c].lock = buf[c].lock
  <1> USE TeardownAssumption DEF TeardownAssumption
  <1> DEFINE n == IF buf[b].pending < MaxPending THEN buf[b].pending + 1 ELSE buf[b].pending
             new == [buf[b] EXCEPT !.pending = n]
  <1>1. n \in 0 .. MaxPending
    BY DEF TypeOK, Buffer
  <1>2. new \in Buffer /\ new.lock = buf[b].lock /\ new.closed = buf[b].closed
    <2> HIDE DEF n
    <2>1. QED
      BY <1>1 DEF TypeOK, Buffer
  <1>3. Keep(b) = [buf EXCEPT ![b] = new]
    BY DEF Keep, TypeOK
  <1> HIDE DEF new
  <1>4. QED
    BY <1>2, <1>3 DEF TypeOK

\* calc begins: the lock is taken, the Buffer stays open or closed.
LEMMA EnterType ==
  ASSUME TypeOK, NEW b \in Buffers, NEW who \in {"Write", "Bind"}, NEW to \in AfterAddPacket
  PROVE  /\ Enter(b, who, to) \in [Buffers -> Buffer]
         /\ \A c \in Buffers :
               /\ Enter(b, who, to)[c].closed = buf[c].closed
               /\ Enter(b, who, to)[c].pending = buf[c].pending
               /\ Enter(b, who, to)[c].lock = IF c = b THEN who ELSE buf[c].lock
  <1> DEFINE new == [buf[b] EXCEPT !.lock = who, !.calc = to]
  <1>0. buf[b] \in Buffer
    BY DEF TypeOK
  <1>1. /\ new \in Buffer
        /\ new.lock = who /\ new.closed = buf[b].closed /\ new.pending = buf[b].pending
    BY <1>0 DEF Buffer, AfterAddPacket
  <1>2. Enter(b, who, to) = [buf EXCEPT ![b] = new]
    BY DEF Enter, TypeOK, Buffer
  <1> HIDE DEF new
  <1>3. QED
    BY <1>1, <1>2 DEF TypeOK

\* A Buffer is made, a packet is read for it, and Write takes it in and returns.
LEMMA WritePreserves ==
  ASSUME IInv, NEW b \in Buffers,
         OpenTrack(b) \/ ReadSRTP(b) \/ Write(b) \/ WriteReturns(b)
  PROVE  IInv'
  <1> USE TeardownAssumption DEF TeardownAssumption, IInv, closeVars, trackVars
  <1>1. CASE OpenTrack(b)
    <2> USE <1>1 DEF OpenTrack
    <2>1. TypeOK'
      BY DEF TypeOK, closeVars, trackVars
    <2>2. WriteIsSafe' /\ TracksOK'
      BY DEF WriteIsSafe, TracksOK, PanicNeedsEndingTrack, OpenAreListed, ClosedInOrder,
             BindIsOnTrack, Open, WorkerStopped, TypeOK
    <2>3. QED
      BY <2>1, <2>2
  <1>2. CASE ReadSRTP(b)
    <2> USE <1>2 DEF ReadSRTP
    <2>1. TypeOK'
      BY DEF TypeOK, closeVars, routerVars, trackVars
    <2>2. WriteIsSafe'
      BY DEF WriteIsSafe, TypeOK
    <2>3. TracksOK'
      BY DEF TracksOK, PanicNeedsEndingTrack, OpenAreListed, ClosedInOrder, BindIsOnTrack,
             Open, WorkerStopped, TypeOK, routerVars
    <2>4. QED
      BY <2>1, <2>2, <2>3
  <1>3. CASE Write(b)
    <2> USE DEF routerVars
    <2>1. /\ buf' \in [Buffers -> Buffer]
          /\ net' \in Buffers \cup {None}
          /\ \A c \in Buffers : buf'[c].closed = buf[c].closed
          /\ \A c \in Buffers : buf'[c].lock = "Write" => net' = c /\ ~buf[c].closed
          /\ \A c \in Buffers : buf'[c].lock = "Bind" => buf[c].lock = "Bind"
      <3>1. net = b /\ buf[b].lock = "free"
        BY <1>3 DEF Write
      <3>2. \A c \in Buffers : buf[c].lock # "Write"
        BY <3>1 DEF WriteIsSafe
      <3>3. CASE net' = None /\ UNCHANGED buf
        BY <3>2, <3>3 DEF TypeOK
      <3>4. CASE net' = None /\ buf' = Keep(b)
        BY <3>2, <3>4, KeepType
      <3>5. CASE /\ ~buf[b].closed /\ UNCHANGED net
                 /\ \E to \in AfterAddPacket : buf' = Enter(b, "Write", to)
        <4>1. /\ buf' \in [Buffers -> Buffer]
              /\ \A c \in Buffers :
                    /\ buf'[c].closed = buf[c].closed
                    /\ buf'[c].lock = IF c = b THEN "Write" ELSE buf[c].lock
          BY <3>5, EnterType
        <4>2. QED
          BY <3>1, <3>2, <3>5, <4>1
      <3>6. QED
        BY <1>3, <3>3, <3>4, <3>5 DEF Write
    <2>2. UNCHANGED <<queued, closeVars, rtpBuffers, rtcpReader, routerVars, trackVars>>
      BY <1>3 DEF Write
    <2>3. TypeOK'
      BY <2>1, <2>2 DEF TypeOK, closeVars, trackVars
    <2>4. WriteIsSafe'
      BY <2>1 DEF WriteIsSafe
    <2>5. TracksOK'
      BY <2>1, <2>2 DEF TracksOK, PanicNeedsEndingTrack, OpenAreListed, ClosedInOrder,
             BindIsOnTrack, Open, WorkerStopped
    <2>6. QED
      BY <2>3, <2>4, <2>5
  <1>4. CASE WriteReturns(b)
    <2> USE <1>4 DEF WriteReturns, routerVars
    <2>1. buf' \in [Buffers -> Buffer]
      BY DEF TypeOK, Buffer
    <2>2. TypeOK'
      BY <2>1 DEF TypeOK, closeVars, trackVars
    <2>3. \A c \in Buffers : buf'[c].closed = buf[c].closed
      BY DEF TypeOK, Buffer
    <2>4. \A c \in Buffers :
             /\ buf'[c].lock = "Write" => c # b /\ buf[c].lock = "Write"
             /\ buf'[c].lock = "Bind" => buf[c].lock = "Bind"
      BY DEF TypeOK, Buffer
    <2>5. WriteIsSafe'
      BY <2>4 DEF WriteIsSafe
    <2>6. TracksOK'
      BY <2>3, <2>4 DEF TracksOK, PanicNeedsEndingTrack, OpenAreListed, ClosedInOrder,
             BindIsOnTrack, Open, WorkerStopped
    <2>7. QED
      BY <2>2, <2>5, <2>6
  <1>5. QED
    BY <1>1, <1>2, <1>3, <1>4

\* Buffer.Bind works through the packets that have waited and returns.
LEMMA BindPreserves ==
  ASSUME IInv, NEW b \in Buffers, Bind(b) \/ BindContinues(b)
  PROVE  IInv'
  <1> USE DEF IInv, closeVars, trackVars
  <1>1. NextPending(b) /\ buf[b].lock # "Write"
    BY DEF Bind, BindContinues
  <1>2. PICK stage \in {"binding", "done"} : onTrack' = [onTrack EXCEPT ![b] = stage]
    BY <1>1 DEF NextPending, BindReturns
  <1>3. PICK new \in Buffer :
          /\ buf' = [buf EXCEPT ![b] = new]
          /\ new.closed = buf[b].closed
          /\ new.lock = "free" \/ (new.lock = "Bind" /\ stage = "binding")
    <2>1. buf[b] \in Buffer
      BY DEF TypeOK
    <2>2. CASE BindReturns(b)
      <3> DEFINE r == [buf[b] EXCEPT !.bound = TRUE, !.calc = "idle", !.lock = "free"]
      <3>1. r \in Buffer /\ r.lock = "free" /\ r.closed = buf[b].closed
        BY <2>1 DEF Buffer
      <3>2. buf' = [buf EXCEPT ![b] = r]
        BY <2>2 DEF BindReturns, TypeOK, Buffer
      <3> HIDE DEF r
      <3>3. QED
        BY <3>1, <3>2
    <2>3. CASE /\ buf[b].pending > 0
               /\ \E to \in AfterAddPacket :
                     buf' = [Enter(b, "Bind", to) EXCEPT ![b].pending = @ - 1]
               /\ onTrack' = [onTrack EXCEPT ![b] = "binding"]
      <3>0. PICK to \in AfterAddPacket :
               buf' = [Enter(b, "Bind", to) EXCEPT ![b].pending = @ - 1]
        BY <2>3
      <3> DEFINE r == [buf[b] EXCEPT !.lock = "Bind", !.calc = to, !.pending = @ - 1]
      <3>1. buf[b].pending - 1 \in 0 .. MaxPending
        BY <2>1, <2>3, TeardownAssumption DEF TeardownAssumption, Buffer
      <3>2. r \in Buffer /\ r.lock = "Bind" /\ r.closed = buf[b].closed
        BY <2>1, <3>1 DEF Buffer, AfterAddPacket
      <3>3. buf' = [buf EXCEPT ![b] = r]
        BY <2>1, <3>0 DEF Enter, TypeOK, Buffer
      <3>4. stage = "binding"
        BY <1>2, <2>3 DEF TypeOK
      <3> HIDE DEF r
      <3>5. QED
        BY <3>2, <3>3, <3>4
    <2>4. QED
      BY <1>1, <2>2, <2>3 DEF NextPending
  <1>4. /\ UNCHANGED <<queued, closeVars, rtpBuffers, rtcpReader, net>>
        /\ UNCHANGED <<receivers, joinTodo, trackVars>>
        /\ routerLock' \in Buffers \cup {None, "Join"}
    BY <1>1 DEF NextPending, BindReturns, TypeOK
  <1>5. onTrack[b] # "none"
    BY DEF Bind, BindContinues, BindIsOnTrack, TracksOK
  <1>6. TypeOK'
    BY <1>2, <1>3, <1>4 DEF TypeOK, closeVars, trackVars
  <1>7. WriteIsSafe'
    BY <1>3, <1>4 DEF WriteIsSafe, TypeOK
  <1>8. TracksOK'
    BY <1>2, <1>3, <1>4, <1>5
       DEF TracksOK, PanicNeedsEndingTrack, OpenAreListed, ClosedInOrder, BindIsOnTrack, Open,
              WorkerStopped, TypeOK
  <1>9. QED
    BY <1>6, <1>7, <1>8

\* The streams of a track are closed, by the client's removal of the track or
\* by pc.Close: the RTCP reader or, when that is done, the Buffer.
LEMMA ClosePreserves ==
  ASSUME IInv, NEW b \in Buffers, RemoveTrack(b) \/ CloseNext(b)
  PROVE  IInv'
  <1> USE DEF IInv
  <1>1. CloseStreams(b) /\ UNCHANGED <<queued, sending, closer, net, routerVars, trackVars>>
    BY DEF RemoveTrack, CloseNext, closeVars
  <1>2. toClose' \subseteq toClose /\ onTrack[b] # "none"
    BY DEF RemoveTrack, CloseNext, closeVars, Open, TracksOK, ClosedInOrder
  <1>3. CASE CloseReader(b) /\ UNCHANGED <<rtpBuffers, buf>>
    <2> USE <1>3 DEF CloseReader, routerVars, trackVars
    <2>1. TypeOK' /\ WriteIsSafe'
      BY <1>1, <1>2 DEF TypeOK, WriteIsSafe
    <2>2. TracksOK'
      BY <1>1, <1>2 DEF TracksOK, PanicNeedsEndingTrack, OpenAreListed, ClosedInOrder,
             BindIsOnTrack, Open, WorkerStopped
    <2>3. QED
      BY <2>1, <2>2
  <1>4. CASE b \notin rtcpReader /\ CloseBuffer(b) /\ UNCHANGED rtcpReader
    <2> DEFINE new == [buf[b] EXCEPT !.closed = TRUE]
    <2>1. new \in Buffer /\ new.closed = TRUE /\ new.lock = "free"
      BY <1>4 DEF CloseBuffer, TypeOK, Buffer
    <2>2. buf' = [buf EXCEPT ![b] = new] /\ rtpBuffers' = rtpBuffers \ {b}
      BY <1>4 DEF CloseBuffer
    <2> HIDE DEF new
    <2>3. TypeOK'
      BY <1>1, <1>2, <1>4, <2>1, <2>2 DEF TypeOK, routerVars, trackVars
    <2>4. WriteIsSafe'
      BY <1>1, <2>1, <2>2 DEF WriteIsSafe, TypeOK
    <2>5. TracksOK'
      BY <1>1, <1>2, <1>4, <2>1, <2>2 DEF TracksOK, PanicNeedsEndingTrack, OpenAreListed,
             ClosedInOrder, BindIsOnTrack, Open, WorkerStopped, TypeOK, routerVars, trackVars
    <2>6. QED
      BY <2>3, <2>4, <2>5
  <1>5. QED
    BY <1>1, <1>3, <1>4 DEF CloseStreams

\* The OnTrack callback finds its Buffer, or it is too late.
LEMMA AddReceiverPreserves ==
  ASSUME IInv, NEW b \in Buffers, AddReceiver(b) \/ AddReceiverPanics(b)
  PROVE  IInv'
  <1> USE DEF IInv, bufferVars, closeVars, trackVars
  <1>1. CASE AddReceiver(b)
    <2> USE <1>1 DEF AddReceiver
    <2>1. TypeOK'
      BY DEF TypeOK, closeVars
    <2>2. WriteIsSafe' /\ TracksOK'
      BY DEF WriteIsSafe, TracksOK, PanicNeedsEndingTrack, OpenAreListed, ClosedInOrder,
             BindIsOnTrack, Open, WorkerStopped, TypeOK
    <2>3. QED
      BY <2>1, <2>2
  <1>2. CASE AddReceiverPanics(b)
    <2> USE <1>2 DEF AddReceiverPanics
    <2>1. TypeOK'
      BY DEF TypeOK, closeVars, trackVars
    <2>2. b \notin rtcpReader
      BY DEF TracksOK, ClosedInOrder, OpenAreListed, Open, TypeOK, Buffer
    <2>3. WriteIsSafe' /\ TracksOK'
      BY <2>2 DEF WriteIsSafe, TracksOK, PanicNeedsEndingTrack, OpenAreListed, ClosedInOrder,
             BindIsOnTrack, Open, WorkerStopped, TypeOK
    <2>4. QED
      BY <2>1, <2>3
  <1>3. QED
    BY <1>1, <1>2

\* The writer takes a packet out of packetChan.
LEMMA ReadChanPreserves ==
  ASSUME IInv, NEW b \in Buffers, ReadChan(b)
  PROVE  IInv'
  <1> USE DEF IInv, ReadChan
  <1> DEFINE new == [buf[b] EXCEPT !.packetChan = @ - 1]
  <1>1. buf[b] \in Buffer /\ buf[b].packetChan - 1 \in 0 .. ChanCap
    BY TeardownAssumption DEF TeardownAssumption, TypeOK, Buffer
  <1>2. new \in Buffer /\ new.lock = buf[b].lock /\ new.closed = buf[b].closed
    BY <1>1 DEF Buffer
  <1>3. /\ buf' = [buf EXCEPT ![b] = new]
        /\ UNCHANGED <<net, onTrack, rtpBuffers, rtcpReader, toClose, handler>>
    BY DEF closeVars, routerVars
  <1> HIDE DEF new
  <1>4a. \A c \in Buffers : WorkerStopped(c)' <=> WorkerStopped(c)
    BY DEF WorkerStopped, TypeOK
  <1>4. /\ buf' \in [Buffers -> Buffer]
        /\ WriteIsSafe' /\ TracksOK'
    BY <1>2, <1>3, <1>4a, CalcKept
  <1>5. TypeOK'
    BY <1>4 DEF TypeOK, closeVars, routerVars
  <1>6. QED
    BY <1>4, <1>5

\* The nackWorker of a receiver is stopped once and for all, after the Buffer is
\* closed, and no handler panics before: a step of a writer or of a handler.
LEMMA WorkersKept ==
  ASSUME IInv, UNCHANGED <<buf, net, onTrack, rtpBuffers, rtcpReader, toClose>>,
         \A c \in Buffers : /\ WorkerStopped(c) => WorkerStopped(c)'
                            /\ WorkerStopped(c)' => buf[c].closed
                            /\ handler'[c] = "panic" => handler[c] = "panic" \/ WorkerStopped(c)
  PROVE  WriteIsSafe' /\ TracksOK'
  <1> USE DEF IInv
  <1>1. WriteIsSafe'
    BY DEF WriteIsSafe
  <1>2. PanicNeedsEndingTrack'
    BY DEF TracksOK, PanicNeedsEndingTrack
  <1>3. OpenAreListed' /\ ClosedInOrder' /\ BindIsOnTrack'
    BY DEF TracksOK, OpenAreListed, ClosedInOrder, BindIsOnTrack, Open
  <1>4. QED
    BY <1>1, <1>2, <1>3 DEF TracksOK

\* A writer goes on, with or without an element for rtcpCh.
LEMMA WriterGoesKept ==
  ASSUME IInv, NEW b \in Buffers,
         NEW from \in {"range", "write", "rtcpMu", "pli", "stopping"},
         NEW to \in {"range", "write", "rtcpMu", "pli", "stopping", "stopped"},
         from = "stopping" => to = "stopped",
         to \in {"stopping", "stopped"} => buf[b].closed,
         WriterGoes(b, from, to), UNCHANGED queued \/ ToRtcpCh
  PROVE  IInv'
  <1> USE DEF IInv, WriterGoes, bufferVars, routerVars
  <1>1. TypeOK'
    BY TeardownAssumption DEF TeardownAssumption, ToRtcpCh, TypeOK, closeVars
  <1>2. \A c \in Buffers : /\ WorkerStopped(c) => WorkerStopped(c)'
                           /\ WorkerStopped(c)' => buf[c].closed
    BY DEF WorkerStopped, TypeOK, TracksOK, ClosedInOrder
  <1>3. QED
    BY <1>1, <1>2, WorkersKept DEF closeVars

\* A handler goes on, with or without an element for rtcpCh.
LEMMA HandlerGoesKept ==
  ASSUME IInv, NEW b \in Buffers, NEW from,
         NEW to \in {"idle", "rtcpMu", "pli", "fir", "submit", "panic"},
         to = "panic" => WorkerStopped(b),
         HandlerGoes(b, from, to), UNCHANGED queued \/ ToRtcpCh
  PROVE  IInv'
  <1> USE DEF IInv, HandlerGoes, bufferVars, routerVars
  <1>1. TypeOK'
    BY TeardownAssumption DEF TeardownAssumption, ToRtcpCh, TypeOK, closeVars
  <1>2. \A c \in Buffers : /\ WorkerStopped(c) => WorkerStopped(c)'
                           /\ WorkerStopped(c)' => buf[c].closed
    BY DEF WorkerStopped, TracksOK, ClosedInOrder
  <1>3. \A c \in Buffers : handler'[c] = "panic" => handler[c] = "panic" \/ WorkerStopped(c)
    BY DEF TypeOK
  <1>4. QED
    BY <1>1, <1>2, <1>3, WorkersKept DEF closeVars

\* Writers, RTCP handlers and the nackWorker of a receiver.
LEMMA ReceiverPreserves ==
  ASSUME IInv, NEW b \in Buffers,
         \/ WriterStep(b) \/ ForwardPLI(b) \/ ForwardFIR(b) \/ Retransmit(b)
         \/ HandlerStep(b) \/ GetPacket(b)
  PROVE  IInv'
  <1>1. CASE ReadChan(b)
    BY <1>1, ReadChanPreserves
  <1>2. CASE WriteDone(b) \/ AskKeyFrame(b) \/ WriterLocksRtcpMu(b) \/ WriterSendsPLI(b)
    BY <1>2, WriterGoesKept DEF WriteDone, AskKeyFrame, WriterLocksRtcpMu, WriterSendsPLI
  <1>3. CASE WriterEnds(b)
    BY <1>3, WriterGoesKept DEF WriterEnds
  <1>4. CASE StopWorker(b)
    <2>1. buf[b].closed
      BY <1>4 DEF StopWorker, WriterGoes, WorkerStopped, IInv, TracksOK, ClosedInOrder
    <2>2. QED
      BY <1>4, <2>1, WriterGoesKept DEF StopWorker
  <1>5. CASE DeleteReceiver(b)
    <2> USE <1>5 DEF DeleteReceiver, IInv, closeVars, bufferVars
    <2>1. TypeOK'
      BY DEF TypeOK
    <2>2. \A c \in Buffers : WorkerStopped(c)' <=> WorkerStopped(c)
      BY DEF WorkerStopped, TypeOK
    <2>3. QED
      BY <2>1, <2>2, WorkersKept DEF TracksOK, ClosedInOrder
  <1>6. CASE ForwardPLI(b) \/ ForwardFIR(b) \/ Retransmit(b)
    BY <1>6, HandlerGoesKept DEF ForwardPLI, ForwardFIR, Retransmit
  <1>7. CASE HandlerLocksRtcpMu(b) \/ HandlerSends(b) \/ SubmitPanics(b)
    BY <1>7, HandlerGoesKept DEF HandlerLocksRtcpMu, HandlerSends, SubmitPanics
  <1>8. CASE Submit(b) \/ GetPacket(b)
    <2> USE <1>8 DEF Submit, GetPacket, IInv, closeVars, bufferVars, routerVars
    <2>1. TypeOK'
      BY DEF TypeOK
    <2>2. \A c \in Buffers : /\ WorkerStopped(c)' <=> WorkerStopped(c)
                             /\ handler'[c] = "panic" => handler[c] = "panic"
      BY DEF WorkerStopped, TypeOK
    <2>3. QED
      BY <2>1, <2>2, WorkersKept DEF TracksOK, ClosedInOrder
  <1>9. QED
    BY <1>1, <1>2, <1>3, <1>4, <1>5, <1>6, <1>7, <1>8 DEF WriterStep, HandlerStep

\* sendRTCP, a joining peer, and the parts of Close that touch no Buffer.
LEMMA PublisherPreserves ==
  ASSUME IInv, SendRTCP \/ JoinLocks \/ JoinStep \/ Close \/ Stop \/ PCClosed
  PROVE  IInv'
  <1>1. /\ UNCHANGED <<buf, net, onTrack, rtpBuffers, rtcpReader, writer, handler>>
        /\ \A b \in toClose' : onTrack[b] # "none"
    BY DEF SendRTCP, JoinLocks, JoinStep, JoinVisits, Close, Stop, PCClosed, Open,
           closeVars, bufferVars, routerVars, trackVars, IInv, TypeOK, TracksOK, ClosedInOrder
  <1>2. TypeOK'
    <2> USE DEF IInv, TypeOK, closeVars, bufferVars, routerVars, trackVars
    <2>1. CASE SendRTCP
      BY <2>1, TeardownAssumption DEF TeardownAssumption, SendRTCP
    <2>2. CASE JoinLocks \/ JoinStep
      BY <2>2 DEF JoinLocks, JoinStep, JoinVisits
    <2>3. CASE Close \/ Stop \/ PCClosed
      BY <2>3 DEF Close, Stop, PCClosed, Open
    <2>4. QED
      BY <2>1, <2>2, <2>3
  <1>3. WriteIsSafe' /\ TracksOK'
    BY <1>1 DEF IInv, WriteIsSafe, TracksOK, PanicNeedsEndingTrack, OpenAreListed,
                ClosedInOrder, BindIsOnTrack, Open, WorkerStopped
  <1>4. QED
    BY <1>2, <1>3 DEF IInv

LEMMA NextIInv == IInv /\ [Next]_vars => IInv'
  <1> SUFFICES ASSUME IInv, [Next]_vars
               PROVE  IInv'
    OBVIOUS
  <1>1. CASE SendRTCP \/ JoinLocks \/ JoinStep \/ Close \/ CloseStep
    BY <1>1, PublisherPreserves, ClosePreserves DEF CloseStep
  <1>2. ASSUME NEW b \in Buffers,
               \/ OpenTrack(b) \/ ReadSRTP(b) \/ Write(b) \/ CalcStep(b)
               \/ OnTrackStep(b) \/ RemoveTrack(b)
        PROVE  IInv'
    BY <1>2, WritePreserves, CalcPreserves, BindPreserves, AddReceiverPreserves, ClosePreserves
       DEF CalcStep, OnTrackStep
  <1>3. ASSUME NEW b \in Buffers,
               \/ WriterStep(b) \/ ForwardPLI(b) \/ ForwardFIR(b) \/ Retransmit(b)
               \/ HandlerStep(b) \/ GetPacket(b)
        PROVE  IInv'
    BY <1>3, ReceiverPreserves
  <1>4. CASE UNCHANGED vars
    <2>1. TypeOK'
      BY <1>4 DEF vars, IInv, TypeOK, closeVars, bufferVars, routerVars, trackVars
    <2>2. UNCHANGED SafetyVars
      BY <1>4 DEF vars, SafetyVars, closeVars, bufferVars, routerVars, trackVars
    <2>3. QED
      BY <2>1, <2>2, SafetyKept DEF IInv
  <1>5. QED
    BY <1>1, <1>2, <1>3, <1>4 DEF Next

\* The conjunction of all invariants holds in every reachable state.
THEOREM Invariance == Spec => []IInv
  BY InitIInv, NextIInv, PTL DEF Spec

\* Channels stay within their capacities and all variables within their types,
\* whatever the capacities of rtcpCh and packetChan are.
THEOREM TypeCorrect == Spec => []TypeOK
  <1>1. IInv => TypeOK
    BY DEF IInv
  <1>2. QED
    BY <1>1, Invariance, PTL

\* Buffer.Write never sends on a closed packetChan.
THEOREM NoWriteAfterClose == Spec => []WriteIsSafe
  <1>1. IInv => WriteIsSafe
    BY DEF IInv
  <1>2. QED
    BY <1>1, Invariance, PTL

\* None of these goroutines panics while its track lives: neither an OnTrack
\* callback before the streams of its track are being closed, nor a handler that
\* retransmits before its track has ended and closeTracks has come.
THEOREM PanicsNeedEndingTrack == Spec => []PanicNeedsEndingTrack
  <1>1. IInv => PanicNeedsEndingTrack
    BY DEF IInv, TracksOK
  <1>2. QED
    BY <1>1, Invariance, PTL

=============================================================================
