-------------------------------- MODULE Hose --------------------------------
(***************************************************************************)
(* The hose: the ring buffer through which the game thread streams packets *)
(* to one websocket client (exlaunch/source/program/serve.hpp, serve.cpp). *)
(*                                                                         *)
(* Three threads meet here.  The game thread (the only writer) reserves    *)
(* space, fills it and publishes it by storing write_info_.  The hose      *)
(* thread (the only reader) loops in do_iter, sending what is published.   *)
(* The RPC thread hands over sockets (push_fd) and switches backpressure.  *)
(* A step is what happens between two accesses to an atomic, an event, the *)
(* shared bytes or a socket; everything private in between is part of it.  *)
(***************************************************************************)
EXTENDS Integers, Sequences

CONSTANTS
  BufSize,      \* sizeof(buf_)
  OverrunBody,  \* body size of an "overrun" packet
  MaxSend,      \* most bytes given to one send()
  BodySizes,    \* body sizes of the packets the game writes
  Fds,          \* connections the RPC thread hands over, each once
  NoFd,         \* the file descriptor -1
  MaxPackets    \* bound: calls of write_packet by the game

(* add_ws_header_size, without the SIZE_MAX clamp, which no size here meets. *)
AddWsHeaderSize(size) ==
  IF size < 126 THEN size + 2 ELSE IF size < 65536 THEN size + 4 ELSE size + 10

OverrunPacketSize == AddWsHeaderSize(OverrunBody)

ASSUME HoseAssumption ==
  /\ BufSize \in Nat /\ MaxSend \in Nat \ {0} /\ MaxPackets \in Nat
  /\ OverrunBody \in Nat /\ BodySizes \subseteq Nat
  /\ OverrunPacketSize <= BufSize
  /\ NoFd \notin Fds

VARIABLES
  writeInfo,    \* write_info_: write_offset, wrap_offset, just_wrote_overrun
  readOffset,   \* read_offset_
  buf,          \* buf_: each byte is <<packet's place in log, place in packet>>
  newFd,        \* new_fd_
  sentEvent,    \* sent_event_ is signalled
  backpressure, \* enable_backpressure_
  curFd,        \* cur_fd_
  rpc, rInfo, rRead,          \* hose thread: where it is, its local copies
  wpc, wBody, wOverrun, wInfo,\* game thread: where it is, the packet at hand
  spc,          \* RPC thread: inside set_enable_backpressure or not
  overrunBytes, writtenBytes, \* total_overrun_bytes_, total_written_bytes_
  packets,      \* history: packets the game has tried to write
  log,          \* history: the packets published, in order
  losses,       \* history: Len(log) at each packet dropped
  recv,         \* history: the bytes each connection was sent
  pushed,       \* history: the connections handed over
  closes        \* history: how often each connection was closed

bufVars    == <<writeInfo, readOffset, buf>>
readerVars == <<curFd, rpc, rInfo, rRead>>
writerVars == <<wpc, wBody, wOverrun, wInfo>>
fdVars     == <<newFd, pushed, recv, closes>>
eventVars  == <<sentEvent, backpressure, spc>>
histVars   == <<packets, log, losses, overrunBytes, writtenBytes>>
vars == <<bufVars, readerVars, writerVars, fdVars, eventVars, histVars>>

Info(w, wrap, o) ==
  [write_offset |-> w, wrap_offset |-> wrap, just_wrote_overrun |-> o]

Init ==
  /\ writeInfo = Info(0, BufSize, FALSE)
  /\ readOffset = 0
  /\ buf = [i \in 0..BufSize-1 |-> <<0, 0>>]
  /\ newFd = NoFd /\ curFd = NoFd
  /\ sentEvent = FALSE /\ backpressure = FALSE /\ spc = "idle"
  /\ rpc = "load" /\ rInfo = Info(0, BufSize, FALSE) /\ rRead = 0
  /\ wpc = "idle" /\ wBody = 0 /\ wOverrun = FALSE
  /\ wInfo = Info(0, BufSize, FALSE)
  /\ overrunBytes = 0 /\ writtenBytes = 0
  /\ packets = 0 /\ log = <<>> /\ losses = {}
  /\ recv = [f \in Fds |-> <<>>]
  /\ pushed = {} /\ closes = [f \in Fds |-> 0]

Close(f) == IF f = NoFd THEN closes ELSE [closes EXCEPT ![f] = @ + 1]

-----------------------------------------------------------------------------
(* Game thread: write_packet, reserve_space_and_write_header, backpressure,  *)
(* write_overrun.  wOverrun tells the nested write_packet of write_overrun   *)
(* from the outer one, whose body size stays in wBody.                       *)

FullSize == AddWsHeaderSize(IF wOverrun THEN OverrunBody ELSE wBody)

(* Mutant: no room kept for the overrun marker.                             *)
NeededSizeNoMarker == FullSize

NeededSize == FullSize + (IF wOverrun THEN 0 ELSE OverrunPacketSize)

WritePacket(body) ==
  /\ wpc = "idle" /\ packets < MaxPackets
  /\ wpc' = "reserve" /\ wBody' = body /\ wOverrun' = FALSE
  /\ packets' = packets + 1
  /\ UNCHANGED <<bufVars, readerVars, fdVars, eventVars, wInfo, log, losses,
                 overrunBytes, writtenBytes>>

(* Is there room when the reader is at r, and does the packet go at w or,   *)
(* wrapping, at 0?                                                          *)
FitsBehindReader(r, w, needed) == w < r /\ needed < r - w

FitsAtEnd(r, w, needed) == r <= w /\ needed <= BufSize - w

(* Mutants: wraps without looking where the reader is; never wraps.         *)
FitsAtStartBlindly(r, w, needed) == r <= w /\ needed > BufSize - w

FitsAtStartNever(r, w, needed) == FALSE

FitsAtStart(r, w, needed) == r <= w /\ needed > BufSize - w /\ needed < r

(* The write_info a packet of full bytes, placed at w with the old or the   *)
(* new wrap_offset, will publish.                                           *)
(* Mutant: just_wrote_overrun is never set.                                 *)
InfoAfterUnmarked(w, wrap, full) ==
  Info(w + full, IF w + full > wrap THEN w + full ELSE wrap, FALSE)

InfoAfter(w, wrap, full) ==
  Info(w + full, IF w + full > wrap THEN w + full ELSE wrap, wOverrun)

(* Loads read_offset_ and decides.                                          *)
ReserveSpace ==
  LET w == writeInfo.write_offset IN
  /\ wpc = "reserve"
  /\ \/ /\ \/ FitsBehindReader(readOffset, w, NeededSize)
           \/ FitsAtEnd(readOffset, w, NeededSize)
        /\ wInfo' = InfoAfter(w, writeInfo.wrap_offset, FullSize)
        /\ wpc' = "fill"
     \/ /\ FitsAtStart(readOffset, w, NeededSize)
        /\ wInfo' = InfoAfter(0, w, FullSize)
        /\ wpc' = "fill"
     \/ /\ ~FitsBehindReader(readOffset, w, NeededSize)
        /\ ~FitsAtEnd(readOffset, w, NeededSize)
        /\ ~FitsAtStart(readOffset, w, NeededSize)
        /\ wpc' = IF wOverrun THEN "panic" ELSE "full" \* assert(!for_overrun)
        /\ UNCHANGED wInfo
  /\ UNCHANGED <<bufVars, readerVars, fdVars, eventVars, histVars, wBody, wOverrun>>

Drop ==
  /\ overrunBytes' = overrunBytes + AddWsHeaderSize(wBody)
  /\ losses' = losses \cup {Len(log')}

(* backpressure(): does a packet that finds no room wait?                   *)
(* Mutant: it does, whatever the flag says.                                 *)
MustWaitAlways == TRUE

MustWait == backpressure

(* No room: wait and retry if backpressure is on, else leave an overrun     *)
(* marker, unless the last packet is one, and drop the packet.              *)
NoRoom ==
  /\ wpc = "full"
  /\ \/ /\ MustWait
        /\ wpc' = "wait"
        /\ UNCHANGED <<wOverrun, overrunBytes, losses, log>>
     \/ /\ ~MustWait /\ ~writeInfo.just_wrote_overrun
        /\ wpc' = "reserve" /\ wOverrun' = TRUE
        /\ UNCHANGED <<overrunBytes, losses, log>>
     \/ /\ ~MustWait /\ writeInfo.just_wrote_overrun
        /\ wpc' = "idle"
        /\ UNCHANGED <<wOverrun, log>>
        /\ Drop
  /\ UNCHANGED <<bufVars, readerVars, fdVars, eventVars, wBody, wInfo, packets,
                 writtenBytes>>

(* TimedWaitEvent returns: the auto-clear event was signalled, or 500 ms    *)
(* are over.  Either way the caller retries.                                *)
WakeByEvent ==
  /\ wpc = "wait" /\ sentEvent
  /\ wpc' = "reserve" /\ sentEvent' = FALSE
  /\ UNCHANGED <<bufVars, readerVars, fdVars, histVars, wBody, wOverrun, wInfo,
                 backpressure, spc>>

WakeByTimeout ==
  /\ wpc = "wait" /\ ~sentEvent
  /\ wpc' = "reserve"
  /\ UNCHANGED <<bufVars, readerVars, fdVars, histVars, eventVars,
                 wBody, wOverrun, wInfo>>

Start == wInfo.write_offset - FullSize

(* Header and body go into the buffer.                                      *)
Fill ==
  /\ wpc = "fill"
  /\ buf' = [i \in 0..BufSize-1 |->
               IF i \in Start..(Start + FullSize - 1)
                 THEN <<Len(log) + 1, i - Start + 1>> ELSE buf[i]]
  /\ wpc' = "review"
  /\ UNCHANGED <<writeInfo, readOffset, readerVars, fdVars, eventVars, histVars,
                 wBody, wOverrun, wInfo>>

(* write_info_.store; when this was the marker, the outer call then counts  *)
(* its packet as dropped.                                                   *)
Publish ==
  /\ wpc = "review"
  /\ writeInfo' = wInfo
  /\ log' = Append(log, [size |-> FullSize, overrun |-> wOverrun])
  /\ writtenBytes' = writtenBytes + (IF wOverrun THEN OverrunBody ELSE wBody)
  /\ wpc' = "idle"
  /\ IF wOverrun THEN Drop ELSE UNCHANGED <<overrunBytes, losses>>
  /\ UNCHANGED <<readOffset, buf, readerVars, fdVars, eventVars, packets,
                 wBody, wOverrun, wInfo>>

(* review_callback says no: nothing is stored.                              *)
Discard ==
  /\ wpc = "review" /\ ~wOverrun
  /\ wpc' = "idle"
  /\ UNCHANGED <<bufVars, readerVars, fdVars, eventVars, histVars,
                 wBody, wOverrun, wInfo>>

Writer ==
  \/ \E body \in BodySizes : WritePacket(body)
  \/ ReserveSpace \/ NoRoom \/ WakeByEvent \/ WakeByTimeout \/ Fill \/ Publish \/ Discard

-----------------------------------------------------------------------------
(* Hose thread: one iteration of do_iter.                                    *)

LoadOffsets ==
  /\ rpc = "load"
  /\ rpc' = "pick"
  /\ rInfo' = writeInfo /\ rRead' = readOffset
  /\ UNCHANGED <<bufVars, writerVars, fdVars, eventVars, histVars, curFd>>

(* new_fd_.exchange(-1) returns a connection: it replaces the current one.  *)
TakeNewFd ==
  /\ rpc = "pick" /\ newFd # NoFd
  /\ closes' = Close(curFd)
  /\ curFd' = newFd /\ newFd' = NoFd
  /\ rpc' = "adopt"
  /\ UNCHANGED <<bufVars, writerVars, eventVars, histVars, recv, pushed, rInfo, rRead>>

(* "drop existing buffer since it might have a half-sent packet"            *)
(* Mutant: the unread bytes are kept for the new connection.                *)
DropBufferNot ==
  /\ rpc = "adopt" /\ rpc' = "load"
  /\ UNCHANGED <<bufVars, writerVars, fdVars, eventVars, histVars,
                 curFd, rInfo, rRead>>

DropBuffer ==
  /\ rpc = "adopt"
  /\ readOffset' = rInfo.write_offset
  /\ rpc' = "load"
  /\ UNCHANGED <<writeInfo, buf, writerVars, fdVars, eventVars, histVars,
                 curFd, rInfo, rRead>>

OffsetsSane(r, info) ==
  /\ r <= info.wrap_offset
  /\ info.write_offset <= info.wrap_offset
  /\ info.wrap_offset <= BufSize

(* No new connection: check the offsets, sleep if nothing is unread, jump   *)
(* back to 0 at the wrap.                                                   *)
NoNewFd ==
  /\ rpc = "pick" /\ newFd = NoFd
  /\ rpc' = IF ~OffsetsSane(rRead, rInfo) THEN "panic"
            ELSE IF rRead = rInfo.write_offset THEN "load" ELSE "send"
  /\ rRead' = IF rRead # rInfo.write_offset /\ rRead = rInfo.wrap_offset
              THEN 0 ELSE rRead
  /\ UNCHANGED <<bufVars, writerVars, fdVars, eventVars, histVars, curFd, rInfo>>

ToSend ==
  (IF rRead < rInfo.write_offset THEN rInfo.write_offset ELSE rInfo.wrap_offset)
  - rRead

DiscardUnread ==
  /\ rpc = "send" /\ curFd = NoFd
  /\ rRead' = rRead + ToSend
  /\ rpc' = "store"
  /\ UNCHANGED <<bufVars, writerVars, fdVars, eventVars, histVars, curFd, rInfo>>

(* send() takes n of the bytes offered, perhaps none.                       *)
(* Mutant: a partial send() counts as a complete one.                       *)
SendIgnoringResult(n) ==
  /\ rpc = "send" /\ curFd # NoFd
  /\ n <= ToSend /\ n <= MaxSend
  /\ recv' = [recv EXCEPT ![curFd] = @ \o [k \in 1..n |-> buf[rRead + k - 1]]]
  /\ rRead' = rRead + ToSend
  /\ rpc' = "store"
  /\ UNCHANGED <<bufVars, writerVars, newFd, closes, pushed, eventVars, histVars,
                 curFd, rInfo>>

Send(n) ==
  /\ rpc = "send" /\ curFd # NoFd
  /\ n <= ToSend /\ n <= MaxSend
  /\ recv' = [recv EXCEPT ![curFd] = @ \o [k \in 1..n |-> buf[rRead + k - 1]]]
  /\ rRead' = rRead + n
  /\ rpc' = "store"
  /\ UNCHANGED <<bufVars, writerVars, newFd, closes, pushed, eventVars,
                 histVars, curFd, rInfo>>

(* Mutant: cur_fd_ is not reset after it is closed.                         *)
SendFailsKeepsFd ==
  /\ rpc = "send" /\ curFd # NoFd
  /\ closes' = Close(curFd) /\ rpc' = "load"
  /\ UNCHANGED <<bufVars, writerVars, newFd, recv, pushed, eventVars, histVars,
                 curFd, rInfo, rRead>>

SendFails ==
  /\ rpc = "send" /\ curFd # NoFd
  /\ closes' = Close(curFd) /\ curFd' = NoFd
  /\ rpc' = "load"
  /\ UNCHANGED <<bufVars, writerVars, newFd, recv, pushed, eventVars,
                 histVars, rInfo, rRead>>

StoreReadOffset ==
  /\ rpc = "store"
  /\ readOffset' = IF rRead <= BufSize THEN rRead ELSE readOffset
  /\ rpc' = IF rRead <= BufSize THEN "signal" ELSE "panic"
  /\ UNCHANGED <<writeInfo, buf, writerVars, fdVars, eventVars, histVars,
                 curFd, rInfo, rRead>>

SignalSent ==
  /\ rpc = "signal"
  /\ sentEvent' = TRUE
  /\ rpc' = "load"
  /\ UNCHANGED <<bufVars, writerVars, fdVars, backpressure, spc, histVars,
                 curFd, rInfo, rRead>>

Reader ==
  \/ LoadOffsets \/ TakeNewFd \/ DropBuffer \/ NoNewFd \/ DiscardUnread
  \/ \E n \in 0..MaxSend : Send(n)
  \/ SendFails \/ StoreReadOffset \/ SignalSent

-----------------------------------------------------------------------------
(* RPC thread: push_fd and set_enable_backpressure.                          *)

PushFd(f) ==
  /\ f \notin pushed /\ spc = "idle"
  /\ newFd' = f /\ closes' = Close(newFd)
  /\ pushed' = pushed \cup {f}
  /\ UNCHANGED <<bufVars, readerVars, writerVars, recv, eventVars, histVars>>

SetEnableBackpressure(enable) ==
  /\ spc = "idle"
  /\ backpressure' = enable
  /\ spc' = IF enable THEN "idle" ELSE "signal"
  /\ UNCHANGED <<bufVars, readerVars, writerVars, fdVars, histVars, sentEvent>>

SignalDisabled ==
  /\ spc = "signal"
  /\ sentEvent' = TRUE /\ spc' = "idle"
  /\ UNCHANGED <<bufVars, readerVars, writerVars, fdVars, histVars, backpressure>>

Rpc ==
  \/ \E f \in Fds : PushFd(f)
  \/ \E enable \in BOOLEAN : SetEnableBackpressure(enable)
  \/ SignalDisabled

Next == Writer \/ Reader \/ Rpc

Spec == Init /\ [][Next]_vars

-----------------------------------------------------------------------------
(* Properties.                                                               *)

InfoType ==
  [write_offset : 0..BufSize, wrap_offset : 0..BufSize,
   just_wrote_overrun : BOOLEAN]

(* Every variable keeps its type; offsets stay inside buf_.                 *)
TypeOK ==
  /\ writeInfo \in InfoType /\ rInfo \in InfoType /\ wInfo \in InfoType
  /\ readOffset \in 0..BufSize /\ rRead \in 0..BufSize
  /\ DOMAIN buf = 0..BufSize-1
  /\ newFd \in Fds \cup {NoFd} /\ curFd \in Fds \cup {NoFd}
  /\ sentEvent \in BOOLEAN /\ backpressure \in BOOLEAN /\ wOverrun \in BOOLEAN
  /\ spc \in {"idle", "signal"}
  /\ rpc \in {"load", "pick", "adopt", "send", "store", "signal", "panic"}
  /\ wpc \in {"idle", "reserve", "full", "wait", "fill", "review", "panic"}
  /\ wBody \in BodySizes \cup {0}
  /\ packets \in Nat /\ overrunBytes \in Nat /\ writtenBytes \in Nat
  /\ log \in Seq([size : Nat, overrun : BOOLEAN]) /\ losses \subseteq Nat
  /\ pushed \subseteq Fds /\ closes \in [Fds -> Nat]

(* None of the hose's assertions can fail: offsets are ordered when the     *)
(* reader looks (serve.cpp:380), it never runs past the buffer (:420), and  *)
(* there is always room for the overrun marker when one is due (:460).      *)
NoPanic == rpc # "panic" /\ wpc # "panic"

(* While the game thread fills the bytes it reserved, none of them is one   *)
(* the hose thread may be sending: a packet never overwrites unsent data.   *)
NoOverwrite ==
  wpc \in {"fill", "review"} /\ rpc = "send" =>
    \/ Start + FullSize <= rRead
    \/ rRead + ToSend <= Start

StartsPacket(b) == b[1] \in DOMAIN log /\ b[2] = 1

Follows(b, c) ==
  \/ c[1] = b[1] /\ c[2] = b[2] + 1
  \/ c[1] = b[1] + 1 /\ c[2] = 1 /\ b[2] = log[b[1]].size

(* What a connection receives is the published stream without gaps,         *)
(* starting at the first byte of some packet, however connections, partial  *)
(* and failed sends, wraps and drops interleave.                            *)
StreamsIntact ==
  \A f \in Fds :
    /\ recv[f] # <<>> => StartsPacket(recv[f][1])
    /\ \A k \in 1..Len(recv[f])-1 :
         recv[f][k + 1][1] \in DOMAIN log /\ Follows(recv[f][k], recv[f][k + 1])

(* The client can tell where packets are missing: a packet is dropped only  *)
(* directly behind an overrun marker, every marker stands for a dropped     *)
(* packet, and two markers are never adjacent.                              *)
OverrunsMarkLosses ==
  /\ \A p \in 1..Len(log) : log[p].overrun <=> p \in losses
  /\ 0 \notin losses
  /\ \A p \in losses : p + 1 \notin losses

(* A socket handed over is waiting in new_fd_, in use as cur_fd_, or closed *)
(* exactly once: none leaks and none is closed twice.                       *)
FdsOwned ==
  \A f \in Fds :
    closes[f] + (IF newFd = f THEN 1 ELSE 0) + (IF curFd = f THEN 1 ELSE 0)
      = (IF f \in pushed THEN 1 ELSE 0)

-----------------------------------------------------------------------------
(* The inductive invariant behind NoPanic and NoOverwrite.  Offsets only say *)
(* where reader and writer are modulo a lap of the ring, so each part says   *)
(* which lap the values it relates belong to.                                *)

(* The marker that is due when the next packet finds no room fits at        *)
(* write_offset, before the reader and before the end of the buffer.        *)
RingInv ==
  LET w == writeInfo.write_offset IN
  /\ w <= writeInfo.wrap_offset
  /\ readOffset <= writeInfo.wrap_offset
  /\ w < readOffset => w > 0
  /\ ~writeInfo.just_wrote_overrun =>
       /\ w + OverrunPacketSize <= BufSize
       /\ w < readOffset => w + OverrunPacketSize < readOffset

(* The hose thread's copy of write_info_ may be old, but it lies between    *)
(* the reader and the writer: published on the reader's lap and still on    *)
(* the writer's, published before the writer wrapped, or after.             *)
SnapshotInv ==
  LET w  == writeInfo.write_offset
      w0 == rInfo.write_offset IN
  rpc \in {"pick", "adopt", "send", "store"} =>
    /\ w0 <= rInfo.wrap_offset
    /\ \/ readOffset <= w0 /\ w0 <= w
       \/ w < readOffset /\ readOffset <= w0 /\ w0 <= writeInfo.wrap_offset
       \/ /\ 0 < w0 /\ w0 <= w /\ w < readOffset
          /\ rInfo.wrap_offset = writeInfo.wrap_offset

(* How far the hose thread has got with the snapshot.                       *)
ProgressInv ==
  LET w0 == rInfo.write_offset IN
  /\ rpc = "pick" => rRead = readOffset
  /\ rpc = "send" =>
       \/ rRead = readOffset /\ readOffset < w0
       \/ rRead = readOffset /\ w0 < readOffset /\ readOffset < rInfo.wrap_offset
       \/ rRead = 0 /\ w0 < readOffset /\ readOffset = rInfo.wrap_offset
  /\ rpc = "store" =>
       \/ readOffset <= rRead /\ rRead <= w0
       \/ w0 < readOffset /\ readOffset <= rRead /\ rRead <= rInfo.wrap_offset
       \/ w0 < readOffset /\ readOffset = rInfo.wrap_offset /\ rRead <= w0

(* The bytes reserved, with the room kept for the marker, are free, whether *)
(* they follow the last packet or begin a new lap.                          *)
ReservationInv ==
  LET w == writeInfo.write_offset
      end == wInfo.write_offset + (NeededSize - FullSize) IN
  /\ wpc \in {"fill", "review"} =>
       /\ wInfo.just_wrote_overrun = wOverrun
       /\ \/ /\ Start = w /\ end <= BufSize
             /\ w < readOffset => end < readOffset
             /\ wInfo.wrap_offset =
                  IF wInfo.write_offset > writeInfo.wrap_offset
                    THEN wInfo.write_offset ELSE writeInfo.wrap_offset
          \/ /\ Start = 0 /\ readOffset <= w /\ end < readOffset
             /\ wInfo.wrap_offset = w
  /\ wpc \in {"reserve", "fill", "review"} /\ wOverrun =>
       ~writeInfo.just_wrote_overrun
  /\ wpc \in {"full", "wait"} => ~wOverrun

(* The inductive invariant is checked by TLC before it is proved.           *)
IInv ==
  /\ TypeOK /\ NoPanic
  /\ RingInv /\ SnapshotInv /\ ProgressInv /\ ReservationInv

-----------------------------------------------------------------------------
(* The bytes between two offsets.                                            *)
Slice(from, to) == [k \in 1..(to - from) |-> buf[from + k - 1]]

(* Where the hose thread really is: ahead of read_offset_ once it has sent  *)
(* bytes or taken a new connection, until it stores the new offset.         *)
ReadPosition ==
  IF rpc = "store" THEN rRead
  ELSE IF rpc = "adopt" THEN rInfo.write_offset ELSE readOffset

Unread ==
  IF ReadPosition <= writeInfo.write_offset
    THEN Slice(ReadPosition, writeInfo.write_offset)
    ELSE Slice(ReadPosition, writeInfo.wrap_offset)
         \o Slice(0, writeInfo.write_offset)

Stream == INSTANCE PacketStream WITH
  queue <- Unread, published <- Len(log),
  PacketSizes <- {AddWsHeaderSize(b) : b \in BodySizes \cup {OverrunBody}}

(* The ring buffer with its three threads implements the packet stream: it  *)
(* is a first-in first-out queue in which bytes are neither lost, repeated  *)
(* nor reordered while a connection lasts.                                  *)
ImplementsStream == Stream!Spec

-----------------------------------------------------------------------------
(* Fairness.  The game thread runs whenever it is inside write_packet.       *)
WriterStep ==
  \/ ReserveSpace \/ NoRoom \/ WakeByEvent \/ WakeByTimeout \/ Fill
  \/ Publish \/ Discard

ReaderStep ==
  \/ LoadOffsets \/ TakeNewFd \/ DropBuffer \/ NoNewFd \/ DiscardUnread
  \/ StoreReadOffset \/ SignalSent

SendProgress == SendFails \/ \E n \in 1..MaxSend : Send(n)

FairSpec == Spec /\ WF_vars(WriterStep)

(* The hose thread runs unless send() blocks; a client that keeps reading   *)
(* lets send() make progress or fail.                                       *)
ClientReads == WF_vars(ReaderStep) /\ SF_vars(SendProgress)

(* Switching backpressure off frees the game thread even if the hose thread *)
(* is stuck in send(): from then on every write_packet returns.             *)
OffReleasesWriter == <>[](~backpressure) => []<>(wpc = "idle")

(* With backpressure on and a client that keeps reading, a packet no larger *)
(* than half the buffer (room for the overrun marker included) is written   *)
(* in the end: the retry loop of reserve_space_and_write_header terminates. *)
EveryWriteReturns == ClientReads => ((wpc # "idle") ~> (wpc = "idle"))

HasRoom ==
  LET w == writeInfo.write_offset IN
  \/ FitsBehindReader(readOffset, w, NeededSize)
  \/ FitsAtEnd(readOffset, w, NeededSize)
  \/ FitsAtStart(readOffset, w, NeededSize)

(* The 500 ms timeout of backpressure() is there for the statistics only    *)
(* ("so that we still increase backpressured_nsec periodically"): once      *)
(* there is room, the waiting game thread is, or is about to be, signalled. *)
RoomIsSignalled == wpc = "wait" /\ HasRoom => sentEvent \/ rpc = "signal"
=============================================================================
