----------------------------- MODULE HoseProofs -----------------------------
(***************************************************************************)
(* Proofs about the hose for every buffer size, packet size and number of  *)
(* connections.                                                            *)
(***************************************************************************)
EXTENDS Hose, SequenceTheorems, TLAPS

(* A websocket frame is at least its two-byte header.                       *)
LEMMA HeaderSize ==
  ASSUME NEW n \in Nat
  PROVE  AddWsHeaderSize(n) \in Nat /\ AddWsHeaderSize(n) >= 2
BY DEF AddWsHeaderSize

LEMMA MarkerSize ==
  /\ OverrunPacketSize \in Nat /\ OverrunPacketSize >= 2
  /\ OverrunPacketSize <= BufSize /\ BufSize \in Nat
BY HeaderSize, HoseAssumption DEF OverrunPacketSize

(* The sizes the game thread computes for the packet at hand.               *)
LEMMA Sizes ==
  ASSUME TypeOK
  PROVE  /\ FullSize \in Nat /\ FullSize >= 2
         /\ NeededSize \in Nat
         /\ wOverrun => FullSize = OverrunPacketSize /\ NeededSize = FullSize
         /\ ~wOverrun => NeededSize = FullSize + OverrunPacketSize
<1>1. wBody \in Nat /\ OverrunBody \in Nat /\ wOverrun \in BOOLEAN
  BY HoseAssumption DEF TypeOK
<1>2. FullSize \in Nat /\ FullSize >= 2
  BY <1>1, HeaderSize DEF FullSize
<1> QED
  BY <1>1, <1>2, MarkerSize DEF NeededSize, FullSize, OverrunPacketSize

LEMMA InitIInv == Init => IInv
<1> SUFFICES ASSUME Init PROVE IInv
  OBVIOUS
<1> USE DEF Init, Info
<1>1. TypeOK
  <2>1. writeInfo \in InfoType /\ rInfo \in InfoType /\ wInfo \in InfoType
    BY MarkerSize DEF InfoType
  <2>2. log \in Seq([size : Nat, overrun : BOOLEAN])
    OBVIOUS
  <2>3. DOMAIN buf = 0..BufSize-1
    OBVIOUS
  <2>4. readOffset \in 0..BufSize /\ rRead \in 0..BufSize
    BY MarkerSize
  <2>5. closes \in [Fds -> Nat]
    OBVIOUS
  <2>6. losses \subseteq Nat /\ pushed \subseteq Fds
    OBVIOUS
  <2>7. packets \in Nat /\ overrunBytes \in Nat /\ writtenBytes \in Nat
    OBVIOUS
  <2>8. wBody \in BodySizes \cup {0} /\ wOverrun \in BOOLEAN /\ sentEvent \in BOOLEAN /\ backpressure \in BOOLEAN
    OBVIOUS
  <2> QED
    BY <2>1, <2>2, <2>3, <2>4, <2>5, <2>6, <2>7, <2>8 DEF TypeOK
<1>2. NoPanic /\ RingInv /\ SnapshotInv /\ ProgressInv /\ ReservationInv
  BY MarkerSize DEF NoPanic, RingInv, SnapshotInv, ProgressInv, ReservationInv
<1> QED
  BY <1>1, <1>2 DEF IInv

(* What only the other threads change leaves a thread's part alone.         *)
LEMMA ReserveIInv == IInv /\ ReserveSpace => IInv'
<1> SUFFICES ASSUME IInv, ReserveSpace PROVE IInv'
  OBVIOUS
<1> USE MarkerSize, HoseAssumption
<1>0. /\ UNCHANGED <<writeInfo, readOffset, buf, curFd, rpc, rInfo, rRead>>
      /\ UNCHANGED <<newFd, pushed, recv, closes, sentEvent, backpressure, spc>>
      /\ UNCHANGED <<packets, log, losses, overrunBytes, writtenBytes>>
      /\ UNCHANGED <<wBody, wOverrun>>
  BY DEF ReserveSpace, bufVars, readerVars, fdVars, eventVars, histVars
<1>1. /\ FullSize' = FullSize /\ NeededSize' = NeededSize
      /\ FullSize \in Nat /\ FullSize >= 2 /\ NeededSize \in Nat
      /\ wOverrun => FullSize = OverrunPacketSize /\ NeededSize = FullSize
      /\ ~wOverrun => NeededSize = FullSize + OverrunPacketSize
  BY <1>0, Sizes DEF IInv, FullSize, NeededSize
<1>2. /\ writeInfo \in InfoType /\ wInfo \in InfoType
      /\ readOffset \in 0..BufSize /\ wOverrun \in BOOLEAN
  BY DEF IInv, TypeOK
<1>3. /\ wInfo' \in InfoType /\ wpc' \in {"fill", "full"}
      /\ ReservationInv'
  BY <1>0, <1>1, <1>2 DEF ReserveSpace, IInv, InfoType, RingInv, InfoAfter, Info,
     FitsBehindReader, FitsAtEnd, FitsAtStart, ReservationInv, Start
<1>4. TypeOK' /\ NoPanic'
  BY <1>0, <1>3 DEF IInv, TypeOK, NoPanic
<1>5. RingInv' /\ SnapshotInv' /\ ProgressInv'
  BY <1>0 DEF IInv, RingInv, SnapshotInv, ProgressInv
<1> QED
  BY <1>3, <1>4, <1>5 DEF IInv

(* The steps of the game thread that leave all offsets alone.               *)
LEMMA WriterLocalIInv ==
  ASSUME IInv,
         \/ \E body \in BodySizes : WritePacket(body)
         \/ NoRoom \/ WakeByEvent \/ WakeByTimeout \/ Fill \/ Discard
  PROVE  IInv'
<1>0. /\ UNCHANGED <<writeInfo, readOffset, curFd, rpc, rInfo, rRead, wInfo>>
      /\ UNCHANGED <<newFd, pushed, closes, backpressure, spc, log>>
  BY DEF WritePacket, NoRoom, WakeByEvent, WakeByTimeout, Fill, Discard,
     bufVars, readerVars, fdVars, eventVars, histVars
<1>1. /\ DOMAIN buf' = 0..BufSize-1 /\ sentEvent' \in BOOLEAN
      /\ wBody' \in BodySizes \cup {0} /\ wOverrun' \in BOOLEAN
      /\ wpc' \in {"idle", "reserve", "wait", "review"}
  BY DEF WritePacket, NoRoom, WakeByEvent, WakeByTimeout, Fill, Discard, IInv,
     TypeOK, bufVars, eventVars
<1>2. packets' \in Nat /\ writtenBytes' \in Nat
  BY DEF WritePacket, NoRoom, WakeByEvent, WakeByTimeout, Fill, Discard, IInv,
     TypeOK, histVars
<1>3. overrunBytes' \in Nat /\ losses' \subseteq Nat
  <2>1. /\ log \in Seq([size : Nat, overrun : BOOLEAN]) /\ wBody \in Nat
        /\ overrunBytes \in Nat /\ losses \subseteq Nat
    BY HoseAssumption DEF IInv, TypeOK
  <2>a. Len(log') \in Nat
    BY <1>0, <2>1
  <2>b. AddWsHeaderSize(wBody) \in Nat
    BY <2>1, HeaderSize
  <2>2. CASE NoRoom
    <3>1. overrunBytes' \in Nat
      BY <2>1, <2>2, <2>b DEF NoRoom, Drop
    <3>2. losses' = losses \/ losses' = losses \cup {Len(log')}
      BY <2>2 DEF NoRoom, Drop
    <3> QED
      BY <2>1, <2>a, <3>1, <3>2
  <2>3. CASE ~NoRoom
    BY <2>1, <2>3 DEF WritePacket, WakeByEvent, WakeByTimeout, Fill, Discard, IInv,
       TypeOK, histVars
  <2> QED
    BY <2>2, <2>3
<1>4. TypeOK' /\ NoPanic'
  BY <1>0, <1>1, <1>2, <1>3 DEF IInv, TypeOK, NoPanic
<1>5. RingInv' /\ SnapshotInv' /\ ProgressInv'
  BY <1>0 DEF IInv, RingInv, SnapshotInv, ProgressInv
<1>6. ReservationInv'
  <2>1. CASE Fill
    BY <2>1, <1>0 DEF Fill, IInv, ReservationInv, Start, FullSize, NeededSize
  <2>2. CASE \E body \in BodySizes : WritePacket(body)
    BY <2>2 DEF WritePacket, ReservationInv
  <2>3. CASE NoRoom
    BY <1>0, <2>3 DEF NoRoom, IInv, ReservationInv
  <2>4. CASE WakeByEvent \/ WakeByTimeout
    BY <1>0, <2>4 DEF WakeByEvent, WakeByTimeout, IInv, ReservationInv
  <2>5. CASE Discard
    BY <2>5 DEF Discard, ReservationInv
  <2> QED
    BY <2>1, <2>2, <2>3, <2>4, <2>5
<1> QED
  BY <1>4, <1>5, <1>6 DEF IInv

(* Storing write_info_ hands the reserved bytes to the reader.              *)
LEMMA PublishIInv == IInv /\ Publish => IInv'
<1> SUFFICES ASSUME IInv, Publish PROVE IInv'
  OBVIOUS
<1>0. /\ UNCHANGED <<readOffset, buf, curFd, rpc, rInfo, rRead, wInfo>>
      /\ UNCHANGED <<newFd, pushed, closes, sentEvent, backpressure, spc>>
      /\ UNCHANGED <<packets, wBody, wOverrun>>
      /\ writeInfo' = wInfo /\ wpc' = "idle"
  BY DEF Publish, readerVars, fdVars, eventVars
<1>1. /\ writeInfo \in InfoType /\ wInfo \in InfoType /\ rInfo \in InfoType
      /\ readOffset \in 0..BufSize /\ wOverrun \in BOOLEAN
      /\ rRead \in 0..BufSize
  BY DEF IInv, TypeOK
<1>2. writtenBytes' \in Nat /\ overrunBytes' \in Nat /\ losses' \subseteq Nat
      /\ log' \in Seq([size : Nat, overrun : BOOLEAN])
  <2>1. /\ wBody \in Nat /\ OverrunBody \in Nat
        /\ writtenBytes \in Nat /\ overrunBytes \in Nat /\ losses \subseteq Nat
        /\ log \in Seq([size : Nat, overrun : BOOLEAN])
    BY HoseAssumption DEF IInv, TypeOK
  <2>2. FullSize \in Nat /\ AddWsHeaderSize(wBody) \in Nat
    BY <2>1, Sizes, HeaderSize DEF IInv
  <2>3. log' \in Seq([size : Nat, overrun : BOOLEAN])
    BY <1>1, <2>1, <2>2 DEF Publish
  <2>4. Len(log') \in Nat
    BY <2>3
  <2>5. writtenBytes' \in Nat
    BY <1>1, <2>1 DEF Publish
  <2>6. overrunBytes' \in Nat
    BY <2>1, <2>2 DEF Publish, Drop
  <2>7. losses' \subseteq Nat
    BY <2>1, <2>4 DEF Publish, Drop
  <2> QED
    BY <2>3, <2>5, <2>6, <2>7
<1>3. TypeOK' /\ NoPanic'
  BY <1>0, <1>1, <1>2 DEF IInv, TypeOK, NoPanic
<1>4. /\ FullSize \in Nat /\ FullSize >= 2 /\ NeededSize \in Nat
      /\ wOverrun => NeededSize = FullSize
      /\ ~wOverrun => NeededSize = FullSize + OverrunPacketSize
  BY Sizes DEF IInv
<1>5. RingInv'
  <2>1. /\ writeInfo.write_offset \in Nat /\ writeInfo.wrap_offset \in 0..BufSize
        /\ wInfo.write_offset \in Nat /\ wInfo.wrap_offset \in Nat
    BY <1>1, MarkerSize DEF InfoType
  <2>2. /\ writeInfo.write_offset <= writeInfo.wrap_offset
        /\ readOffset <= writeInfo.wrap_offset
    BY DEF IInv, RingInv
  <2>3. wInfo.just_wrote_overrun = wOverrun
    BY DEF Publish, IInv, ReservationInv
  <2>4. CASE /\ Start = writeInfo.write_offset
             /\ wInfo.write_offset + (NeededSize - FullSize) <= BufSize
             /\ writeInfo.write_offset < readOffset =>
                  wInfo.write_offset + (NeededSize - FullSize) < readOffset
             /\ wInfo.wrap_offset =
                  IF wInfo.write_offset > writeInfo.wrap_offset
                    THEN wInfo.write_offset ELSE writeInfo.wrap_offset
    BY <1>0, <1>1, <1>4, <2>1, <2>2, <2>3, <2>4, MarkerSize DEF RingInv, Start
  <2>5. CASE /\ Start = 0 /\ readOffset <= writeInfo.write_offset
             /\ wInfo.write_offset + (NeededSize - FullSize) < readOffset
             /\ wInfo.wrap_offset = writeInfo.write_offset
    <3>1. wInfo.write_offset = FullSize
      BY <1>4, <2>1, <2>5 DEF Start
    <3>2. /\ FullSize < readOffset
          /\ ~wOverrun => FullSize + OverrunPacketSize < readOffset
      BY <1>1, <1>4, <2>5, <3>1, MarkerSize
    <3> QED
      BY <1>0, <1>1, <1>4, <2>1, <2>2, <2>3, <2>5, <3>1, <3>2, MarkerSize
         DEF RingInv
  <2> QED
    BY <2>4, <2>5 DEF Publish, IInv, ReservationInv
<1>6. SnapshotInv'
  <2> DEFINE w  == writeInfo.write_offset
             x  == writeInfo.wrap_offset
             w1 == wInfo.write_offset
             x1 == wInfo.wrap_offset
             w0 == rInfo.write_offset
             x0 == rInfo.wrap_offset
  <2>1. /\ w \in Nat /\ x \in Nat /\ w1 \in Nat /\ x1 \in Nat /\ w0 \in Nat
        /\ x0 \in Nat /\ readOffset \in Nat /\ OverrunPacketSize \in Nat
    BY <1>1, MarkerSize DEF InfoType
  <2>2. /\ readOffset <= x /\ (w < readOffset => w > 0)
        /\ Start = w1 - FullSize
    BY DEF IInv, RingInv, Start
  <2>3. \/ w1 > w /\ x1 = (IF w1 > x THEN w1 ELSE x)
           /\ (w < readOffset => w1 < readOffset)
        \/ readOffset <= w /\ w1 < readOffset /\ w1 > 0 /\ x1 = w
    <3>1. \/ /\ Start = w
             /\ w < readOffset => w1 + (NeededSize - FullSize) < readOffset
             /\ x1 = IF w1 > x THEN w1 ELSE x
          \/ /\ Start = 0 /\ readOffset <= w
             /\ w1 + (NeededSize - FullSize) < readOffset /\ x1 = w
      BY DEF Publish, IInv, ReservationInv
    <3>2. NeededSize - FullSize >= 0
      BY <1>1, <1>4, <2>1
    <3> HIDE DEF w, x, w1, x1
    <3> QED
      BY <1>4, <2>1, <2>2, <3>1, <3>2
  <2>4. rpc \in {"pick", "adopt", "send", "store"} =>
          /\ w0 <= x0
          /\ \/ readOffset <= w0 /\ w0 <= w
             \/ w < readOffset /\ readOffset <= w0 /\ w0 <= x
             \/ 0 < w0 /\ w0 <= w /\ w < readOffset /\ x0 = x
    BY DEF IInv, SnapshotInv
  <2>5. rpc \in {"pick", "adopt", "send", "store"} =>
          /\ w0 <= x0
          /\ \/ readOffset <= w0 /\ w0 <= w1
             \/ w1 < readOffset /\ readOffset <= w0 /\ w0 <= x1
             \/ 0 < w0 /\ w0 <= w1 /\ w1 < readOffset /\ x0 = x1
    <3> HIDE DEF w, x, w1, x1, w0, x0
    <3> QED
      BY <2>1, <2>2, <2>3, <2>4
  <2> QED
    BY <1>0, <2>5 DEF SnapshotInv
<1>7. ProgressInv' /\ ReservationInv'
  BY <1>0 DEF IInv, ProgressInv, ReservationInv
<1> QED
  BY <1>3, <1>5, <1>6, <1>7 DEF IInv

(* A step of the hose thread leaves the game thread's variables alone.      *)
LEMMA ReaderFrame ==
  ASSUME TypeOK,
         UNCHANGED <<writeInfo, buf, wpc, wBody, wOverrun, wInfo, packets, log,
                     losses, overrunBytes, writtenBytes, spc, backpressure>>,
         rInfo' \in InfoType, readOffset' \in 0..BufSize, rRead' \in 0..BufSize,
         newFd' \in Fds \cup {NoFd}, curFd' \in Fds \cup {NoFd},
         sentEvent' \in BOOLEAN, pushed' \subseteq Fds, closes' \in [Fds -> Nat],
         rpc' \in {"load", "pick", "adopt", "send", "store", "signal"}
  PROVE  TypeOK'
BY DEF TypeOK

LEMMA CloseType ==
  ASSUME TypeOK, NEW f \in Fds \cup {NoFd}
  PROVE  Close(f) \in [Fds -> Nat]
BY DEF TypeOK, Close

LEMMA LoadOffsetsIInv == IInv /\ LoadOffsets => IInv'
<1> SUFFICES ASSUME IInv, LoadOffsets PROVE IInv'
  OBVIOUS
<1>0. /\ UNCHANGED <<writeInfo, readOffset, buf, wpc, wBody, wOverrun, wInfo>>
      /\ UNCHANGED <<newFd, pushed, closes, sentEvent, backpressure, spc>>
      /\ UNCHANGED <<packets, log, losses, overrunBytes, writtenBytes, curFd>>
      /\ rInfo' = writeInfo /\ rRead' = readOffset /\ rpc' = "pick"
  BY DEF LoadOffsets, bufVars, writerVars, fdVars, eventVars, histVars
<1>1. TypeOK' /\ NoPanic'
  BY <1>0, ReaderFrame DEF IInv, TypeOK, NoPanic
<1>2. RingInv' /\ ReservationInv'
  BY <1>0 DEF IInv, RingInv, ReservationInv, Start, FullSize, NeededSize
<1>3. SnapshotInv' /\ ProgressInv'
  BY <1>0 DEF IInv, TypeOK, InfoType, RingInv, SnapshotInv, ProgressInv
<1> QED
  BY <1>1, <1>2, <1>3 DEF IInv

(* The steps after which the snapshot is unused or unchanged, and which do  *)
(* not move read_offset_.                                                   *)
LEMMA ReaderLocalIInv ==
  ASSUME IInv, TakeNewFd \/ SendFails \/ SignalSent
  PROVE  IInv'
<1>0. /\ UNCHANGED <<writeInfo, readOffset, buf, wpc, wBody, wOverrun, wInfo>>
      /\ UNCHANGED <<backpressure, spc, rInfo, rRead, pushed>>
      /\ UNCHANGED <<packets, log, losses, overrunBytes, writtenBytes>>
      /\ (rpc = "pick" /\ rpc' = "adopt") \/ rpc' = "load"
  BY DEF TakeNewFd, SendFails, SignalSent, bufVars, writerVars, fdVars,
     eventVars, histVars
<1>1. /\ newFd' \in Fds \cup {NoFd} /\ curFd' \in Fds \cup {NoFd}
      /\ sentEvent' \in BOOLEAN /\ closes' \in [Fds -> Nat]
  BY CloseType DEF IInv, TypeOK, TakeNewFd, SendFails, SignalSent, fdVars,
     eventVars
<1>2. TypeOK' /\ NoPanic'
  BY <1>0, <1>1, ReaderFrame DEF IInv, TypeOK, NoPanic
<1>3. RingInv' /\ ReservationInv'
  BY <1>0 DEF IInv, RingInv, ReservationInv, Start, FullSize, NeededSize
<1>4. SnapshotInv' /\ ProgressInv'
  BY <1>0 DEF IInv, SnapshotInv, ProgressInv
<1> QED
  BY <1>2, <1>3, <1>4 DEF IInv

(* The scalar view of the offsets that the arithmetic below is about.       *)
LEMMA Offsets ==
  ASSUME TypeOK
  PROVE  /\ BufSize \in Nat /\ readOffset \in 0..BufSize /\ rRead \in 0..BufSize
         /\ writeInfo.write_offset \in 0..BufSize
         /\ writeInfo.wrap_offset \in 0..BufSize
         /\ rInfo.write_offset \in 0..BufSize /\ rInfo.wrap_offset \in 0..BufSize
         /\ wInfo.write_offset \in 0..BufSize /\ wInfo.wrap_offset \in 0..BufSize
BY MarkerSize DEF TypeOK, InfoType

LEMMA NoNewFdIInv == IInv /\ NoNewFd => IInv'
<1> SUFFICES ASSUME IInv, NoNewFd PROVE IInv'
  OBVIOUS
<1>0. /\ UNCHANGED <<writeInfo, readOffset, buf, wpc, wBody, wOverrun, wInfo>>
      /\ UNCHANGED <<newFd, pushed, closes, sentEvent, backpressure, spc>>
      /\ UNCHANGED <<packets, log, losses, overrunBytes, writtenBytes, curFd>>
      /\ UNCHANGED rInfo /\ rpc = "pick"
  BY DEF NoNewFd, bufVars, writerVars, fdVars, eventVars, histVars
<1>1. OffsetsSane(rRead, rInfo)
  BY <1>0, Offsets DEF IInv, RingInv, SnapshotInv, ProgressInv, OffsetsSane
<1>2. rpc' \in {"load", "send"} /\ rRead' \in 0..BufSize
  BY <1>1, Offsets DEF IInv, NoNewFd
<1>3. TypeOK' /\ NoPanic'
  BY <1>0, <1>2, ReaderFrame DEF IInv, TypeOK, NoPanic
<1>4. RingInv' /\ ReservationInv'
  BY <1>0 DEF IInv, RingInv, ReservationInv, Start, FullSize, NeededSize
<1>5. SnapshotInv'
  BY <1>0 DEF IInv, SnapshotInv
<1>6. ProgressInv'
  BY <1>0, <1>1, <1>2, Offsets DEF NoNewFd, IInv, SnapshotInv, ProgressInv,
     OffsetsSane
<1> QED
  BY <1>3, <1>4, <1>5, <1>6 DEF IInv

(* Bytes that are sent or discarded end inside the snapshot.                *)
LEMMA ConsumeIInv ==
  ASSUME IInv, DiscardUnread \/ \E n \in 0..MaxSend : Send(n)
  PROVE  IInv'
<1>0. /\ UNCHANGED <<writeInfo, readOffset, buf, wpc, wBody, wOverrun, wInfo>>
      /\ UNCHANGED <<newFd, pushed, closes, sentEvent, backpressure, spc>>
      /\ UNCHANGED <<packets, log, losses, overrunBytes, writtenBytes, curFd>>
      /\ UNCHANGED rInfo /\ rpc = "send" /\ rpc' = "store"
  BY DEF DiscardUnread, Send, bufVars, writerVars, fdVars, eventVars, histVars
<1>1. ToSend \in Nat
  BY <1>0, Offsets DEF IInv, SnapshotInv, ProgressInv, ToSend
<1>2. PICK n \in 0..ToSend : rRead' = rRead + n
  BY <1>1, HoseAssumption DEF DiscardUnread, Send
<1>3. ProgressInv' /\ rRead' \in 0..BufSize
  BY <1>0, <1>1, <1>2, Offsets DEF IInv, SnapshotInv, ProgressInv, ToSend
<1>4. TypeOK' /\ NoPanic'
  BY <1>0, <1>3, ReaderFrame DEF IInv, TypeOK, NoPanic
<1>5. RingInv' /\ ReservationInv' /\ SnapshotInv'
  BY <1>0 DEF IInv, RingInv, ReservationInv, SnapshotInv, Start, FullSize,
     NeededSize
<1> QED
  BY <1>3, <1>4, <1>5 DEF IInv

(* Moving read_offset_ forward, at most to the snapshot's write_offset or   *)
(* around the wrap, frees space and takes none.                             *)
LEMMA MoveIInv ==
  ASSUME IInv, DropBuffer \/ StoreReadOffset
  PROVE  IInv'
<1>0. /\ UNCHANGED <<writeInfo, buf, wpc, wBody, wOverrun, wInfo, curFd>>
      /\ UNCHANGED <<newFd, pushed, closes, sentEvent, backpressure, spc>>
      /\ UNCHANGED <<packets, log, losses, overrunBytes, writtenBytes>>
      /\ UNCHANGED <<rInfo, rRead>>
  BY DEF DropBuffer, StoreReadOffset, bufVars, writerVars, fdVars, eventVars,
     histVars
<1>1. rpc' \in {"load", "signal"} /\ readOffset' \in 0..BufSize
  BY Offsets DEF DropBuffer, StoreReadOffset, IInv
<1>2. TypeOK' /\ NoPanic'
  BY <1>0, <1>1, ReaderFrame DEF IInv, TypeOK, NoPanic
<1>3. SnapshotInv' /\ ProgressInv'
  BY <1>1 DEF SnapshotInv, ProgressInv
<1>4. \/ readOffset <= readOffset' /\ readOffset' <= writeInfo.write_offset
      \/ /\ writeInfo.write_offset < readOffset
         /\ readOffset <= readOffset' /\ readOffset' <= writeInfo.wrap_offset
      \/ /\ writeInfo.write_offset < readOffset
         /\ readOffset' <= writeInfo.write_offset
  BY Offsets DEF IInv, SnapshotInv, ProgressInv, DropBuffer, StoreReadOffset
<1>5. RingInv'
  BY <1>0, <1>1, <1>4, Offsets, MarkerSize DEF IInv, RingInv
<1>6. ReservationInv'
  <2>1. FullSize' = FullSize /\ NeededSize' = NeededSize /\ Start' = Start
    BY <1>0 DEF FullSize, NeededSize, Start
  <2>2. FullSize \in Nat /\ NeededSize \in Nat
    BY Sizes DEF IInv
  <2> QED
    BY <1>0, <1>1, <1>4, <2>1, <2>2, Offsets DEF IInv, RingInv, ReservationInv
<1> QED
  BY <1>2, <1>3, <1>5, <1>6 DEF IInv

LEMMA RpcIInv == IInv /\ Rpc => IInv'
<1> SUFFICES ASSUME IInv, Rpc PROVE IInv'
  OBVIOUS
<1>0. /\ UNCHANGED <<writeInfo, readOffset, buf, wpc, wBody, wOverrun, wInfo>>
      /\ UNCHANGED <<packets, log, losses, overrunBytes, writtenBytes>>
      /\ UNCHANGED <<curFd, rpc, rInfo, rRead>>
  BY DEF Rpc, PushFd, SetEnableBackpressure, SignalDisabled, bufVars,
     readerVars, writerVars, histVars
<1>1. /\ newFd' \in Fds \cup {NoFd} /\ closes' \in [Fds -> Nat]
      /\ pushed' \subseteq Fds
  BY CloseType DEF IInv, TypeOK, Rpc, PushFd, SetEnableBackpressure,
     SignalDisabled, fdVars
<1>2. /\ sentEvent' \in BOOLEAN /\ backpressure' \in BOOLEAN
      /\ spc' \in {"idle", "signal"}
  BY DEF IInv, TypeOK, Rpc, PushFd, SetEnableBackpressure, SignalDisabled,
     eventVars
<1>3. TypeOK' /\ NoPanic'
  BY <1>0, <1>1, <1>2 DEF IInv, TypeOK, NoPanic
<1>4. RingInv' /\ ReservationInv' /\ SnapshotInv' /\ ProgressInv'
  BY <1>0 DEF IInv, RingInv, ReservationInv, SnapshotInv, ProgressInv, Start,
     FullSize, NeededSize
<1> QED
  BY <1>3, <1>4 DEF IInv

LEMMA StutterIInv == IInv /\ UNCHANGED vars => IInv'
<1> SUFFICES ASSUME IInv, UNCHANGED vars PROVE IInv'
  OBVIOUS
<1> USE DEF vars, bufVars, readerVars, writerVars, fdVars, eventVars, histVars
<1>1. TypeOK' /\ NoPanic'
  BY DEF IInv, TypeOK, NoPanic
<1>2. RingInv' /\ ReservationInv' /\ SnapshotInv' /\ ProgressInv'
  BY DEF IInv, RingInv, ReservationInv, SnapshotInv, ProgressInv, Start,
     FullSize, NeededSize
<1> QED
  BY <1>1, <1>2 DEF IInv

(* The offsets of the ring buffer satisfy the inductive invariant whatever  *)
(* the interleaving of game, hose and RPC thread.                           *)
THEOREM HoseInvariant == Spec => []IInv
<1>1. Init => IInv
  BY InitIInv
<1>2. IInv /\ [Next]_vars => IInv'
  BY ReserveIInv, WriterLocalIInv, PublishIInv, LoadOffsetsIInv,
     ReaderLocalIInv, NoNewFdIInv, ConsumeIInv, MoveIInv, RpcIInv, StutterIInv
     DEF Next, Writer, Reader
<1> QED
  BY <1>1, <1>2, PTL DEF Spec

(* The hose is type correct: no offset ever leaves buf_.                    *)
THEOREM HoseTypeCorrect == Spec => []TypeOK
BY HoseInvariant, PTL DEF IInv

(* No assertion of the hose fails: serve.cpp:380, :420 and :460.            *)
THEOREM HoseNoPanic == Spec => []NoPanic
BY HoseInvariant, PTL DEF IInv

(* The game thread never writes into bytes the hose thread may be sending.  *)
THEOREM HoseNoOverwrite == Spec => []NoOverwrite
<1>1. IInv => NoOverwrite
  <2> SUFFICES ASSUME IInv, wpc \in {"fill", "review"}, rpc = "send"
               PROVE  Start + FullSize <= rRead \/ rRead + ToSend <= Start
    BY DEF NoOverwrite
  <2>1. FullSize \in Nat /\ NeededSize \in Nat /\ NeededSize >= FullSize
    BY Sizes, MarkerSize DEF IInv
  <2> QED
    BY <2>1, Offsets DEF IInv, RingInv, SnapshotInv, ProgressInv, ToSend, Start,
       ReservationInv
<1> QED
  BY <1>1, HoseInvariant, PTL

(* Each socket handed over is kept or closed exactly once.                  *)
THEOREM HoseFdsOwned == Spec => []FdsOwned
<1>1. Init => FdsOwned
  BY HoseAssumption DEF Init, FdsOwned
<1>2. TypeOK /\ FdsOwned /\ [Next]_vars => FdsOwned'
  <2> SUFFICES ASSUME TypeOK, FdsOwned, [Next]_vars PROVE FdsOwned'
    OBVIOUS
  <2>1. CASE \E f \in Fds : PushFd(f)
    BY <2>1, HoseAssumption DEF PushFd, Close, TypeOK, FdsOwned, readerVars
  <2>2. CASE TakeNewFd
    BY <2>2, HoseAssumption DEF TakeNewFd, Close, TypeOK, FdsOwned
  <2>3. CASE SendFails
    BY <2>3, HoseAssumption DEF SendFails, Close, TypeOK, FdsOwned
  <2>4. CASE UNCHANGED <<newFd, curFd, pushed, closes>>
    BY <2>4 DEF FdsOwned
  <2>5. CASE Writer
    BY <2>4, <2>5 DEF Writer, WritePacket, ReserveSpace, NoRoom, WakeByEvent,
       WakeByTimeout, Fill, Publish, Discard, fdVars, readerVars
  <2> QED
    BY <2>1, <2>2, <2>3, <2>4, <2>5 DEF Next, Reader, Rpc, LoadOffsets,
       DropBuffer, NoNewFd, DiscardUnread, Send, StoreReadOffset, SignalSent,
       SetEnableBackpressure, SignalDisabled, vars, fdVars, readerVars
<1> QED
  BY <1>1, <1>2, HoseTypeCorrect, PTL DEF Spec

(* just_wrote_overrun tells whether the last packet published is a marker.  *)
MarkerInv ==
  /\ \A p \in losses : p \in 1..Len(log)
  /\ Len(log) > 0 => (writeInfo.just_wrote_overrun <=> log[Len(log)].overrun)
  /\ Len(log) = 0 => ~writeInfo.just_wrote_overrun

(* Losses are marked, once each, exactly where packets are missing.         *)
THEOREM HoseOverruns == Spec => []OverrunsMarkLosses
<1> DEFINE I == MarkerInv /\ OverrunsMarkLosses
<1>1. Init => I
  BY DEF Init, Info, MarkerInv, OverrunsMarkLosses
<1>2. IInv /\ I /\ [Next]_vars => I'
  <2> SUFFICES ASSUME IInv, I, [Next]_vars PROVE I'
    OBVIOUS
  <2>0. /\ log \in Seq([size : Nat, overrun : BOOLEAN]) /\ Len(log) \in Nat
        /\ losses \subseteq Nat /\ wOverrun \in BOOLEAN
    <3>1. /\ log \in Seq([size : Nat, overrun : BOOLEAN])
          /\ losses \subseteq Nat /\ wOverrun \in BOOLEAN
      BY DEF IInv, TypeOK
    <3> QED
      BY <3>1
  <2>1. CASE UNCHANGED <<writeInfo, log, losses>>
    BY <2>1 DEF MarkerInv, OverrunsMarkLosses
  <2>2. CASE NoRoom
    <3>1. UNCHANGED <<writeInfo, log>>
      BY <2>2 DEF NoRoom, bufVars
    <3>2. \/ losses' = losses
          \/ writeInfo.just_wrote_overrun /\ losses' = losses \cup {Len(log)}
      BY <2>2, <3>1 DEF NoRoom, Drop
    <3>3. writeInfo.just_wrote_overrun => Len(log) \in losses
      BY <2>0 DEF MarkerInv, OverrunsMarkLosses
    <3>4. losses' = losses
      BY <3>2, <3>3
    <3> QED
      BY <2>1, <3>1, <3>4
  <2>3. CASE Publish
    <3> DEFINE n == Len(log) + 1
    <3>1. /\ log' = Append(log, [size |-> FullSize, overrun |-> wOverrun])
          /\ writeInfo'.just_wrote_overrun = wOverrun
      BY <2>3 DEF Publish, IInv, ReservationInv
    <3>2. /\ Len(log') = n /\ log'[n].overrun = wOverrun
          /\ \A p \in 1..Len(log) : log'[p] = log[p]
      BY <2>0, <3>1
    <3>3. losses' = IF wOverrun THEN losses \cup {n} ELSE losses
      BY <2>0, <2>3, <3>2 DEF Publish, Drop
    <3>4. wOverrun => Len(log) \notin losses
      <4>1. wOverrun => ~writeInfo.just_wrote_overrun
        BY <2>3 DEF Publish, IInv, ReservationInv
      <4> QED
        BY <2>0, <4>1 DEF MarkerInv, OverrunsMarkLosses
    <3>5. MarkerInv'
      BY <2>0, <3>1, <3>2, <3>3 DEF MarkerInv
    <3>6. OverrunsMarkLosses'
      <4>1. ASSUME NEW p \in 1..n PROVE log'[p].overrun <=> p \in losses'
        <5>1. CASE p = n
          BY <2>0, <3>2, <3>3, <5>1 DEF MarkerInv
        <5>2. CASE p # n
          <6>1. p \in 1..Len(log) /\ p # n
            BY <2>0, <5>2
          <6>2. log'[p] = log[p] /\ (p \in losses' <=> p \in losses)
            BY <3>2, <3>3, <6>1
          <6> QED
            BY <6>1, <6>2 DEF OverrunsMarkLosses
        <5> QED
          BY <5>1, <5>2
      <4>2. 0 \notin losses'
        BY <2>0, <3>3 DEF OverrunsMarkLosses
      <4>3. ASSUME NEW p \in losses' PROVE p + 1 \notin losses'
        BY <2>0, <3>3, <3>4 DEF MarkerInv, OverrunsMarkLosses
      <4> QED
        BY <3>2, <4>1, <4>2, <4>3 DEF OverrunsMarkLosses
    <3> QED
      BY <3>5, <3>6
  <2> QED
    BY <2>1, <2>2, <2>3 DEF Next, Writer, Reader, Rpc, WritePacket, ReserveSpace,
       WakeByEvent, WakeByTimeout, Fill, Discard, LoadOffsets, TakeNewFd,
       DropBuffer, NoNewFd, DiscardUnread, Send, SendFails, StoreReadOffset,
       SignalSent, PushFd, SetEnableBackpressure, SignalDisabled, vars, bufVars,
       histVars
<1> QED
  BY <1>1, <1>2, HoseInvariant, PTL DEF Spec

(* A packet that takes, with its marker, at most half the buffer always     *)
(* finds room once the reader has caught up; the buffer being empty is not  *)
(* enough for a larger one, since offsets are never reset.                  *)
THEOREM HalfBufferFits ==
  ASSUME TypeOK, readOffset = writeInfo.write_offset, 2 * NeededSize <= BufSize
  PROVE  HasRoom
BY Offsets, Sizes DEF HasRoom, FitsBehindReader, FitsAtEnd, FitsAtStart

-----------------------------------------------------------------------------
(* The stream.  Bytes are followed from the buffer to the connections: the  *)
(* ring with its three threads implements PacketStream, and what PacketStream *)
(* delivers is intact.                                                      *)

Bytes == Nat \X Nat

(* What the game thread filled is what it is about to publish.              *)
FilledInv ==
  wpc = "review" => \A i \in 1..FullSize : buf[Start + i - 1] = <<Len(log) + 1, i>>

(* A lap, and what follows the hose thread's snapshot, begin with a packet. *)
BoundaryInv ==
  LET w0 == rInfo.write_offset IN
  /\ writeInfo.write_offset < readOffset => buf[0][2] = 1
  /\ rpc \in {"pick", "send"} /\ w0 # writeInfo.write_offset /\ w0 # writeInfo.wrap_offset
       => buf[w0][2] = 1

BufInv == buf \in [0..BufSize-1 -> Bytes] /\ FilledInv /\ BoundaryInv

LEMMA InitBuf == Init => BufInv
<1> SUFFICES ASSUME Init PROVE BufInv
  OBVIOUS
<1>1. buf \in [0..BufSize-1 -> Bytes]
  BY DEF Init, Bytes
<1>2. FilledInv /\ BoundaryInv
  BY DEF Init, Info, FilledInv, BoundaryInv
<1> QED
  BY <1>1, <1>2 DEF BufInv

(* Where the packet at hand goes: behind the last one, or to a new lap.     *)
LEMMA Reserved ==
  ASSUME IInv, wpc \in {"fill", "review"}
  PROVE  LET w == writeInfo.write_offset
             wrap == writeInfo.wrap_offset
         IN  /\ FullSize \in Nat /\ FullSize >= 2
             /\ wInfo.write_offset = Start + FullSize
             /\ Start \in Nat /\ Start + FullSize <= BufSize
             /\ \/ /\ Start = w /\ (w < readOffset => Start + FullSize < readOffset)
                   /\ wInfo.wrap_offset =
                        IF Start + FullSize > wrap THEN Start + FullSize ELSE wrap
                \/ /\ Start = 0 /\ readOffset <= w /\ FullSize < readOffset
                   /\ wInfo.wrap_offset = w
<1> DEFINE w == writeInfo.write_offset
           end == wInfo.write_offset + (NeededSize - FullSize)
<1>1. /\ FullSize \in Nat /\ FullSize >= 2 /\ NeededSize \in Nat /\ NeededSize >= FullSize
  BY Sizes, MarkerSize DEF IInv
<1>2. /\ BufSize \in Nat /\ w \in Nat /\ wInfo.write_offset \in Nat
      /\ readOffset \in Nat /\ wInfo.write_offset <= BufSize
  BY Offsets DEF IInv
<1>3. wInfo.write_offset = Start + FullSize
  BY <1>1, <1>2 DEF Start
<1>4. CASE /\ Start = w /\ end <= BufSize
           /\ w < readOffset => end < readOffset
           /\ wInfo.wrap_offset =
                IF wInfo.write_offset > writeInfo.wrap_offset
                  THEN wInfo.write_offset ELSE writeInfo.wrap_offset
  <2>1. Start \in Nat /\ (w < readOffset => Start + FullSize < readOffset)
    BY <1>1, <1>2, <1>3, <1>4
  <2> QED
    BY <1>1, <1>2, <1>3, <1>4, <2>1
<1>5. CASE /\ Start = 0 /\ readOffset <= w /\ end < readOffset
           /\ wInfo.wrap_offset = w
  <2>1. FullSize < readOffset
    BY <1>1, <1>2, <1>3, <1>5
  <2> QED
    BY <1>1, <1>2, <1>3, <1>5, <2>1
<1> QED
  BY <1>4, <1>5 DEF IInv, ReservationInv

(* The reserved bytes lie outside what the reader, or its snapshot, still   *)
(* needs.                                                                   *)
LEMMA FillBuf == ASSUME IInv, BufInv, Fill PROVE BufInv'
<1>0. /\ UNCHANGED <<writeInfo, readOffset, rpc, rInfo, wInfo, wBody, wOverrun, log>>
      /\ wpc = "fill"
      /\ buf' = [i \in 0..BufSize-1 |->
                   IF i \in Start..(Start + FullSize - 1)
                     THEN <<Len(log) + 1, i - Start + 1>> ELSE buf[i]]
  BY DEF Fill, readerVars, histVars
<1>1. /\ FullSize \in Nat /\ FullSize >= 2 /\ NeededSize \in Nat /\ NeededSize >= FullSize
      /\ FullSize' = FullSize /\ Start' = Start /\ Len(log) \in Nat
  <2>1. log \in Seq([size : Nat, overrun : BOOLEAN])
    BY DEF IInv, TypeOK
  <2> QED
    BY <1>0, <2>1, Sizes, MarkerSize DEF IInv, FullSize, Start
<1>2. Start \in Nat /\ Start + FullSize <= BufSize
  BY <1>0, Reserved
<1>3. buf' \in [0..BufSize-1 -> Bytes]
  <2>1. ASSUME NEW i \in 0..BufSize-1 PROVE buf'[i] \in Bytes
    <3>1. CASE i \in Start..(Start + FullSize - 1)
      <4>1. Len(log) + 1 \in Nat /\ i - Start + 1 \in Nat
        BY <1>1, <1>2, <3>1
      <4> QED
        BY <1>0, <3>1, <4>1 DEF Bytes
    <3>2. CASE i \notin Start..(Start + FullSize - 1)
      BY <1>0, <3>2 DEF BufInv
    <3> QED
      BY <3>1, <3>2
  <2> QED
    BY <1>0, <2>1
<1>4. FilledInv'
  <2> SUFFICES ASSUME NEW i \in 1..FullSize
               PROVE  buf'[Start + i - 1] = <<Len(log) + 1, i>>
    BY <1>0, <1>1 DEF FilledInv
  <2>1. /\ Start + i - 1 \in 0..BufSize-1 /\ Start + i - 1 \in Start..(Start + FullSize - 1)
        /\ (Start + i - 1) - Start + 1 = i
    BY <1>1, <1>2, Offsets DEF IInv
  <2> QED
    BY <1>0, <2>1
<1>5. BoundaryInv'
  <2>1. ASSUME NEW i \in 0..BufSize-1, i < Start \/ i >= Start + FullSize PROVE buf'[i] = buf[i]
    BY <1>0, <1>1, <1>2, <2>1
  <2>2. ASSUME writeInfo.write_offset < readOffset PROVE buf'[0][2] = 1
    <3>1. 0 < Start /\ 0 \in 0..BufSize-1
      BY <1>0, <1>1, <2>2, Offsets DEF IInv, RingInv, ReservationInv
    <3> QED
      BY <2>1, <2>2, <3>1 DEF BufInv, BoundaryInv
  <2>3. ASSUME rpc \in {"pick", "send"}, rInfo.write_offset # writeInfo.write_offset,
               rInfo.write_offset # writeInfo.wrap_offset
        PROVE  buf'[rInfo.write_offset][2] = 1
    <3>1. rInfo.write_offset < Start \/ rInfo.write_offset >= Start + FullSize
      BY <1>0, <2>3, Offsets, Reserved DEF IInv, RingInv, SnapshotInv
    <3>2. rInfo.write_offset < BufSize
      BY <1>1, <2>3, Offsets DEF IInv, RingInv, SnapshotInv
    <3>3. rInfo.write_offset \in 0..BufSize-1
      BY <3>2, Offsets DEF IInv
    <3> QED
      BY <2>1, <2>3, <3>1, <3>3 DEF BufInv, BoundaryInv
  <2> QED
    BY <1>0, <2>2, <2>3 DEF BoundaryInv
<1> QED
  BY <1>3, <1>4, <1>5 DEF BufInv

LEMMA PublishBuf == ASSUME IInv, BufInv, Publish PROVE BufInv'
<1>0. /\ UNCHANGED <<readOffset, rpc, rInfo, buf>> /\ wpc = "review" /\ wpc' = "idle"
      /\ writeInfo' = wInfo
  BY DEF Publish, readerVars
<1>1. /\ FullSize \in Nat /\ FullSize >= 2 /\ NeededSize \in Nat /\ NeededSize >= FullSize
  BY Sizes, MarkerSize DEF IInv
<1>2. buf[Start][2] = 1
  <2>1. 1 \in 1..FullSize /\ Start + 1 - 1 = Start
    BY <1>1, Offsets DEF IInv, Start
  <2>2. buf[Start] = <<Len(log) + 1, 1>>
    BY <1>0, <2>1 DEF BufInv, FilledInv
  <2> QED
    BY <2>2
<1>3. ASSUME wInfo.write_offset < readOffset PROVE buf[0][2] = 1
  <2>1. CASE writeInfo.write_offset < readOffset
    BY <2>1 DEF BufInv, BoundaryInv
  <2>2. CASE ~(writeInfo.write_offset < readOffset)
    <3>1. Start = 0
      BY <1>0, <1>3, <2>2, Offsets, Reserved DEF IInv
    <3> QED
      BY <1>2, <3>1
  <2> QED
    BY <2>1, <2>2
<1>4. ASSUME rpc \in {"pick", "send"}, rInfo.write_offset # wInfo.write_offset,
             rInfo.write_offset # wInfo.wrap_offset
      PROVE  buf[rInfo.write_offset][2] = 1
  <2>1. CASE rInfo.write_offset = writeInfo.write_offset
    BY <1>0, <1>2, <1>4, <2>1, Offsets, Reserved DEF IInv
  <2>2. CASE rInfo.write_offset # writeInfo.write_offset
    <3>1. rInfo.write_offset # writeInfo.wrap_offset
      BY <1>0, <1>4, <2>2, Offsets, Reserved DEF IInv, RingInv, SnapshotInv
    <3> QED
      BY <1>4, <2>2, <3>1 DEF BufInv, BoundaryInv
  <2> QED
    BY <2>1, <2>2
<1> QED
  BY <1>0, <1>3, <1>4 DEF BufInv, FilledInv, BoundaryInv

LEMMA OthersBuf ==
  ASSUME IInv, BufInv, [Next]_vars, ~Fill, ~Publish
  PROVE  BufInv'
<1>1. UNCHANGED <<buf, writeInfo, log>>
  BY DEF Next, Writer, Reader, Rpc, WritePacket, ReserveSpace, NoRoom, WakeByEvent,
     WakeByTimeout, Discard, LoadOffsets, TakeNewFd, DropBuffer, NoNewFd, DiscardUnread, Send,
     SendFails, StoreReadOffset, SignalSent, PushFd, SetEnableBackpressure, SignalDisabled,
     vars, bufVars, histVars
<1>2. \/ wpc' # "review"
      \/ wpc' = wpc /\ UNCHANGED <<wInfo, wBody, wOverrun>>
  BY DEF Next, Writer, Reader, Rpc, WritePacket, ReserveSpace, NoRoom, WakeByEvent,
     WakeByTimeout, Discard, LoadOffsets, TakeNewFd, DropBuffer, NoNewFd, DiscardUnread, Send,
     SendFails, StoreReadOffset, SignalSent, PushFd, SetEnableBackpressure, SignalDisabled,
     vars, writerVars
<1>3. FilledInv'
  BY <1>1, <1>2 DEF FilledInv, BufInv, Start, FullSize
<1>4. CASE DropBuffer \/ StoreReadOffset
  <2>1. UNCHANGED rInfo /\ rpc' \notin {"pick", "send"}
    BY <1>4 DEF DropBuffer, StoreReadOffset
  <2>2. writeInfo.write_offset < readOffset' => writeInfo.write_offset < readOffset
    BY <1>4, Offsets DEF IInv, SnapshotInv, ProgressInv, DropBuffer, StoreReadOffset
  <2>3. BoundaryInv'
    BY <1>1, <2>1, <2>2 DEF BoundaryInv, BufInv
  <2> QED
    BY <1>1, <1>3, <2>3 DEF BufInv
<1>5. CASE ~(DropBuffer \/ StoreReadOffset)
  <2>1. /\ UNCHANGED readOffset
        /\ \/ rInfo' = writeInfo
           \/ rpc' \notin {"pick", "send"}
           \/ UNCHANGED rInfo /\ rpc \in {"pick", "send"}
    BY <1>5 DEF Next, Writer, Reader, Rpc, WritePacket, ReserveSpace, NoRoom, WakeByEvent,
       WakeByTimeout, Discard, LoadOffsets, TakeNewFd, NoNewFd, DiscardUnread, Send,
       SendFails, SignalSent, PushFd, SetEnableBackpressure, SignalDisabled,
       vars, bufVars, readerVars
  <2>2. BoundaryInv'
    BY <1>1, <2>1 DEF BoundaryInv, BufInv
  <2> QED
    BY <1>1, <1>3, <2>2 DEF BufInv
<1> QED
  BY <1>4, <1>5

(* The bytes hold what was written, for every buffer and every interleaving. *)
LEMMA HoseBuffer == Spec => [](IInv /\ BufInv)
<1>1. BufInv /\ IInv /\ [Next]_vars => BufInv'
  BY FillBuf, PublishBuf, OthersBuf
<1> QED
  BY <1>1, InitBuf, HoseInvariant, PTL DEF Spec

(* The unread bytes of buffer b when the reader is at r and the writer at   *)
(* w, having wrapped at wrap if it is behind the reader.                    *)
Cut(b, from, to) == [k \in 1..(to - from) |-> b[from + k - 1]]

Ahead(b, r, w, wrap) ==
  IF r <= w THEN Cut(b, r, w) ELSE Cut(b, r, wrap) \o Cut(b, 0, w)

(* How many they are, and where the i-th is found.                          *)
HowMany(r, w, wrap) == IF r <= w THEN w - r ELSE (wrap - r) + w

Place(r, w, wrap, i) == IF r <= w \/ i <= wrap - r THEN r + i - 1 ELSE i - (wrap - r) - 1

Contents == [0..BufSize-1 -> Bytes]

LEMMA Joined ==
  ASSUME NEW s \in Seq(Bytes), NEW t \in Seq(Bytes)
  PROVE  /\ s \o t \in Seq(Bytes) /\ Len(s \o t) = Len(s) + Len(t)
         /\ \A i \in 1..(Len(s) + Len(t)) :
              (s \o t)[i] = IF i <= Len(s) THEN s[i] ELSE t[i - Len(s)]
BY ConcatProperties

LEMMA Regrouped ==
  ASSUME NEW s \in Seq(Bytes), NEW t \in Seq(Bytes), NEW u \in Seq(Bytes)
  PROVE  (s \o t) \o u = s \o (t \o u)
BY ConcatAssociative

LEMMA CutAt ==
  ASSUME NEW b \in Contents, NEW from \in Nat, NEW to \in Nat, from <= to, to <= BufSize
  PROVE  /\ Cut(b, from, to) \in Seq(Bytes) /\ Len(Cut(b, from, to)) = to - from
         /\ \A i \in 1..(to - from) : Cut(b, from, to)[i] = b[from + i - 1]
<1> DEFINE c == Cut(b, from, to)
           n == to - from
<1>1. n \in Nat /\ BufSize \in Nat
  BY HoseAssumption
<1>2. ASSUME NEW i \in 1..n PROVE b[from + i - 1] \in Bytes
  <2>1. from + i - 1 \in 0..BufSize-1
    BY <1>1
  <2> QED
    BY <2>1 DEF Contents
<1>3. c \in [1..n -> Bytes] /\ \A i \in 1..n : c[i] = b[from + i - 1]
  BY <1>2 DEF Cut
<1> HIDE DEF c, n
<1>4. c \in Seq(Bytes)
  BY <1>1, <1>3, SeqDef
<1>5. Len(c) = n
  <2>1. DOMAIN c = 1..Len(c) /\ Len(c) \in Nat /\ DOMAIN c = 1..n
    BY <1>3, <1>4, LenProperties
  <2> DEFINE l == Len(c)
  <2>2. l \in Nat /\ 1..l = 1..n
    BY <2>1
  <2> HIDE DEF l
  <2>3. l <= n
    <3>1. l \in 1..l \/ l = 0
      BY <2>2
    <3> QED
      BY <1>1, <2>2, <3>1
  <2>4. n <= l
    <3>1. n \in 1..n \/ n = 0
      BY <1>1
    <3> QED
      BY <1>1, <2>2, <3>1
  <2>5. l = n
    BY <1>1, <2>2, <2>3, <2>4
  <2> QED
    BY <2>5 DEF l
<1> QED
  BY <1>3, <1>4, <1>5 DEF c, n

LEMMA AheadAt ==
  ASSUME NEW b \in Contents, NEW r \in 0..BufSize, NEW w \in 0..BufSize,
         NEW wrap \in 0..BufSize, w <= wrap, r <= wrap
  PROVE  /\ Ahead(b, r, w, wrap) \in Seq(Bytes)
         /\ Len(Ahead(b, r, w, wrap)) = HowMany(r, w, wrap) /\ HowMany(r, w, wrap) \in Nat
         /\ \A i \in 1..HowMany(r, w, wrap) :
              Ahead(b, r, w, wrap)[i] = b[Place(r, w, wrap, i)]
<1>0. BufSize \in Nat
  BY HoseAssumption
<1>1. CASE r <= w
  <2>1. Ahead(b, r, w, wrap) = Cut(b, r, w) /\ HowMany(r, w, wrap) = w - r
    BY <1>1 DEF Ahead, HowMany
  <2>2. \A i : Place(r, w, wrap, i) = r + i - 1
    BY <1>1 DEF Place
  <2>3. r \in Nat /\ w \in Nat /\ w <= BufSize /\ w - r \in Nat
    BY <1>0, <1>1
  <2>4. /\ Cut(b, r, w) \in Seq(Bytes) /\ Len(Cut(b, r, w)) = w - r
        /\ \A i \in 1..(w - r) : Cut(b, r, w)[i] = b[r + i - 1]
    BY <1>1, <2>3, CutAt
  <2> QED
    BY <2>1, <2>2, <2>3, <2>4
<1>2. CASE ~(r <= w)
  <2> DEFINE s == Cut(b, r, wrap)
             t == Cut(b, 0, w)
  <2>1. Ahead(b, r, w, wrap) = s \o t /\ HowMany(r, w, wrap) = (wrap - r) + w
    BY <1>2 DEF Ahead, HowMany
  <2>2. r \in Nat /\ w \in Nat /\ wrap \in Nat /\ wrap <= BufSize /\ w <= BufSize /\ w - 0 = w
    BY <1>0
  <2>3. /\ s \in Seq(Bytes) /\ Len(s) = wrap - r
        /\ \A i \in 1..(wrap - r) : s[i] = b[r + i - 1]
    BY <2>2, CutAt
  <2>4. /\ t \in Seq(Bytes) /\ Len(t) = w
        /\ \A i \in 1..w : t[i] = b[0 + i - 1]
    <3>1. /\ t \in Seq(Bytes) /\ Len(t) = w - 0
          /\ \A i \in 1..(w - 0) : t[i] = b[0 + i - 1]
      <4>1. 0 \in Nat /\ 0 <= w
        BY <2>2
      <4> QED
        BY <2>2, <4>1, CutAt
    <3> HIDE DEF t
    <3> QED
      BY <2>2, <3>1
  <2> HIDE DEF s, t
  <2>5. /\ s \o t \in Seq(Bytes) /\ Len(s \o t) = (wrap - r) + w
        /\ \A i \in 1..((wrap - r) + w) :
             (s \o t)[i] = IF i <= wrap - r THEN s[i] ELSE t[i - (wrap - r)]
    <3>1. /\ s \o t \in Seq(Bytes) /\ Len(s \o t) = Len(s) + Len(t)
          /\ \A i \in 1..(Len(s) + Len(t)) :
               (s \o t)[i] = IF i <= Len(s) THEN s[i] ELSE t[i - Len(s)]
      BY <2>3, <2>4, Joined
    <3> QED
      BY <2>3, <2>4, <3>1
  <2>6. ASSUME NEW i \in 1..((wrap - r) + w) PROVE (s \o t)[i] = b[Place(r, w, wrap, i)]
    <3>1. CASE i <= wrap - r
      <4>1. i \in 1..(wrap - r) /\ Place(r, w, wrap, i) = r + i - 1
        BY <2>2, <3>1 DEF Place
      <4> QED
        BY <2>3, <2>5, <3>1, <4>1
    <3>2. CASE ~(i <= wrap - r)
      <4>1. /\ i - (wrap - r) \in 1..w
            /\ Place(r, w, wrap, i) = 0 + (i - (wrap - r)) - 1
        BY <1>2, <2>2, <3>2 DEF Place
      <4> QED
        BY <2>4, <2>5, <3>2, <4>1
    <3> QED
      BY <3>1, <3>2
  <2> QED
    BY <1>2, <2>1, <2>2, <2>5, <2>6
<1> QED
  BY <1>1, <1>2

(* The reader moves n bytes along, round the wrap if need be.               *)
Along(r, w, wrap, n, r2) ==
  \/ r2 = r + n /\ (r <= w => r2 <= w) /\ (w < r => r2 <= wrap)
  \/ w < r /\ r2 <= w /\ n = (wrap - r) + r2

LEMMA AheadMoves ==
  ASSUME NEW b \in Contents, NEW r \in 0..BufSize, NEW w \in 0..BufSize,
         NEW wrap \in 0..BufSize, w <= wrap, r <= wrap,
         NEW n \in Nat, NEW r2 \in 0..BufSize, Along(r, w, wrap, n, r2)
  PROVE  LET u == Ahead(b, r, w, wrap)
         IN  n \in 0..Len(u) /\ Ahead(b, r2, w, wrap) = SubSeq(u, n + 1, Len(u))
<1> DEFINE u == Ahead(b, r, w, wrap)
           v == Ahead(b, r2, w, wrap)
           m == HowMany(r, w, wrap)
<1>0. BufSize \in Nat /\ r2 <= wrap
  BY HoseAssumption DEF Along
<1>1. /\ u \in Seq(Bytes) /\ Len(u) = m /\ m \in Nat
      /\ \A i \in 1..m : u[i] = b[Place(r, w, wrap, i)]
  BY AheadAt
<1>2. /\ v \in Seq(Bytes) /\ Len(v) = HowMany(r2, w, wrap)
      /\ \A i \in 1..HowMany(r2, w, wrap) : v[i] = b[Place(r2, w, wrap, i)]
  BY <1>0, AheadAt
<1>3. n <= m /\ HowMany(r2, w, wrap) = m - n
  BY <1>0 DEF Along, HowMany
<1>4. ASSUME NEW i \in 1..(m - n) PROVE Place(r2, w, wrap, i) = Place(r, w, wrap, n + i)
  BY <1>0, <1>3 DEF Along, HowMany, Place
<1> HIDE DEF u, v, m
<1> DEFINE s == SubSeq(u, n + 1, Len(u))
<1>5. /\ s \in Seq(Bytes) /\ Len(s) = m - n /\ \A i \in 1..(m - n) : s[i] = u[n + i]
  <2>1. n + 1 \in Int /\ Len(u) \in Int /\ \A i \in (n + 1)..Len(u) : u[i] \in Bytes
    BY <1>1, ElementOfSeq
  <2>2. /\ s \in Seq(Bytes) /\ Len(s) = IF n + 1 <= Len(u) THEN Len(u) - (n + 1) + 1 ELSE 0
        /\ \A i \in 1 .. Len(u) - (n + 1) + 1 : s[i] = u[(n + 1) + i - 1]
    BY <2>1, SubSeqProperties
  <2>3. \A i \in 1..(m - n) : (n + 1) + i - 1 = n + i
    BY <1>1
  <2> HIDE DEF s
  <2> QED
    BY <1>1, <1>3, <2>2, <2>3
<1> HIDE DEF s
<1>6. ASSUME NEW i \in 1..(m - n) PROVE v[i] = s[i]
  <2>1. n + i \in 1..m
    BY <1>1, <1>3
  <2> QED
    BY <1>1, <1>2, <1>3, <1>4, <1>5, <2>1
<1>7. v = s
  BY <1>1, <1>2, <1>3, <1>5, <1>6, SeqEqual
<1> QED
  BY <1>1, <1>3, <1>7 DEF u, v, s

(* A packet is published: behind the last one, or on a new lap.             *)
Placed(b, p, r, w, wrap, w2, wrap2) ==
  \/ /\ w2 = w + Len(p) /\ w2 <= wrap2 /\ (w < r => w2 < r /\ wrap2 = wrap)
     /\ \A i \in 1..Len(p) : p[i] = b[w + i - 1]
  \/ /\ r <= w /\ w2 = Len(p) /\ w2 < r /\ wrap2 = w
     /\ \A i \in 1..Len(p) : p[i] = b[i - 1]

LEMMA AheadGrows ==
  ASSUME NEW b \in Contents, NEW r \in 0..BufSize, NEW w \in 0..BufSize,
         NEW wrap \in 0..BufSize, w <= wrap, r <= wrap,
         NEW w2 \in 0..BufSize, NEW wrap2 \in 0..BufSize, NEW p \in Seq(Bytes),
         Placed(b, p, r, w, wrap, w2, wrap2)
  PROVE  Ahead(b, r, w2, wrap2) = Ahead(b, r, w, wrap) \o p
<1> DEFINE u == Ahead(b, r, w, wrap)
           v == Ahead(b, r, w2, wrap2)
           m == HowMany(r, w, wrap)
           l == Len(p)
<1>0. BufSize \in Nat /\ l \in Nat /\ w2 <= wrap2 /\ r <= wrap2
  <2>1. BufSize \in Nat /\ l \in Nat
    BY HoseAssumption, LenProperties
  <2> QED
    BY <2>1 DEF Placed
<1>1. /\ u \in Seq(Bytes) /\ Len(u) = m /\ m \in Nat
      /\ \A i \in 1..m : u[i] = b[Place(r, w, wrap, i)]
  BY AheadAt
<1>2. /\ v \in Seq(Bytes) /\ Len(v) = HowMany(r, w2, wrap2)
      /\ \A i \in 1..HowMany(r, w2, wrap2) : v[i] = b[Place(r, w2, wrap2, i)]
  BY <1>0, AheadAt
<1>3. HowMany(r, w2, wrap2) = m + l
  BY <1>0 DEF Placed, HowMany
<1>4. ASSUME NEW i \in 1..m PROVE Place(r, w2, wrap2, i) = Place(r, w, wrap, i)
  BY <1>0 DEF Placed, HowMany, Place
<1>5. ASSUME NEW j \in 1..l PROVE b[Place(r, w2, wrap2, m + j)] = p[j]
  <2>1. CASE /\ w2 = w + Len(p) /\ (w < r => w2 < r /\ wrap2 = wrap)
             /\ \A i \in 1..Len(p) : p[i] = b[w + i - 1]
    <3>1. Place(r, w2, wrap2, m + j) = w + j - 1
      BY <1>0, <2>1 DEF HowMany, Place
    <3> QED
      BY <2>1, <3>1
  <2>2. CASE /\ r <= w /\ w2 = Len(p) /\ w2 < r /\ wrap2 = w
             /\ \A i \in 1..Len(p) : p[i] = b[i - 1]
    <3>1. Place(r, w2, wrap2, m + j) = j - 1
      BY <1>0, <2>2 DEF HowMany, Place
    <3> QED
      BY <2>2, <3>1
  <2> QED
    BY <2>1, <2>2 DEF Placed
<1> HIDE DEF u, v, m
<1>6. /\ u \o p \in Seq(Bytes) /\ Len(u \o p) = m + l
      /\ \A i \in 1..(m + l) : (u \o p)[i] = IF i <= m THEN u[i] ELSE p[i - m]
  BY <1>1, Joined
<1>7. ASSUME NEW i \in 1..(m + l) PROVE v[i] = (u \o p)[i]
  <2>1. v[i] = b[Place(r, w2, wrap2, i)]
    BY <1>2, <1>3
  <2>2. CASE i <= m
    <3>1. i \in 1..m
      BY <1>0, <1>1, <2>2
    <3> QED
      BY <1>1, <1>4, <1>6, <2>1, <2>2, <3>1
  <2>3. CASE ~(i <= m)
    <3>1. i - m \in 1..l /\ m + (i - m) = i
      BY <1>0, <1>1, <2>3
    <3> QED
      BY <1>5, <1>6, <2>1, <2>3, <3>1
  <2> QED
    BY <2>2, <2>3
<1>8. v = u \o p
  BY <1>2, <1>3, <1>6, <1>7, SeqEqual
<1> QED
  BY <1>8 DEF u, v

(* Bytes change only where nothing is unread.                               *)
LEMMA AheadKept ==
  ASSUME NEW b \in Contents, NEW b2 \in Contents,
         NEW r \in 0..BufSize, NEW w \in 0..BufSize, NEW wrap \in 0..BufSize,
         w <= wrap, r <= wrap,
         \A i \in 0..BufSize-1 :
           (r <= i /\ i < w) \/ (w < r /\ (i < w \/ (r <= i /\ i < wrap))) => b2[i] = b[i]
  PROVE  Ahead(b2, r, w, wrap) = Ahead(b, r, w, wrap)
<1> DEFINE u == Ahead(b, r, w, wrap)
           v == Ahead(b2, r, w, wrap)
           m == HowMany(r, w, wrap)
<1>0. BufSize \in Nat
  BY HoseAssumption
<1>1. /\ u \in Seq(Bytes) /\ Len(u) = m /\ m \in Nat
      /\ \A i \in 1..m : u[i] = b[Place(r, w, wrap, i)]
  BY AheadAt
<1>2. /\ v \in Seq(Bytes) /\ Len(v) = m
      /\ \A i \in 1..m : v[i] = b2[Place(r, w, wrap, i)]
  BY AheadAt
<1>3. ASSUME NEW i \in 1..m PROVE b2[Place(r, w, wrap, i)] = b[Place(r, w, wrap, i)]
  <2> DEFINE j == Place(r, w, wrap, i)
  <2>1. /\ j \in 0..BufSize-1
        /\ (r <= j /\ j < w) \/ (w < r /\ (j < w \/ (r <= j /\ j < wrap)))
    BY <1>0 DEF Place, HowMany
  <2> HIDE DEF j
  <2>2. b2[j] = b[j]
    BY <2>1
  <2> QED
    BY <2>2 DEF j
<1> HIDE DEF u, v, m
<1>4. \A i \in 1..m : v[i] = u[i]
  BY <1>1, <1>2, <1>3
<1>5. v = u
  BY <1>1, <1>2, <1>4, SeqEqual
<1> QED
  BY <1>5 DEF u, v

(* What the reader has ahead of it, wherever it is in do_iter.              *)
LEMMA UnreadIsAhead ==
  /\ Unread = Ahead(buf, ReadPosition, writeInfo.write_offset, writeInfo.wrap_offset)
  /\ Unread' = Ahead(buf', ReadPosition', writeInfo'.write_offset, writeInfo'.wrap_offset)
BY Zenon DEF Unread, Ahead, Slice, Cut

LEMMA Position ==
  ASSUME IInv
  PROVE  LET w == writeInfo.write_offset
             wrap == writeInfo.wrap_offset
         IN  /\ BufSize \in Nat /\ w \in 0..BufSize /\ wrap \in 0..BufSize /\ w <= wrap
             /\ ReadPosition \in 0..BufSize /\ ReadPosition <= wrap
             /\ readOffset \in 0..BufSize
             /\ w < ReadPosition => w < readOffset /\ readOffset <= ReadPosition
             /\ readOffset <= w => readOffset <= ReadPosition
<1>1. CASE rpc = "store"
  BY <1>1, Offsets DEF IInv, RingInv, SnapshotInv, ProgressInv, ReadPosition
<1>2. CASE rpc = "adopt"
  BY <1>2, Offsets DEF IInv, RingInv, SnapshotInv, ReadPosition
<1>3. CASE rpc \notin {"store", "adopt"}
  BY <1>3, Offsets DEF IInv, RingInv, ReadPosition
<1> QED
  BY <1>1, <1>2, <1>3

LEMMA UnreadType == ASSUME IInv, BufInv PROVE Unread \in Seq(Bytes) /\ Len(Unread) \in Nat
<1>1. buf \in Contents
  BY DEF BufInv, Contents
<1>2. Unread \in Seq(Bytes)
  BY <1>1, UnreadIsAhead, Position, AheadAt
<1> QED
  BY <1>2, LenProperties

LEMMA FillUnread == ASSUME IInv, BufInv, Fill PROVE Unread' = Unread
<1> DEFINE r == ReadPosition
           w == writeInfo.write_offset
           wrap == writeInfo.wrap_offset
<1>1. /\ UNCHANGED <<writeInfo, readOffset, rpc, rInfo, rRead>> /\ wpc = "fill"
      /\ buf' = [i \in 0..BufSize-1 |->
                   IF i \in Start..(Start + FullSize - 1)
                     THEN <<Len(log) + 1, i - Start + 1>> ELSE buf[i]]
  BY DEF Fill, readerVars
<1>2. buf \in Contents /\ buf' \in Contents
  BY FillBuf DEF BufInv, Contents
<1>3. ReadPosition' = r
  BY <1>1 DEF ReadPosition
<1>4. ASSUME NEW i \in 0..BufSize-1,
             (r <= i /\ i < w) \/ (w < r /\ (i < w \/ (r <= i /\ i < wrap)))
      PROVE  buf'[i] = buf[i]
  <2>1. i \notin Start..(Start + FullSize - 1)
    <3>0. /\ r \in Nat /\ w \in Nat /\ wrap \in Nat /\ readOffset \in Nat /\ i \in Nat
          /\ w < r => w < readOffset /\ readOffset <= r
          /\ readOffset <= w => readOffset <= r
      BY Position
    <3>1. Start \in Nat /\ FullSize \in Nat
      BY <1>1, Reserved
    <3>2. CASE Start = w /\ (w < readOffset => Start + FullSize < readOffset)
      <4> HIDE DEF r, w, wrap
      <4> QED
        BY <1>4, <3>0, <3>1, <3>2
    <3>3. CASE Start = 0 /\ readOffset <= w /\ FullSize < readOffset
      <4> HIDE DEF r, w, wrap
      <4> QED
        BY <1>4, <3>0, <3>1, <3>3
    <3> QED
      BY <1>1, <3>2, <3>3, Reserved
  <2> QED
    BY <1>1, <2>1
<1>5. Ahead(buf', r, w, wrap) = Ahead(buf, r, w, wrap)
  <2>1. /\ r \in 0..BufSize /\ w \in 0..BufSize /\ wrap \in 0..BufSize /\ w <= wrap /\ r <= wrap
    BY Position
  <2> HIDE DEF r, w, wrap
  <2> QED
    BY <1>2, <1>4, <2>1, AheadKept
<1> QED
  BY <1>1, <1>3, <1>5, UnreadIsAhead

Packet(p, size) == [k \in 1..size |-> <<p, k>>]

LEMMA PacketType ==
  ASSUME NEW p \in Nat, NEW size \in Nat
  PROVE  /\ Packet(p, size) \in Seq(Bytes) /\ Len(Packet(p, size)) = size
         /\ \A k \in 1..size : Packet(p, size)[k] = <<p, k>>
<1>1. Packet(p, size) \in [1..size -> Bytes]
  BY DEF Packet, Bytes
<1>2. Packet(p, size) \in Seq(Bytes)
  BY <1>1, SeqDef
<1>3. Len(Packet(p, size)) = size
  BY DEF Packet
<1> QED
  BY <1>2, <1>3 DEF Packet

LEMMA PublishUnread ==
  ASSUME IInv, BufInv, Publish
  PROVE  Unread' = Unread \o Packet(Len(log) + 1, FullSize)
<1> DEFINE r == ReadPosition
           w == writeInfo.write_offset
           wrap == writeInfo.wrap_offset
           w2 == wInfo.write_offset
           wrap2 == wInfo.wrap_offset
           p == Packet(Len(log) + 1, FullSize)
<1>1. /\ UNCHANGED <<readOffset, rpc, rInfo, rRead, buf>> /\ wpc = "review" /\ writeInfo' = wInfo
  BY DEF Publish, readerVars
<1>2. ReadPosition' = r
  BY <1>1 DEF ReadPosition
<1>3. /\ FullSize \in Nat /\ Len(log) + 1 \in Nat
  <2>1. log \in Seq([size : Nat, overrun : BOOLEAN])
    BY DEF IInv, TypeOK
  <2> QED
    BY <2>1, Sizes DEF IInv
<1>4. p \in Seq(Bytes) /\ Len(p) = FullSize /\ \A i \in 1..FullSize : p[i] = <<Len(log) + 1, i>>
  BY <1>3, PacketType
<1>5. \A i \in 1..FullSize : buf[Start + i - 1] = <<Len(log) + 1, i>>
  BY <1>1 DEF BufInv, FilledInv
<1>6. /\ r \in 0..BufSize /\ w \in 0..BufSize /\ wrap \in 0..BufSize /\ w <= wrap /\ r <= wrap
      /\ w2 \in 0..BufSize /\ wrap2 \in 0..BufSize
  BY Position, Offsets DEF IInv
<1>7. Placed(buf, p, r, w, wrap, w2, wrap2)
  <2> HIDE DEF p
  <2>1. CASE /\ Start = w /\ (w < readOffset => Start + FullSize < readOffset)
             /\ wrap2 = IF Start + FullSize > wrap THEN Start + FullSize ELSE wrap
    <3>1. w2 = w + Len(p) /\ w2 <= wrap2
      BY <1>1, <1>3, <1>4, <1>6, <2>1, Reserved
    <3>2. w < r => w2 < r /\ wrap2 = wrap
      BY <1>1, <1>3, <1>4, <1>6, <2>1, <3>1, Reserved, Position
    <3>3. \A i \in 1..Len(p) : p[i] = buf[w + i - 1]
      BY <1>4, <1>5, <2>1
    <3> QED
      BY <3>1, <3>2, <3>3 DEF Placed
  <2>2. CASE Start = 0 /\ readOffset <= w /\ FullSize < readOffset /\ wrap2 = w
    <3>1. w2 = Len(p) /\ w2 < r /\ r <= w
      BY <1>1, <1>3, <1>4, <1>6, <2>2, Reserved, Position
    <3>2. \A i \in 1..Len(p) : p[i] = buf[i - 1]
      <4>1. ASSUME NEW i \in 1..Len(p) PROVE p[i] = buf[i - 1]
        <5>1. i \in 1..FullSize /\ Start + i - 1 = i - 1
          BY <1>4, <2>2
        <5> QED
          BY <1>4, <1>5, <5>1
      <4> QED
        BY <4>1
    <3> QED
      BY <2>2, <3>1, <3>2 DEF Placed
  <2> QED
    BY <1>1, <2>1, <2>2, Reserved
<1>8. buf \in Contents
  BY DEF BufInv, Contents
<1>9. Ahead(buf, r, w2, wrap2) = Ahead(buf, r, w, wrap) \o p
  <2> HIDE DEF r, w, wrap, w2, wrap2, p
  <2>1. w2 \in 0..BufSize /\ wrap2 \in 0..BufSize /\ p \in Seq(Bytes)
    BY <1>4, <1>6
  <2> QED
    BY <1>6, <1>7, <1>8, <2>1, AheadGrows
<1> QED
  BY <1>1, <1>2, <1>9, UnreadIsAhead

LEMMA Consumed ==
  ASSUME IInv, BufInv, UNCHANGED <<writeInfo, buf>>, NEW n \in Nat, NEW r2 \in 0..BufSize,
         ReadPosition' = r2,
         Along(ReadPosition, writeInfo.write_offset, writeInfo.wrap_offset, n, r2)
  PROVE  n \in 0..Len(Unread) /\ Unread' = SubSeq(Unread, n + 1, Len(Unread))
<1> DEFINE r == ReadPosition
           w == writeInfo.write_offset
           wrap == writeInfo.wrap_offset
<1>1. /\ r \in 0..BufSize /\ w \in 0..BufSize /\ wrap \in 0..BufSize /\ w <= wrap /\ r <= wrap
  BY Position
<1>2. buf \in Contents
  BY DEF BufInv, Contents
<1>3. Unread = Ahead(buf, r, w, wrap) /\ Unread' = Ahead(buf, r2, w, wrap)
  BY UnreadIsAhead
<1>4. Along(r, w, wrap, n, r2)
  OBVIOUS
<1> HIDE DEF r, w, wrap
<1> QED
  BY <1>1, <1>2, <1>3, <1>4, AheadMoves

LEMMA NthUnread ==
  ASSUME IInv, BufInv
  PROVE  LET w == writeInfo.write_offset
             wrap == writeInfo.wrap_offset
         IN  /\ Len(Unread) = HowMany(ReadPosition, w, wrap)
             /\ \A i \in 1..Len(Unread) : Unread[i] = buf[Place(ReadPosition, w, wrap, i)]
<1> DEFINE r == ReadPosition
           w == writeInfo.write_offset
           wrap == writeInfo.wrap_offset
<1>1. /\ r \in 0..BufSize /\ w \in 0..BufSize /\ wrap \in 0..BufSize /\ w <= wrap /\ r <= wrap
  BY Position
<1>2. buf \in Contents
  BY DEF BufInv, Contents
<1>3. Unread = Ahead(buf, r, w, wrap)
  BY UnreadIsAhead
<1> HIDE DEF r, w, wrap
<1>4. /\ Len(Unread) = HowMany(r, w, wrap)
      /\ \A i \in 1..Len(Unread) : Unread[i] = buf[Place(r, w, wrap, i)]
  <2> DEFINE u == Ahead(buf, r, w, wrap)
             m == HowMany(r, w, wrap)
  <2>1. Len(u) = m /\ \A i \in 1..m : u[i] = buf[Place(r, w, wrap, i)]
    BY <1>1, <1>2, AheadAt
  <2> HIDE DEF u, m
  <2>2. Unread = u
    BY <1>3 DEF u
  <2>3. Len(Unread) = m /\ \A i \in 1..Len(Unread) : Unread[i] = buf[Place(r, w, wrap, i)]
    BY <2>1, <2>2
  <2> QED
    BY <2>3 DEF m
<1> QED
  BY <1>4 DEF r, w, wrap

(* What the hose thread offers to send() are the next unread bytes, up to   *)
(* the end of the buffer or of the snapshot.                                *)
LEMMA Offered ==
  ASSUME IInv, rpc = "send"
  PROVE  LET w == writeInfo.write_offset
             wrap == writeInfo.wrap_offset
             w0 == rInfo.write_offset
         IN  /\ ReadPosition = readOffset /\ ToSend \in Nat /\ rRead \in Nat
             /\ \/ /\ rRead = readOffset /\ readOffset <= w /\ w0 <= w /\ ToSend = w0 - readOffset
                \/ /\ rRead = readOffset /\ w < readOffset /\ w0 <= wrap
                   /\ ToSend = w0 - readOffset
                \/ /\ rRead = readOffset /\ w < readOffset /\ ToSend = wrap - readOffset
                \/ /\ rRead = 0 /\ w < readOffset /\ readOffset = wrap /\ w0 <= w /\ ToSend = w0
<1>1. ReadPosition = readOffset
  BY DEF ReadPosition
<1> QED
  BY <1>1, Offsets DEF IInv, RingInv, SnapshotInv, ProgressInv, ToSend

LEMMA OfferedAlong ==
  ASSUME IInv, rpc = "send", NEW n \in 0..ToSend
  PROVE  /\ rRead + n \in 0..BufSize /\ n \in Nat
         /\ Along(ReadPosition, writeInfo.write_offset, writeInfo.wrap_offset, n, rRead + n)
         /\ \A k \in 1..n : Place(ReadPosition, writeInfo.write_offset, writeInfo.wrap_offset, k)
                              = rRead + k - 1
<1> DEFINE r == ReadPosition
           w == writeInfo.write_offset
           wrap == writeInfo.wrap_offset
           w0 == rInfo.write_offset
<1>1. /\ r \in Nat /\ w \in Nat /\ wrap \in Nat /\ w <= wrap /\ r <= wrap /\ wrap <= BufSize
      /\ w0 \in Nat /\ BufSize \in Nat /\ ToSend \in Nat /\ rRead \in Nat
  BY Position, Offered, Offsets DEF IInv
<1>2. \/ /\ rRead = r /\ r <= w /\ w0 <= w /\ ToSend = w0 - r
      \/ /\ rRead = r /\ w < r /\ w0 <= wrap
         /\ ToSend = w0 - r
      \/ /\ rRead = r /\ w < r /\ ToSend = wrap - r
      \/ /\ rRead = 0 /\ w < r /\ r = wrap /\ w0 <= w /\ ToSend = w0
  BY Offered
<1> HIDE DEF r, w, wrap, w0
<1>3. rRead + n \in 0..BufSize /\ n \in Nat
  BY <1>1, <1>2
<1>4. Along(r, w, wrap, n, rRead + n)
  BY <1>1, <1>2 DEF Along
<1>5. ASSUME NEW k \in 1..n PROVE Place(r, w, wrap, k) = rRead + k - 1
  BY <1>1, <1>2 DEF Place
<1> QED
  BY <1>3, <1>4, <1>5 DEF r, w, wrap

(* send() took the first n unread bytes.                                    *)
LEMMA SendUnread ==
  ASSUME IInv, BufInv, NEW n \in 0..MaxSend, Send(n)
  PROVE  /\ n \in 0..Len(Unread) /\ Unread' = SubSeq(Unread, n + 1, Len(Unread))
         /\ recv' = [recv EXCEPT ![curFd] = recv[curFd] \o SubSeq(Unread, 1, n)]
<1>1. /\ rpc = "send" /\ rpc' = "store" /\ n <= ToSend /\ rRead' = rRead + n
      /\ UNCHANGED <<writeInfo, buf>>
      /\ recv' = [recv EXCEPT ![curFd] = recv[curFd] \o [k \in 1..n |-> buf[rRead + k - 1]]]
  BY DEF Send, bufVars
<1>2. n \in 0..ToSend
  BY <1>1, Offered, HoseAssumption
<1>3. ReadPosition' = rRead + n
  BY <1>1 DEF ReadPosition
<1>4. n \in 0..Len(Unread) /\ Unread' = SubSeq(Unread, n + 1, Len(Unread))
  BY <1>1, <1>2, <1>3, OfferedAlong, Consumed
<1> DEFINE s == SubSeq(Unread, 1, n)
           t == [k \in 1..n |-> buf[rRead + k - 1]]
<1>5. ASSUME NEW k \in 1..n PROVE buf[rRead + k - 1] = Unread[k]
  <2>1. k \in 1..Len(Unread)
    BY <1>4, UnreadType
  <2>2. Place(ReadPosition, writeInfo.write_offset, writeInfo.wrap_offset, k) = rRead + k - 1
    BY <1>1, <1>2, OfferedAlong
  <2> QED
    BY <2>1, <2>2, NthUnread
<1>6. s = t
  <2>1. s = [k \in 1..(n - 1 + 1) |-> Unread[1 + k - 1]]
    BY <1>4, UnreadType
  <2>2. n - 1 + 1 = n /\ \A k \in 1..n : 1 + k - 1 = k
    BY <1>2, Offered
  <2>3. s = [k \in 1..n |-> Unread[k]]
    BY <2>1, <2>2
  <2> QED
    BY <1>5, <2>3
<1> QED
  BY <1>1, <1>4, <1>6

(* What is dropped unsent ends where a packet ends.                         *)
DroppedToPacket(n) ==
  /\ n \in 0..Len(Unread) /\ Unread' = SubSeq(Unread, n + 1, Len(Unread))
  /\ n < Len(Unread) => Unread[n + 1][2] = 1

LEMMA DiscardUnreadDrops ==
  ASSUME IInv, BufInv, DiscardUnread
  PROVE  DroppedToPacket(ToSend)
<1> DEFINE r == ReadPosition
           w == writeInfo.write_offset
           wrap == writeInfo.wrap_offset
           w0 == rInfo.write_offset
           n == ToSend
<1>1. /\ rpc = "send" /\ rpc' = "store" /\ rRead' = rRead + n /\ UNCHANGED <<writeInfo, buf>>
  BY DEF DiscardUnread, bufVars
<1>2. n \in 0..ToSend
  BY <1>1, Offered
<1>3. ReadPosition' = rRead + n
  BY <1>1 DEF ReadPosition
<1>4. n \in 0..Len(Unread) /\ Unread' = SubSeq(Unread, n + 1, Len(Unread))
  BY <1>1, <1>2, <1>3, OfferedAlong, Consumed
<1>5. ASSUME n < Len(Unread) PROVE Unread[n + 1][2] = 1
  <2>1. n + 1 \in 1..Len(Unread)
    BY <1>4, <1>5, UnreadType
  <2>2. Unread[n + 1] = buf[Place(r, w, wrap, n + 1)] /\ n < HowMany(r, w, wrap)
    BY <1>5, <2>1, NthUnread
  <2>3. /\ r \in Nat /\ w \in Nat /\ wrap \in Nat /\ w <= wrap /\ r <= wrap
        /\ w0 \in Nat /\ n \in Nat /\ r = readOffset
    BY <1>1, Position, Offered, Offsets DEF IInv
  <2>4. \/ r <= w /\ w0 <= w /\ n = w0 - r
        \/ w < r /\ w0 <= wrap /\ n = w0 - r
        \/ w < r /\ n = wrap - r
        \/ w < r /\ r = wrap /\ w0 <= w /\ n = w0
    BY <1>1, Offered
  <2>5. /\ w < r => buf[0][2] = 1
        /\ w0 # w /\ w0 # wrap => buf[w0][2] = 1
    BY <1>1, <2>3 DEF BufInv, BoundaryInv
  <2> HIDE DEF r, w, wrap, w0, n
  <2>6. \/ Place(r, w, wrap, n + 1) = w0 /\ w0 # w /\ w0 # wrap
        \/ Place(r, w, wrap, n + 1) = 0 /\ w < r
    BY <2>2, <2>3, <2>4 DEF Place, HowMany
  <2> QED
    BY <2>2, <2>5, <2>6
<1> QED
  BY <1>4, <1>5 DEF DroppedToPacket

LEMMA TakeNewFdDrops ==
  ASSUME IInv, BufInv, TakeNewFd
  PROVE  \E n \in Nat : DroppedToPacket(n)
<1> DEFINE r == ReadPosition
           w == writeInfo.write_offset
           wrap == writeInfo.wrap_offset
           w0 == rInfo.write_offset
           n == IF r <= w0 THEN w0 - r ELSE (wrap - r) + w0
<1>1. rpc = "pick" /\ rpc' = "adopt" /\ UNCHANGED <<writeInfo, buf, rInfo>>
  BY DEF TakeNewFd, bufVars
<1>2. /\ r \in Nat /\ w \in Nat /\ wrap \in Nat /\ w <= wrap /\ r <= wrap /\ wrap <= BufSize
      /\ w0 \in Nat /\ r = readOffset /\ BufSize \in Nat
  BY <1>1, Position, Offsets DEF IInv, ReadPosition
<1>3. \/ r <= w0 /\ w0 <= w
      \/ w < r /\ r <= w0 /\ w0 <= wrap
      \/ 0 < w0 /\ w0 <= w /\ w < r
  BY <1>1, <1>2 DEF IInv, SnapshotInv
<1>4. ReadPosition' = w0
  BY <1>1 DEF ReadPosition
<1>5. /\ w < r => buf[0][2] = 1
      /\ w0 # w /\ w0 # wrap => buf[w0][2] = 1
  BY <1>1, <1>2 DEF BufInv, BoundaryInv
<1>6. n \in Nat /\ w0 \in 0..BufSize /\ Along(r, w, wrap, n, w0)
  <2> HIDE DEF r, w, wrap, w0
  <2> QED
    BY <1>2, <1>3 DEF Along
<1>7. n \in 0..Len(Unread) /\ Unread' = SubSeq(Unread, n + 1, Len(Unread))
  <2> HIDE DEF w0, n
  <2> QED
    BY <1>1, <1>4, <1>6, Consumed
<1>8. ASSUME n < Len(Unread) PROVE Unread[n + 1][2] = 1
  <2>1. n + 1 \in 1..Len(Unread)
    BY <1>7, <1>8, UnreadType
  <2>2. Unread[n + 1] = buf[Place(r, w, wrap, n + 1)] /\ n < HowMany(r, w, wrap)
    <3> HIDE DEF n
    <3> QED
      BY <1>8, <2>1, NthUnread
  <2> HIDE DEF r, w, wrap, w0
  <2>3. \/ Place(r, w, wrap, n + 1) = w0 /\ w0 # w /\ w0 # wrap
        \/ Place(r, w, wrap, n + 1) = 0 /\ w < r
    BY <1>2, <1>3, <2>2 DEF Place, HowMany
  <2> QED
    BY <1>5, <2>2, <2>3
<1> HIDE DEF n
<1>9. DroppedToPacket(n) /\ n \in Nat
  BY <1>6, <1>7, <1>8 DEF DroppedToPacket
<1> QED
  BY <1>9

(* All other steps leave the unread bytes as they are.                      *)
LEMMA UnreadKept ==
  ASSUME IInv, [Next]_vars, ~Fill, ~Publish, ~DiscardUnread, ~TakeNewFd,
         ~\E n \in 0..MaxSend : Send(n)
  PROVE  Unread' = Unread
<1>1. UNCHANGED <<buf, writeInfo>>
  BY DEF Next, Writer, Reader, Rpc, WritePacket, ReserveSpace, NoRoom, WakeByEvent,
     WakeByTimeout, Discard, LoadOffsets, DropBuffer, NoNewFd,
     SendFails, StoreReadOffset, SignalSent, PushFd, SetEnableBackpressure, SignalDisabled,
     vars, bufVars
<1>2. ReadPosition' = ReadPosition
  <2>1. CASE DropBuffer
    BY <2>1 DEF DropBuffer, ReadPosition
  <2>2. CASE StoreReadOffset
    <3>1. rRead <= BufSize
      BY Offsets DEF IInv
    <3> QED
      BY <2>2, <3>1 DEF StoreReadOffset, ReadPosition
  <2>3. CASE LoadOffsets \/ NoNewFd \/ SendFails \/ SignalSent
    BY <2>3 DEF LoadOffsets, NoNewFd, SendFails, SignalSent, bufVars, ReadPosition
  <2>4. CASE UNCHANGED <<rpc, rRead, readOffset, rInfo>>
    BY <2>4 DEF ReadPosition
  <2>5. CASE Writer \/ Rpc \/ UNCHANGED vars
    <3>1. UNCHANGED <<rpc, rRead, readOffset, rInfo>>
      BY <2>5 DEF Writer, Rpc, WritePacket, ReserveSpace, NoRoom, WakeByEvent,
         WakeByTimeout, Discard, PushFd, SetEnableBackpressure, SignalDisabled,
         vars, bufVars, readerVars
    <3> QED
      BY <2>4, <3>1
  <2> QED
    BY <2>1, <2>2, <2>3, <2>5 DEF Next, Reader
<1> QED
  BY <1>1, <1>2, UnreadIsAhead

(* The packet at hand is one the game asked for.                            *)
HandInv == wpc # "idle" => wBody \in BodySizes

LEMMA HandStep == HandInv /\ [Next]_vars => HandInv'
<1> SUFFICES ASSUME HandInv, [Next]_vars PROVE HandInv'
  OBVIOUS
<1>1. CASE \E body \in BodySizes : WritePacket(body)
  BY <1>1 DEF WritePacket, HandInv
<1>2. CASE ReserveSpace \/ NoRoom \/ WakeByEvent \/ WakeByTimeout \/ Fill \/ Publish \/ Discard
  BY <1>2 DEF ReserveSpace, NoRoom, WakeByEvent, WakeByTimeout, Fill, Publish, Discard, HandInv
<1>3. CASE UNCHANGED <<wpc, wBody>>
  BY <1>3 DEF HandInv
<1>4. CASE Reader \/ Rpc \/ UNCHANGED vars
  BY <1>3, <1>4 DEF Reader, Rpc, LoadOffsets, TakeNewFd, DropBuffer, NoNewFd, DiscardUnread, Send,
     SendFails, StoreReadOffset, SignalSent, PushFd, SetEnableBackpressure, SignalDisabled,
     vars, writerVars
<1> QED
  BY <1>1, <1>2, <1>4 DEF Next, Writer

StreamInv == IInv /\ BufInv /\ HandInv

LEMMA HoseStream == Spec => []StreamInv
<1>1. Init => HandInv
  BY DEF Init, HandInv
<1> QED
  BY <1>1, HandStep, HoseBuffer, PTL DEF Spec, StreamInv

LEMMA InitStream == Init => Stream!Init
<1> SUFFICES ASSUME Init PROVE Stream!Init
  OBVIOUS
<1>1. IInv /\ BufInv
  BY InitIInv, InitBuf
<1>2. ReadPosition = 0 /\ writeInfo.write_offset = 0
  BY DEF Init, Info, ReadPosition
<1>3. Len(Unread) = 0
  BY <1>1, <1>2, NthUnread DEF HowMany
<1>4. Unread = <<>>
  BY <1>1, <1>3, UnreadType, EmptySeq
<1>5. Len(log) = 0
  BY DEF Init
<1> QED
  BY <1>4, <1>5 DEF Init, Stream!Init

(* The steps of the three threads are steps of the queue, or none.          *)
LEMMA StepStream == StreamInv /\ [Next]_vars => [Stream!Next]_(Stream!vars)
<1> SUFFICES ASSUME StreamInv, [Next]_vars PROVE [Stream!Next]_(Stream!vars)
  OBVIOUS
<1>0. IInv /\ BufInv /\ HandInv /\ Len(log) \in Nat /\ FullSize \in Nat
  <2>1. log \in Seq([size : Nat, overrun : BOOLEAN])
    BY DEF StreamInv, IInv, TypeOK
  <2> QED
    BY <2>1, Sizes DEF StreamInv, IInv
<1>1. CASE Publish
  <2> DEFINE sizes == {AddWsHeaderSize(b) : b \in BodySizes \cup {OverrunBody}}
  <2>1. FullSize \in sizes
    <3>1. (IF wOverrun THEN OverrunBody ELSE wBody) \in BodySizes \cup {OverrunBody}
      BY <1>0, <1>1 DEF Publish, HandInv
    <3> QED
      BY <3>1 DEF FullSize
  <2>2. Len(log') = Len(log) + 1
    <3>1. log \in Seq([size : Nat, overrun : BOOLEAN])
      BY <1>0 DEF IInv, TypeOK
    <3> QED
      BY <1>1, <3>1 DEF Publish
  <2>3. Unread' = Unread \o Stream!PacketBytes(Len(log) + 1, FullSize)
    BY <1>0, <1>1, PublishUnread DEF Packet, Stream!PacketBytes
  <2>4. UNCHANGED <<newFd, curFd, recv>>
    BY <1>1 DEF Publish, readerVars, fdVars
  <2>5. Stream!Publish(FullSize)
    BY <2>2, <2>3, <2>4 DEF Stream!Publish
  <2> QED
    BY <2>1, <2>5 DEF Stream!Next
<1>2. ASSUME NEW n \in 0..MaxSend, Send(n) PROVE Stream!Next
  <2>1. curFd # NoFd /\ UNCHANGED <<log, newFd, curFd>>
    BY <1>2 DEF Send, histVars
  <2>2. n \in 0..Len(Unread) /\ Stream!Deliver(n)
    BY <1>0, <1>2, <2>1, SendUnread DEF Stream!Deliver, Stream!Without
  <2> QED
    BY <2>2 DEF Stream!Next
<1>3. CASE DiscardUnread
  <2>1. curFd = NoFd /\ UNCHANGED <<log, newFd, curFd, recv>>
    BY <1>3 DEF DiscardUnread, fdVars, histVars
  <2>2. ToSend \in 0..Len(Unread) /\ Stream!Forget(ToSend)
    BY <1>0, <1>3, <2>1, DiscardUnreadDrops
       DEF DroppedToPacket, Stream!Forget, Stream!Without, Stream!AtPacket
  <2> QED
    BY <2>2 DEF Stream!Next
<1>4. CASE TakeNewFd
  <2>1. newFd # NoFd /\ curFd' = newFd /\ newFd' = NoFd /\ UNCHANGED <<log, recv>>
    BY <1>4 DEF TakeNewFd, histVars
  <2>2. PICK n \in Nat : DroppedToPacket(n)
    BY <1>0, <1>4, TakeNewFdDrops
  <2>3. n \in 0..Len(Unread) /\ Stream!Serve(n)
    BY <2>1, <2>2 DEF DroppedToPacket, Stream!Serve, Stream!Without, Stream!AtPacket
  <2> QED
    BY <2>3 DEF Stream!Next
<1>5. CASE SendFails
  <2>1. curFd' = NoFd /\ UNCHANGED <<log, newFd, recv>>
    BY <1>5 DEF SendFails, histVars
  <2>2. Unread' = Unread
    BY <1>5 DEF SendFails, bufVars, Unread, ReadPosition, Slice
  <2> QED
    BY <2>1, <2>2 DEF Stream!Next, Stream!Disconnect
<1>6. ASSUME NEW f \in Fds, PushFd(f) PROVE Stream!Next
  <2>1. newFd' = f /\ UNCHANGED <<log, curFd, recv, buf, writeInfo, rpc, rRead, rInfo, readOffset>>
    BY <1>6 DEF PushFd, bufVars, readerVars, histVars
  <2>2. Unread' = Unread
    BY <2>1 DEF Unread, ReadPosition, Slice
  <2> QED
    BY <2>1, <2>2 DEF Stream!Next, Stream!Offer
<1>7. CASE ~Publish /\ ~DiscardUnread /\ ~TakeNewFd /\ ~SendFails
           /\ ~(\E n \in 0..MaxSend : Send(n)) /\ ~\E f \in Fds : PushFd(f)
  <2>1. UNCHANGED <<log, newFd, curFd, recv>>
    BY <1>7 DEF Next, Writer, Reader, Rpc, WritePacket, ReserveSpace, NoRoom, WakeByEvent,
       WakeByTimeout, Fill, Discard, LoadOffsets, DropBuffer, NoNewFd,
       StoreReadOffset, SignalSent, SetEnableBackpressure, SignalDisabled,
       vars, readerVars, fdVars, histVars
  <2>2. Unread' = Unread
    BY <1>0, <1>7, FillUnread, UnreadKept
  <2> QED
    BY <2>1, <2>2 DEF Stream!vars
<1> QED
  BY <1>1, <1>2, <1>3, <1>4, <1>5, <1>6, <1>7

(* The ring buffer with its three threads is a first-in first-out queue of  *)
(* whole packets (serve.cpp:374-424, 451-520), for every buffer, packet and *)
(* send size: no byte is lost, repeated or out of order while a connection  *)
(* lasts, and each new one begins with a packet.                            *)
THEOREM HoseImplementsStream == Spec => ImplementsStream
<1>1. Init => Stream!Init
  BY InitStream
<1>2. StreamInv /\ [Next]_vars => [Stream!Next]_(Stream!vars)
  BY StepStream
<1> QED
  BY <1>1, <1>2, HoseStream, PTL DEF Spec, ImplementsStream, Stream!Spec

-----------------------------------------------------------------------------
(* What a connection was sent, together with what is still unread, is one   *)
(* unbroken run of bytes up to the last one published; l is the log.        *)

Logs == Seq([size : Nat, overrun : BOOLEAN])

FollowsIn(l, b, c) ==
  \/ c[1] = b[1] /\ c[2] = b[2] + 1
  \/ c[1] = b[1] + 1 /\ c[2] = 1 /\ b[2] = l[b[1]].size

Linked(l, s) ==
  /\ \A k \in 1..Len(s) : s[k][1] \in 1..Len(l)
  /\ \A k \in 1..Len(s)-1 : FollowsIn(l, s[k], s[k + 1])
  /\ Len(s) > 0 => s[Len(s)] = <<Len(l), l[Len(l)].size>>

Piece(l, s) ==
  /\ Len(s) > 0 => s[1][1] \in 1..Len(l) /\ s[1][2] = 1
  /\ \A k \in 1..Len(s)-1 : s[k + 1][1] \in 1..Len(l) /\ FollowsIn(l, s[k], s[k + 1])

LEMMA GrownLog ==
  ASSUME NEW l \in Logs, NEW e \in [size : Nat, overrun : BOOLEAN]
  PROVE  /\ Len(l) \in Nat /\ Len(Append(l, e)) = Len(l) + 1
         /\ Append(l, e)[Len(l) + 1] = e
         /\ \A i \in 1..Len(l) : Append(l, e)[i] = l[i]
  BY AppendProperties, LenProperties DEF Logs

(* A run of bytes stays one when more is published ...                      *)
LEMMA PieceStays ==
  ASSUME NEW l \in Logs, NEW e \in [size : Nat, overrun : BOOLEAN], NEW s \in Seq(Bytes),
         Piece(l, s)
  PROVE  Piece(Append(l, e), s)
<1> DEFINE m == Append(l, e)
<1>1. /\ Len(l) \in Nat /\ Len(m) = Len(l) + 1 /\ Len(s) \in Nat
      /\ \A i \in 1..Len(l) : m[i] = l[i]
  BY GrownLog, LenProperties
<1> HIDE DEF m
<1>2. ASSUME NEW k \in 1..Len(s)-1 PROVE s[k + 1][1] \in 1..Len(m) /\ FollowsIn(m, s[k], s[k + 1])
  <2>1. s[k][1] \in 1..Len(l)
    <3>1. CASE k = 1
      BY <1>1, <3>1 DEF Piece
    <3>2. CASE k # 1
      <4>1. k - 1 \in 1..Len(s)-1 /\ (k - 1) + 1 = k
        BY <1>1, <3>2
      <4> QED
        BY <4>1 DEF Piece
    <3> QED
      BY <3>1, <3>2
  <2>2. s[k + 1][1] \in 1..Len(l) /\ FollowsIn(l, s[k], s[k + 1])
    BY DEF Piece
  <2> QED
    BY <1>1, <2>1, <2>2 DEF FollowsIn
<1>3. Len(s) > 0 => s[1][1] \in 1..Len(m) /\ s[1][2] = 1
  BY <1>1 DEF Piece
<1> QED
  BY <1>2, <1>3 DEF Piece, m

(* ... and the packet published continues the run that is not yet read.     *)
LEMMA LinkedGrows ==
  ASSUME NEW l \in Logs, NEW e \in [size : Nat, overrun : BOOLEAN], e.size >= 1,
         NEW s \in Seq(Bytes), Linked(l, s)
  PROVE  Linked(Append(l, e), s \o Packet(Len(l) + 1, e.size))
<1> DEFINE m == Append(l, e)
           z == e.size
           p == Packet(Len(l) + 1, z)
           t == s \o p
           n == Len(s)
<1>1. /\ Len(l) \in Nat /\ Len(m) = Len(l) + 1 /\ m[Len(l) + 1] = e /\ n \in Nat /\ z \in Nat
      /\ z >= 1 /\ m[Len(l) + 1].size = z
      /\ \A i \in 1..Len(l) : m[i] = l[i]
  BY GrownLog, LenProperties
<1>2. /\ p \in Seq(Bytes) /\ Len(p) = z
      /\ \A k \in 1..z : p[k] = <<Len(l) + 1, k>>
  <2>1. Len(l) + 1 \in Nat /\ z \in Nat
    BY <1>1
  <2> HIDE DEF z
  <2> QED
    BY <2>1, PacketType
<1> HIDE DEF p, z
<1>3. /\ Len(t) = n + z
      /\ \A k \in 1..(n + z) : t[k] = IF k <= n THEN s[k] ELSE p[k - n]
  <2>1. /\ Len(t) = Len(s) + Len(p)
        /\ \A k \in 1..(Len(s) + Len(p)) : t[k] = IF k <= Len(s) THEN s[k] ELSE p[k - Len(s)]
    BY <1>2, Joined
  <2> QED
    BY <1>2, <2>1
<1> HIDE DEF m, t
<1>4. \A k \in 1..n : t[k] = s[k]
  BY <1>1, <1>3
<1>5. ASSUME NEW k \in 1..z PROVE t[n + k] = <<Len(l) + 1, k>>
  <2>1. n + k \in 1..(n + z) /\ ~(n + k <= n) /\ (n + k) - n = k
    BY <1>1
  <2>2. t[n + k] = p[k]
    BY <1>3, <2>1
  <2> QED
    BY <1>2, <2>2
<1>6. ASSUME NEW k \in 1..Len(t) PROVE t[k][1] \in 1..Len(m)
  <2>1. CASE k <= n
    BY <1>1, <1>4, <2>1 DEF Linked
  <2>2. CASE ~(k <= n)
    <3>1. k - n \in 1..z /\ n + (k - n) = k
      BY <1>1, <1>3, <2>2
    <3>2. t[k] = <<Len(l) + 1, k - n>>
      BY <1>5, <3>1
    <3>3. t[k][1] = Len(l) + 1
      BY <3>2
    <3> QED
      BY <1>1, <3>3
  <2> QED
    BY <2>1, <2>2
<1>7. ASSUME NEW k \in 1..Len(t)-1 PROVE FollowsIn(m, t[k], t[k + 1])
  <2>1. CASE k < n
    <3>1. k \in 1..n /\ k + 1 \in 1..n /\ k \in 1..n-1
      BY <1>1, <2>1
    <3>2. FollowsIn(l, s[k], s[k + 1]) /\ s[k][1] \in 1..Len(l)
      BY <3>1 DEF Linked
    <3> QED
      BY <1>1, <1>4, <3>1, <3>2 DEF FollowsIn
  <2>2. CASE k = n
    <3>1. n > 0 /\ n \in 1..n /\ 1 \in 1..z
      BY <1>1, <2>2
    <3>2. t[n] = <<Len(l), l[Len(l)].size>> /\ t[n][1] \in 1..Len(l)
      BY <1>4, <3>1 DEF Linked
    <3>3. t[n + 1] = <<Len(l) + 1, 1>>
      BY <1>5, <3>1
    <3> QED
      BY <1>1, <2>2, <3>2, <3>3 DEF FollowsIn
  <2>3. CASE k > n
    <3>1. /\ k - n \in 1..z /\ n + (k - n) = k
          /\ k - n + 1 \in 1..z /\ n + (k - n + 1) = k + 1
      BY <1>1, <1>3, <2>3
    <3>2. t[k] = <<Len(l) + 1, k - n>> /\ t[k + 1] = <<Len(l) + 1, k - n + 1>>
      BY <1>5, <3>1
    <3> QED
      BY <3>2 DEF FollowsIn
  <2> QED
    BY <1>1, <2>1, <2>2, <2>3
<1>8. t[Len(t)] = <<Len(m), m[Len(m)].size>>
  <2>1. z \in 1..z
    BY <1>1
  <2> QED
    BY <1>1, <1>3, <1>5, <2>1
<1> QED
  BY <1>6, <1>7, <1>8 DEF Linked, m, t, p, z

(* What remains of a run when its front is gone is a run, too; what is      *)
(* gone is a piece of it.                                                   *)
LEMMA LinkedBack ==
  ASSUME NEW l \in Logs, NEW s \in Seq(Bytes), NEW t \in Seq(Bytes), Linked(l, s \o t)
  PROVE  Linked(l, t)
<1> DEFINE st == s \o t
<1>1. /\ Len(s) \in Nat /\ Len(t) \in Nat /\ Len(st) = Len(s) + Len(t)
      /\ \A i \in 1..Len(s) + Len(t) : st[i] = IF i <= Len(s) THEN s[i] ELSE t[i - Len(s)]
  BY Joined, LenProperties
<1> HIDE DEF st
<1>2. ASSUME NEW k \in 1..Len(t) PROVE st[Len(s) + k] = t[k] /\ Len(s) + k \in 1..Len(st)
  <2>1. Len(s) + k \in 1..Len(s) + Len(t) /\ ~(Len(s) + k <= Len(s)) /\ (Len(s) + k) - Len(s) = k
    BY <1>1
  <2> QED
    BY <1>1, <2>1
<1>3. ASSUME NEW k \in 1..Len(t) PROVE t[k][1] \in 1..Len(l)
  <2>1. st[Len(s) + k][1] \in 1..Len(l)
    BY <1>2 DEF Linked, st
  <2> QED
    BY <1>2, <2>1
<1>4. ASSUME NEW k \in 1..Len(t)-1 PROVE FollowsIn(l, t[k], t[k + 1])
  <2>1. /\ k \in 1..Len(t) /\ k + 1 \in 1..Len(t) /\ (Len(s) + k) + 1 = Len(s) + (k + 1)
        /\ Len(s) + k \in 1..Len(st)-1
    BY <1>1
  <2>2. FollowsIn(l, st[Len(s) + k], st[(Len(s) + k) + 1])
    BY <2>1 DEF Linked, st
  <2> QED
    BY <1>2, <2>1, <2>2
<1>5. Len(t) > 0 => t[Len(t)] = <<Len(l), l[Len(l)].size>>
  <2> SUFFICES ASSUME Len(t) > 0 PROVE t[Len(t)] = <<Len(l), l[Len(l)].size>>
    OBVIOUS
  <2>1. Len(t) \in 1..Len(t) /\ Len(st) > 0
    BY <1>1
  <2>2. st[Len(st)] = <<Len(l), l[Len(l)].size>>
    BY <2>1 DEF Linked, st
  <2> QED
    BY <1>1, <1>2, <2>1, <2>2
<1> QED
  BY <1>3, <1>4, <1>5 DEF Linked

LEMMA PieceFront ==
  ASSUME NEW l \in Logs, NEW s \in Seq(Bytes), NEW t \in Seq(Bytes), Linked(l, s \o t),
         Len(s \o t) > 0 => (s \o t)[1][2] = 1
  PROVE  Piece(l, s)
<1> DEFINE st == s \o t
<1>1. /\ Len(s) \in Nat /\ Len(t) \in Nat /\ Len(st) = Len(s) + Len(t)
      /\ \A i \in 1..Len(s) + Len(t) : st[i] = IF i <= Len(s) THEN s[i] ELSE t[i - Len(s)]
  BY Joined, LenProperties
<1>0. Linked(l, st) /\ (Len(st) > 0 => st[1][2] = 1)
  OBVIOUS
<1> HIDE DEF st
<1>2. \A k \in 1..Len(s) : st[k] = s[k] /\ k \in 1..Len(st)
  BY <1>1
<1>3. ASSUME NEW k \in 1..Len(s)-1
      PROVE  s[k + 1][1] \in 1..Len(l) /\ FollowsIn(l, s[k], s[k + 1])
  <2>1. k \in 1..Len(s) /\ k + 1 \in 1..Len(s) /\ k \in 1..Len(st)-1
    BY <1>1
  <2>2. st[k + 1][1] \in 1..Len(l) /\ FollowsIn(l, st[k], st[k + 1])
    BY <1>0, <1>2, <2>1 DEF Linked
  <2> QED
    BY <1>2, <2>1, <2>2
<1>4. ASSUME Len(s) > 0 PROVE s[1][1] \in 1..Len(l) /\ s[1][2] = 1
  <2>1. 1 \in 1..Len(s) /\ 1 \in 1..Len(st) /\ Len(st) > 0
    BY <1>1, <1>4
  <2>2. st[1][1] \in 1..Len(l) /\ st[1][2] = 1 /\ st[1] = s[1]
    BY <1>0, <1>2, <2>1 DEF Linked
  <2> QED
    BY <2>2
<1> QED
  BY <1>3, <1>4 DEF Piece

LEMMA TwoParts ==
  ASSUME NEW s \in Seq(Bytes), NEW n \in 0..Len(s)
  PROVE  /\ SubSeq(s, 1, n) \in Seq(Bytes) /\ SubSeq(s, n + 1, Len(s)) \in Seq(Bytes)
         /\ SubSeq(s, 1, n) \o SubSeq(s, n + 1, Len(s)) = s
         /\ Len(SubSeq(s, n + 1, Len(s))) = Len(s) - n
         /\ n < Len(s) => SubSeq(s, n + 1, Len(s))[1] = s[n + 1]
<1> DEFINE a == SubSeq(s, 1, n)
           b == SubSeq(s, n + 1, Len(s))
           m == Len(s)
<1>0. m \in Nat /\ n \in Nat /\ n <= m /\ \A i \in 1..m : s[i] \in Bytes
  BY LenProperties, ElementOfSeq
<1>1. a \in Seq(Bytes) /\ Len(a) = n /\ \A i \in 1..n : a[i] = s[i]
  <2>1. /\ a \in Seq(Bytes) /\ Len(a) = IF 1 <= n THEN n - 1 + 1 ELSE 0
        /\ \A i \in 1 .. n - 1 + 1 : a[i] = s[1 + i - 1]
    BY <1>0, SubSeqProperties
  <2>2. n - 1 + 1 = n /\ \A i \in 1..n : 1 + i - 1 = i
    BY <1>0
  <2> HIDE DEF a
  <2> QED
    BY <1>0, <2>1, <2>2
<1>2. b \in Seq(Bytes) /\ Len(b) = m - n /\ \A i \in 1..(m - n) : b[i] = s[n + i]
  <2>1. /\ b \in Seq(Bytes) /\ Len(b) = IF n + 1 <= m THEN m - (n + 1) + 1 ELSE 0
        /\ \A i \in 1 .. m - (n + 1) + 1 : b[i] = s[(n + 1) + i - 1]
    BY <1>0, SubSeqProperties
  <2>2. m - (n + 1) + 1 = m - n /\ \A i \in 1..(m - n) : (n + 1) + i - 1 = n + i
    BY <1>0
  <2> HIDE DEF b, m
  <2> QED
    BY <1>0, <2>1, <2>2
<1> HIDE DEF a, b, m
<1>3. /\ a \o b \in Seq(Bytes) /\ Len(a \o b) = m
      /\ \A i \in 1..m : (a \o b)[i] = IF i <= n THEN a[i] ELSE b[i - n]
  <2>1. /\ a \o b \in Seq(Bytes) /\ Len(a \o b) = n + (m - n)
        /\ \A i \in 1..(n + (m - n)) : (a \o b)[i] = IF i <= n THEN a[i] ELSE b[i - n]
    <3>1. /\ a \o b \in Seq(Bytes) /\ Len(a \o b) = Len(a) + Len(b)
          /\ \A i \in 1..(Len(a) + Len(b)) :
               (a \o b)[i] = IF i <= Len(a) THEN a[i] ELSE b[i - Len(a)]
      BY <1>1, <1>2, Joined
    <3> QED
      BY <1>1, <1>2, <3>1
  <2>2. n + (m - n) = m
    BY <1>0
  <2> QED
    BY <2>1, <2>2
<1>4. ASSUME NEW i \in 1..m PROVE (a \o b)[i] = s[i]
  <2>1. i <= n => i \in 1..n
    BY <1>0
  <2>2. ~(i <= n) => i - n \in 1..(m - n) /\ n + (i - n) = i
    BY <1>0
  <2> QED
    BY <1>1, <1>2, <1>3, <2>1, <2>2
<1>5. a \o b = s
  BY <1>0, <1>3, <1>4, SeqEqual DEF m
<1>6. n < m => b[1] = s[n + 1]
  BY <1>0, <1>2
<1> QED
  BY <1>1, <1>2, <1>5, <1>6 DEF a, b, m

(* All the bytes of the connection in use, sent and unsent; nobody's but    *)
(* the unsent ones if there is none.                                        *)
Sent == IF curFd = NoFd THEN <<>> ELSE recv[curFd]

Whole == Sent \o Unread

IntactInv ==
  /\ recv \in [Fds -> Seq(Bytes)]
  /\ Linked(log, Whole)
  /\ curFd # NoFd /\ Len(Whole) > 0 => Whole[1][2] = 1
  /\ \A f \in Fds : f # curFd => Piece(log, recv[f])
  /\ \A f \in Fds : f = newFd \/ f \notin pushed => recv[f] = <<>>

LEMMA SentType ==
  ASSUME IInv, IntactInv PROVE Sent \in Seq(Bytes)
<1>1. curFd \in Fds \cup {NoFd} /\ recv \in [Fds -> Seq(Bytes)]
  BY DEF IInv, TypeOK, IntactInv
<1>2. <<>> \in Seq(Bytes)
  BY EmptySeq
<1> QED
  BY <1>1, <1>2 DEF Sent

LEMMA LogType == ASSUME IInv PROVE log \in Logs
  BY DEF IInv, TypeOK, Logs

(* One that is waiting or still to come is not the one in use.              *)
LEMMA OneOwner ==
  ASSUME IInv, FdsOwned, NEW f \in Fds, f = newFd \/ f \notin pushed
  PROVE  f # curFd
<1>1. closes[f] \in Nat
  BY DEF IInv, TypeOK
<1>2. closes[f] + (IF newFd = f THEN 1 ELSE 0) + (IF curFd = f THEN 1 ELSE 0)
        = (IF f \in pushed THEN 1 ELSE 0)
  BY DEF FdsOwned
<1> QED
  BY <1>1, <1>2

LEMMA InitIntact == Init => IntactInv
<1> SUFFICES ASSUME Init PROVE IntactInv
  OBVIOUS
<1>1. IInv /\ BufInv
  BY InitIInv, InitBuf
<1>2. Unread = <<>>
  <2>1. ReadPosition = 0 /\ writeInfo.write_offset = 0
    BY DEF Init, Info, ReadPosition
  <2>2. Len(Unread) = 0
    BY <1>1, <2>1, NthUnread DEF HowMany
  <2> QED
    BY <1>1, <2>2, UnreadType, EmptySeq
<1>3. Whole = <<>> \o <<>>
  BY <1>2 DEF Init, Whole, Sent
<1>4. Whole = <<>> /\ Len(Whole) = 0
  <2>1. <<>> \in Seq(Bytes) /\ Len(<<>>) = 0
    BY EmptySeq
  <2> QED
    BY <1>3, <2>1, ConcatEmptySeq
<1>5. recv = [f \in Fds |-> <<>>] /\ \A f \in Fds : recv[f] = <<>> /\ Len(recv[f]) = 0
  BY DEF Init
<1>6. recv \in [Fds -> Seq(Bytes)]
  <2>1. <<>> \in Seq(Bytes)
    BY EmptySeq
  <2> QED
    BY <1>5, <2>1
<1>7. Linked(log, Whole)
  BY <1>4 DEF Linked
<1>8. \A f \in Fds : Piece(log, recv[f])
  BY <1>5 DEF Piece
<1> QED
  BY <1>4, <1>5, <1>6, <1>7, <1>8 DEF IntactInv

(* What IntactInv says of every connection, the one in use included.        *)
LEMMA AllPieces ==
  ASSUME IInv, BufInv, IntactInv, NEW f \in Fds
  PROVE  Piece(log, recv[f])
<1>1. CASE f # curFd
  BY <1>1 DEF IntactInv
<1>2. CASE f = curFd
  <2>1. f # NoFd /\ Sent = recv[f]
    BY <1>2, HoseAssumption DEF Sent
  <2>2. recv[f] \in Seq(Bytes) /\ Unread \in Seq(Bytes) /\ log \in Logs
    BY UnreadType, LogType DEF IntactInv
  <2>3. Linked(log, recv[f] \o Unread) /\ (Len(recv[f] \o Unread) > 0 => (recv[f] \o Unread)[1][2] = 1)
    BY <1>2, <2>1 DEF IntactInv, Whole
  <2> QED
    BY <2>2, <2>3, PieceFront
<1> QED
  BY <1>1, <1>2

LEMMA PublishIntact ==
  ASSUME IInv, BufInv, IntactInv, Publish PROVE IntactInv'
<1> DEFINE e == [size |-> FullSize, overrun |-> wOverrun]
           m == Append(log, e)
           p == Packet(Len(log) + 1, FullSize)
<1>1. UNCHANGED <<curFd, recv, newFd, pushed>> /\ log' = m
  BY DEF Publish, readerVars, fdVars
<1>2. e \in [size : Nat, overrun : BOOLEAN] /\ e.size = FullSize /\ FullSize \in Nat /\ FullSize >= 2
      /\ log \in Logs
  <2>1. wOverrun \in BOOLEAN /\ FullSize \in Nat /\ FullSize >= 2
    BY Sizes DEF IInv, TypeOK
  <2> QED
    BY <2>1, LogType
<1>3. Sent' = Sent
  BY <1>1, Zenon DEF Sent
<1>4. Sent \in Seq(Bytes) /\ Unread \in Seq(Bytes) /\ Unread' = Unread \o p /\ p \in Seq(Bytes)
  <2>1. p \in Seq(Bytes)
    <3>1. Len(log) + 1 \in Nat
      BY <1>2, LenProperties DEF Logs
    <3> QED
      BY <1>2, <3>1, PacketType
  <2> QED
    BY <2>1, SentType, UnreadType, PublishUnread
<1> HIDE DEF e, p
<1>5. Whole' = Whole \o p
  <2>1. Whole' = Sent \o (Unread \o p)
    BY <1>3, <1>4 DEF Whole
  <2>2. (Sent \o Unread) \o p = Sent \o (Unread \o p)
    BY <1>4, Regrouped
  <2> QED
    BY <2>1, <2>2 DEF Whole
<1>6. Whole \in Seq(Bytes) /\ Linked(log, Whole)
  <2>1. Sent \o Unread \in Seq(Bytes)
    BY <1>4, Joined
  <2> QED
    BY <2>1 DEF Whole, IntactInv
<1>7. Linked(m, Whole \o p)
  <2>1. e.size >= 1
    BY <1>2
  <2>2. p = Packet(Len(log) + 1, e.size)
    BY <1>2 DEF p
  <2> QED
    BY <1>2, <1>6, <2>1, <2>2, LinkedGrows
<1>8. ASSUME curFd # NoFd PROVE (Whole \o p)[1][2] = 1
  <2>0. /\ Len(Whole) \in Nat /\ Len(p) = FullSize /\ p[1] = <<Len(log) + 1, 1>>
    <3>1. Len(log) + 1 \in Nat /\ 1 \in 1..FullSize
      BY <1>2, LenProperties DEF Logs
    <3>2. Len(p) = FullSize /\ \A k \in 1..FullSize : p[k] = <<Len(log) + 1, k>>
      BY <1>2, <3>1, PacketType DEF p
    <3> QED
      BY <1>6, <3>1, <3>2, LenProperties
  <2>1. (Whole \o p)[1] = IF 1 <= Len(Whole) THEN Whole[1] ELSE p[1 - Len(Whole)]
    <3>1. 1 \in 1..(Len(Whole) + Len(p))
      BY <1>2, <2>0
    <3> QED
      BY <1>4, <1>6, <3>1, Joined
  <2>2. CASE Len(Whole) > 0
    BY <1>8, <2>0, <2>1, <2>2 DEF IntactInv
  <2>3. CASE ~(Len(Whole) > 0)
    <3>1. Len(Whole) = 0
      BY <2>0, <2>3
    <3>2. (Whole \o p)[1] = p[1]
      BY <2>1, <3>1
    <3> QED
      BY <2>0, <3>2
  <2> QED
    BY <2>2, <2>3
<1>9. ASSUME NEW f \in Fds, f # curFd PROVE Piece(m, recv[f])
  <2>1. recv[f] \in Seq(Bytes) /\ Piece(log, recv[f])
    BY <1>9 DEF IntactInv
  <2> QED
    BY <1>2, <2>1, PieceStays
<1> HIDE DEF m
<1>10. Linked(log, Whole)' /\ \A f \in Fds : f # curFd' => Piece(log, recv[f])'
  BY <1>1, <1>5, <1>7, <1>9
<1> QED
  BY <1>1, <1>5, <1>8, <1>10 DEF IntactInv

LEMMA SendIntact ==
  ASSUME IInv, BufInv, FdsOwned, IntactInv, NEW n \in 0..MaxSend, Send(n) PROVE IntactInv'
<1> DEFINE a == SubSeq(Unread, 1, n)
           b == SubSeq(Unread, n + 1, Len(Unread))
<1>1. /\ UNCHANGED <<curFd, newFd, pushed, log>> /\ curFd # NoFd /\ curFd \in Fds
  BY DEF Send, histVars, IInv, TypeOK
<1>2. n \in 0..Len(Unread) /\ Unread' = b /\ recv' = [recv EXCEPT ![curFd] = recv[curFd] \o a]
  BY SendUnread
<1>3. a \in Seq(Bytes) /\ b \in Seq(Bytes) /\ a \o b = Unread /\ Unread \in Seq(Bytes)
  BY <1>2, UnreadType, TwoParts
<1> HIDE DEF a, b
<1>4. recv \in [Fds -> Seq(Bytes)] /\ recv[curFd] \in Seq(Bytes)
  BY <1>1 DEF IntactInv
<1>5. recv[curFd] \o a \in Seq(Bytes)
  BY <1>3, <1>4, Joined
<1>6. recv' \in [Fds -> Seq(Bytes)] /\ recv'[curFd] = recv[curFd] \o a
      /\ \A f \in Fds : f # curFd => recv'[f] = recv[f]
  BY <1>1, <1>2, <1>4, <1>5
<1>7. Whole' = Whole
  <2> DEFINE s == recv[curFd]
  <2>1. Whole' = (s \o a) \o b
    BY <1>1, <1>2, <1>6 DEF Whole, Sent
  <2>2. Whole = s \o (a \o b)
    BY <1>1, <1>3 DEF Whole, Sent
  <2> HIDE DEF s
  <2>3. s \in Seq(Bytes) /\ a \in Seq(Bytes) /\ b \in Seq(Bytes)
    BY <1>3, <1>4 DEF s
  <2>4. (s \o a) \o b = s \o (a \o b)
    BY <2>3, Regrouped
  <2> QED
    BY <2>1, <2>2, <2>4
<1>8. \A f \in Fds : f = newFd \/ f \notin pushed => recv'[f] = <<>>
  BY <1>6, OneOwner DEF IntactInv
<1>9. \A f \in Fds : f # curFd => Piece(log, recv'[f])
  BY <1>6 DEF IntactInv
<1> QED
  BY <1>1, <1>6, <1>7, <1>8, <1>9 DEF IntactInv

LEMMA DiscardIntact ==
  ASSUME IInv, BufInv, IntactInv, DiscardUnread PROVE IntactInv'
<1> DEFINE n == ToSend
           a == SubSeq(Unread, 1, n)
           b == SubSeq(Unread, n + 1, Len(Unread))
<1>1. UNCHANGED <<curFd, recv, newFd, pushed, log>> /\ curFd = NoFd
  BY DEF DiscardUnread, fdVars, histVars
<1>2. n \in 0..Len(Unread) /\ Unread' = b
  BY DiscardUnreadDrops DEF DroppedToPacket
<1> HIDE DEF n
<1>3. a \in Seq(Bytes) /\ b \in Seq(Bytes) /\ a \o b = Unread /\ Unread \in Seq(Bytes)
  BY <1>2, UnreadType, TwoParts
<1>4. Whole = Unread /\ Whole' = b
  <2>1. Whole = <<>> \o Unread /\ Whole' = <<>> \o b
    BY <1>1, <1>2, Zenon DEF Whole, Sent
  <2> HIDE DEF b
  <2> QED
    BY <1>3, <2>1, ConcatEmptySeq
<1> HIDE DEF a, b
<1>5. Linked(log, b)
  BY <1>3, <1>4, LogType, LinkedBack DEF IntactInv
<1> QED
  BY <1>1, <1>4, <1>5 DEF IntactInv

LEMMA AdoptIntact ==
  ASSUME IInv, BufInv, FdsOwned, IntactInv, TakeNewFd PROVE IntactInv'
<1>1. /\ UNCHANGED <<recv, pushed, log>> /\ newFd # NoFd /\ curFd' = newFd /\ newFd' = NoFd
      /\ newFd \in Fds
  BY DEF TakeNewFd, histVars, IInv, TypeOK
<1>2. PICK n \in Nat : DroppedToPacket(n)
  BY TakeNewFdDrops
<1> DEFINE a == SubSeq(Unread, 1, n)
           b == SubSeq(Unread, n + 1, Len(Unread))
<1>3. n \in 0..Len(Unread) /\ Unread' = b /\ (n < Len(Unread) => Unread[n + 1][2] = 1)
  BY <1>2 DEF DroppedToPacket
<1>4. /\ a \in Seq(Bytes) /\ b \in Seq(Bytes) /\ a \o b = Unread /\ Unread \in Seq(Bytes)
      /\ Len(b) = Len(Unread) - n /\ (n < Len(Unread) => b[1] = Unread[n + 1])
      /\ Len(Unread) \in Nat
  BY <1>3, UnreadType, TwoParts
<1> HIDE DEF a, b
<1>5. Whole' = b
  <2>1. recv[newFd] = <<>>
    BY <1>1 DEF IntactInv
  <2>2. Whole' = <<>> \o b
    BY <1>1, <1>3, <2>1 DEF Whole, Sent
  <2> QED
    BY <1>4, <2>2, ConcatEmptySeq
<1>6. Linked(log, b)
  <2>1. Linked(log, Unread)
    BY <1>4, SentType, LogType, LinkedBack DEF IntactInv, Whole
  <2> QED
    BY <1>4, <2>1, LogType, LinkedBack
<1>7. Len(b) > 0 => b[1][2] = 1
  BY <1>3, <1>4
<1>8. \A f \in Fds : Piece(log, recv[f])
  BY AllPieces
<1>9. \A f \in Fds : f = NoFd \/ f \notin pushed => recv[f] = <<>>
  BY HoseAssumption DEF IntactInv
<1> QED
  BY <1>1, <1>5, <1>6, <1>7, <1>8, <1>9 DEF IntactInv

LEMMA FailIntact ==
  ASSUME IInv, BufInv, IntactInv, SendFails PROVE IntactInv'
<1>1. UNCHANGED <<recv, pushed, log, newFd>> /\ curFd' = NoFd
  BY DEF SendFails, histVars
<1>2. Unread' = Unread
  BY DEF SendFails, bufVars, Unread, ReadPosition, Slice
<1>3. Whole' = Unread
  <2>1. Whole' = <<>> \o Unread
    BY <1>1, <1>2, Zenon DEF Whole, Sent
  <2> QED
    BY <2>1, UnreadType, ConcatEmptySeq
<1>4. Linked(log, Unread)
  BY SentType, UnreadType, LogType, LinkedBack DEF IntactInv, Whole
<1>5. \A f \in Fds : Piece(log, recv[f])
  BY AllPieces
<1> QED
  BY <1>1, <1>3, <1>4, <1>5 DEF IntactInv

LEMMA OthersIntact ==
  ASSUME IInv, BufInv, IntactInv, [Next]_vars, ~Publish, ~DiscardUnread, ~TakeNewFd, ~SendFails,
         ~\E n \in 0..MaxSend : Send(n)
  PROVE  IntactInv'
<1>1. UNCHANGED <<log, curFd, recv>>
  BY DEF Next, Writer, Reader, Rpc, WritePacket, ReserveSpace, NoRoom, WakeByEvent,
     WakeByTimeout, Fill, Discard, LoadOffsets, DropBuffer, NoNewFd,
     StoreReadOffset, SignalSent, PushFd, SetEnableBackpressure, SignalDisabled,
     vars, readerVars, fdVars, histVars
<1>2. \A f \in Fds : f = newFd' \/ f \notin pushed' => f = newFd \/ f \notin pushed
  <2>1. CASE \E f \in Fds : PushFd(f)
    BY <2>1 DEF PushFd
  <2>2. CASE ~\E f \in Fds : PushFd(f)
    BY <2>2 DEF Next, Writer, Reader, Rpc, WritePacket, ReserveSpace, NoRoom, WakeByEvent,
       WakeByTimeout, Fill, Discard, LoadOffsets, DropBuffer, NoNewFd,
       StoreReadOffset, SignalSent, SetEnableBackpressure, SignalDisabled,
       vars, fdVars
  <2> QED
    BY <2>1, <2>2
<1>3. Unread' = Unread
  BY FillUnread, UnreadKept
<1>4. Whole' = Whole
  BY <1>1, <1>3, Zenon DEF Whole, Sent
<1> QED
  BY <1>1, <1>2, <1>4 DEF IntactInv

(* What a connection receives is the published stream without gaps or       *)
(* repetitions from the first byte of some packet on (serve.cpp:374-424),   *)
(* however partial and failed sends, wraps, drops and new connections       *)
(* interleave with the game thread.                                         *)
THEOREM HoseStreamsIntact == Spec => []StreamsIntact
<1>1. StreamInv /\ FdsOwned /\ IntactInv /\ [Next]_vars => IntactInv'
  BY PublishIntact, SendIntact, DiscardIntact, AdoptIntact, FailIntact, OthersIntact DEF StreamInv
<1>2. StreamInv /\ IntactInv => StreamsIntact
  <2> SUFFICES ASSUME StreamInv, IntactInv, NEW f \in Fds
               PROVE  /\ recv[f] # <<>> => StartsPacket(recv[f][1])
                      /\ \A k \in 1..Len(recv[f])-1 :
                           /\ recv[f][k + 1][1] \in DOMAIN log
                           /\ Follows(recv[f][k], recv[f][k + 1])
    BY DEF StreamsIntact
  <2>1. /\ recv[f] \in Seq(Bytes) /\ Piece(log, recv[f]) /\ DOMAIN log = 1..Len(log)
    BY AllPieces, LogType, LenProperties DEF StreamInv, IntactInv, Logs
  <2>2. recv[f] # <<>> => Len(recv[f]) > 0
    BY <2>1, EmptySeq
  <2>3. \A b, c : FollowsIn(log, b, c) => Follows(b, c)
    BY DEF FollowsIn, Follows
  <2> QED
    BY <2>1, <2>2, <2>3 DEF Piece, StartsPacket
<1> QED
  BY <1>1, <1>2, InitIntact, HoseStream, HoseFdsOwned, PTL DEF Spec
==============================================================================
