---------------------------- MODULE PacketStream ----------------------------
(***************************************************************************)
(* What the hose promises its clients: a queue of bytes, filled by whole   *)
(* packets, drained by one connection at a time.  A connection gets a      *)
(* contiguous piece of the packet stream that begins with a packet.        *)
(* Nothing is said of rings, offsets, wrapping or threads.                 *)
(***************************************************************************)
EXTENDS Naturals, Sequences

CONSTANTS Fds, NoFd, PacketSizes

VARIABLES
  queue,     \* bytes published and not consumed: <<packet, place in packet>>
  published, \* how many packets were published
  newFd,     \* the connection waiting to be served
  curFd,     \* the connection being served
  recv       \* the bytes each connection was given

vars == <<queue, published, newFd, curFd, recv>>

Init ==
  /\ queue = <<>> /\ published = 0
  /\ newFd = NoFd /\ curFd = NoFd
  /\ recv = [f \in Fds |-> <<>>]

PacketBytes(p, size) == [k \in 1..size |-> <<p, k>>]

Without(n) == SubSeq(queue, n + 1, Len(queue))

Publish(size) ==
  /\ published' = published + 1
  /\ queue' = queue \o PacketBytes(published + 1, size)
  /\ UNCHANGED <<newFd, curFd, recv>>

Deliver(n) ==
  /\ curFd # NoFd
  /\ recv' = [recv EXCEPT ![curFd] = @ \o SubSeq(queue, 1, n)]
  /\ queue' = Without(n)
  /\ UNCHANGED <<published, newFd, curFd>>

(* A prefix may go unsent only if what remains begins with a packet.        *)
AtPacket(n) == n < Len(queue) => queue[n + 1][2] = 1

Forget(n) ==
  /\ curFd = NoFd /\ AtPacket(n)
  /\ queue' = Without(n)
  /\ UNCHANGED <<published, newFd, curFd, recv>>

Offer(f) ==
  /\ newFd' = f
  /\ UNCHANGED <<queue, published, curFd, recv>>

Serve(n) ==
  /\ newFd # NoFd /\ AtPacket(n)
  /\ curFd' = newFd /\ newFd' = NoFd
  /\ queue' = Without(n)
  /\ UNCHANGED <<published, recv>>

Disconnect ==
  /\ curFd' = NoFd
  /\ UNCHANGED <<queue, published, newFd, recv>>

Next ==
  \/ \E size \in PacketSizes : Publish(size)
  \/ \E n \in 0..Len(queue) : Deliver(n) \/ Forget(n) \/ Serve(n)
  \/ \E f \in Fds : Offer(f)
  \/ Disconnect

Spec == Init /\ [][Next]_vars
=============================================================================
