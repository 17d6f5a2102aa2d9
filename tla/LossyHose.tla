----------------------------- MODULE LossyHose ------------------------------
(***************************************************************************)
(* The hose as the reporters in main.cpp and the web client see it: a      *)
(* bounded queue of packets that may lose some, marks its losses, and      *)
(* changes connections.  Hose.tla is the same code byte by byte.           *)
(***************************************************************************)
EXTENDS Naturals, Sequences, SequencesExt

CONSTANTS
  Room,            \* bound: packets in the queue
  Lossy,           \* may a packet find no room (backpressure off)?
  MaxHandOvers     \* bound: connections handed to the hose

ASSUME LossyHoseAssumption ==
  Room \in Nat /\ Lossy \in BOOLEAN /\ MaxHandOvers \in Nat

VARIABLES
  stream,          \* packets published and not yet sent
  lastOverrun,     \* just_wrote_overrun
  conn,            \* the client's: "closed", "pending" in new_fd_, "current" in cur_fd_
  handOvers,       \* history
  todo,            \* packets the running hook has yet to write
  on               \* RPC_FLAG_SEND_COLL_STUFF

hoseVars == <<stream, lastOverrun, conn, handOvers>>

Overrun == [tag |-> "overrun"]

InitHose ==
  /\ stream = <<>> /\ lastOverrun = FALSE
  /\ conn \in {"closed", "current"} /\ handOvers = 0

(* The game thread publishes a packet; under backpressure it waits for room. *)
Publish(p) ==
  /\ Len(stream) < Room
  /\ stream' = Append(stream, p) /\ lastOverrun' = FALSE
  /\ UNCHANGED <<conn, handOvers>>

(* Mutant: losses are not marked.                                            *)
LoseSilently == Lossy /\ UNCHANGED hoseVars

(* It finds no room and is lost; a marker is written unless the last packet  *)
(* was one.                                                                  *)
Lose ==
  /\ Lossy /\ Len(stream) < Room
  /\ stream' = IF lastOverrun THEN stream ELSE Append(stream, Overrun)
  /\ lastOverrun' = TRUE
  /\ UNCHANGED <<conn, handOvers>>

(* Nobody to send to: the data is discarded.                                 *)
DiscardPacket ==
  /\ conn # "current" /\ stream # <<>>
  /\ stream' = Tail(stream)
  /\ UNCHANGED <<lastOverrun, conn, handOvers>>

(* The client's connection is handed over ...                                *)
HandOver ==
  /\ conn = "closed" /\ conn' = "pending"
  /\ handOvers < MaxHandOvers /\ handOvers' = handOvers + 1
  /\ UNCHANGED <<stream, lastOverrun>>

(* ... and taken by the hose thread, which drops the buffer as far as it had *)
(* been written when this iteration of do_iter began.                        *)
Adopt ==
  /\ conn = "pending" /\ conn' = "current"
  /\ \E n \in 0..Len(stream) : stream' = SubSeq(stream, n + 1, Len(stream))
  /\ UNCHANGED <<lastOverrun, handOvers>>

(* The connection ends; a packet it was in the middle of never arrives.      *)
Disconnect ==
  /\ conn = "current" /\ conn' = "closed"
  /\ handOvers < MaxHandOvers
  /\ UNCHANGED <<stream, lastOverrun, handOvers>>

-----------------------------------------------------------------------------
(* What is on its way to the client, at the positions 1, 2, ...; position 0  *)
(* stands for what the client has been told already.                         *)
Queue == stream \o todo

(* Of two kinds of packets, at the positions yes and no, which has the last  *)
(* word?                                                                     *)
LastWord(yes, no) == \E i \in yes : \A j \in no : j <= i

HoseOK ==
  /\ Len(stream) <= Room /\ lastOverrun \in BOOLEAN
  /\ conn \in {"closed", "pending", "current"} /\ handOvers \in 0..MaxHandOvers
=============================================================================
