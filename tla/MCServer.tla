------------------------------- MODULE MCServer -------------------------------
(***************************************************************************)
(* The RPC thread's connections (RpcServer): one whose client sends        *)
(* requests, and one that gets in its way.                                 *)
(***************************************************************************)
EXTENDS RpcServer

(* Lengths around the limits: two of the longest that fit cannot wait        *)
(* together, and a READ whose header gets shorter with what is accessible,   *)
(* which has memory for its buffer only if another READ made it.             *)
ReadOf(len, actual) == [type |-> "read", len |-> len, actual |-> actual]
Starved(len, actual) == [type |-> "starved", len |-> len, actual |-> actual]
Plain(type, len) == [type |-> type, len |-> len, actual |-> len]

(* One connection sends requests, the other gets in its way.                 *)
Asked ==
  [c \in Conns |->
     IF c = "c1" THEN {Starved(126, 125), ReadOf(65532, 65532), Plain("error", 0)}
     ELSE {Plain("ping", 4), Plain("close", 2)}]

To(uri, key) == [uri |-> uri, key |-> key]

Opened ==
  [c \in Conns |->
     IF c = "c1" THEN {To("/ws/rpc", TRUE), To("/ws/hose", TRUE)}
     ELSE {To("/", FALSE), To("/ws/hose", TRUE), To("/ws/hose", FALSE)}]

Budget == [c \in Conns |-> IF c = "c1" THEN 3 ELSE 2]

LoopStep(c) == ReadConn(c) \/ WritePart(c) \/ NothingToWrite(c) \/ CloseConn(c)

(* The loop visits every connection again and again, and clients read.       *)
ServerSpec ==
  /\ Init /\ [][Next]_vars
  /\ WF_vars(\E c \in Conns : LoopStep(c))
  /\ \A c \in Conns : SF_vars(Visit(c)) /\ SF_vars(WriteMessages(c))
=============================================================================
