----------------------------- MODULE RpcServer ------------------------------
(***************************************************************************)
(* The server's connections (serve.cpp, mongoose_server) on mongoose's     *)
(* event loop: upgrade to a websocket, one answer per message written into *)
(* the connection's send buffer, READ straight into it, errors that drain  *)
(* the connection, and the hand-over of hose connections.  Clients need    *)
(* not behave: they may send several HTTP requests before the upgrade, and *)
(* any frame on any connection, before their upgrade is answered too.      *)
(*                                                                         *)
(* An allocation that fails in READ is refused (serve.cpp:599); one that   *)
(* fails in mg_iobuf_add, which then appends nothing and is asked by       *)
(* nobody whether it did (mongoose.c:3398), is left out.                   *)
(***************************************************************************)
EXTENDS Integers, Sequences

CONSTANTS
  Conns,
  Openings,        \* of each connection: its client's HTTP requests, see Opening
  Requests,        \* of each connection: the frames its client may send, see Request
  MaxRequests,     \* of each connection, bound: messages of its client
  MaxQueue         \* bound: messages a client sends ahead

None == "none"
Limit == 65536                                  \* handle_rpc_packet: limit
Align == 2048                                   \* MG_IO_SIZE

(* What an HTTP request asks for; only one with a websocket key is upgraded. *)
Opening == [uri : {"/ws/hose", "/ws/rpc", "/"}, key : BOOLEAN]

(* READ of len bytes of which actual are accessible, the same when there is  *)
(* no memory for its buffer, another request with an answer of len bytes, or *)
(* one with an error; PING and CLOSE with len bytes.                         *)
Request ==
  [type : {"read", "starved", "other", "error", "ping", "close"}, len : Nat, actual : Nat]

ASSUME RpcServerAssumption ==
  /\ Openings \in [Conns -> SUBSET Opening] /\ None \notin Conns
  /\ Requests \in [Conns -> SUBSET Request]
  /\ \A c \in Conns : \A q \in Requests[c] : q.actual <= q.len
  /\ MaxRequests \in [Conns -> Nat] /\ MaxQueue \in Nat

VARIABLES
  conn,            \* mg_connection: see NewConn
  inbox,           \* sent by the client, not yet read
  got,             \* history: what the client has received
  asked,           \* history: messages sent by the client, numbered
  wanted,          \* history: the last HTTP request of the client
  turn,            \* mg_mgr_poll: the connection it is at and what comes next
  newFd, curFd,    \* the hose's new_fd_ and cur_fd_
  closes           \* history: how often each socket was closed

vars == <<conn, inbox, got, asked, wanted, turn, newFd, curFd, closes>>

(* phase: "new", "http", "ws" or, when the upgrade was refused, "plain", and *)
(* "gone".  size: send.size.  junk, history: bytes that are not HTTP came    *)
(* where HTTP was expected, and were dropped.                                *)
NewConn == [phase |-> "new", state |-> "default", send |-> <<>>, size |-> 0,
            draining |-> FALSE, closing |-> FALSE, junk |-> FALSE]

Gone == [NewConn EXCEPT !.phase = "gone"]

Idle == <<None, "read">>

Init ==
  /\ conn = [c \in Conns |-> NewConn]
  /\ inbox = [c \in Conns |-> <<>>] /\ got = [c \in Conns |-> <<>>]
  /\ asked = [c \in Conns |-> 0] /\ closes = [c \in Conns |-> 0]
  /\ wanted = [c \in Conns |-> [uri |-> "/", key |-> FALSE]]
  /\ turn = Idle /\ newFd = None /\ curFd = None

-----------------------------------------------------------------------------
(* The send buffer.                                                          *)

HeaderSize(n) == IF n < 126 THEN 2 ELSE IF n < 65536 THEN 4 ELSE 10

RoundUp(n) == ((n + Align - 1) \div Align) * Align

(* The bytes of the first n messages.                                        *)
BytesOf(send) ==
  LET bytes[n \in 0..Len(send)] == IF n = 0 THEN 0 ELSE bytes[n - 1] + send[n].size
  IN  bytes

SendLen(r) == BytesOf(r.send)[Len(r.send)]

(* A frame with a body of n bytes; its body begins bodyAt bytes into it.     *)
Frame(kind, for, n) ==
  [kind |-> kind, for |-> for, size |-> HeaderSize(n) + n, body |-> n,
   bodyAt |-> HeaderSize(n)]

Text(what, for) == [kind |-> what, for |-> for, size |-> 100, body |-> 100, bodyAt |-> 0]

(* mg_send and mg_iobuf_add, which also shrinks the buffer to what it needs. *)
Queued(r, item) ==
  [r EXCEPT !.send = Append(@, item), !.size = RoundUp(SendLen(r) + item.size)]

Last(r, item) == [Queued(r, item) EXCEPT !.draining = TRUE]

Refused(r, kind, q) == Last(r, Frame(kind, q.id, 16))

(* Mutant of READ: the body stays where the longer header would have put it. *)
ReadUnmoved(r, q) ==
  IF HeaderSize(q.len) + q.len > Limit - SendLen(r) THEN Refused(r, "overstuffed", q)
  ELSE [r EXCEPT !.size = Limit,
                 !.send = Append(@, [Frame("answer", q.id, q.actual)
                                       EXCEPT !.bodyAt = HeaderSize(q.len)])]

(* RPC_REQ_READ: room for the whole length is required and filled; if less   *)
(* was accessible and its header is shorter, the body is moved down.         *)
Read(r, q) ==
  LET size == IF r.size < Limit THEN Limit ELSE r.size
  IN  IF q.type = "starved" /\ r.size < Limit THEN Refused(r, "starved", q)
      ELSE IF HeaderSize(q.len) + q.len > size - SendLen(r)
        THEN Refused([r EXCEPT !.size = size], "overstuffed", q)
        ELSE [r EXCEPT !.size = size,
                       !.send = Append(@, Frame("answer", q.id, q.actual))]

-----------------------------------------------------------------------------
(* The handlers.                                                             *)

(* MG_EV_HTTP_MSG, and send_hello from MG_EV_WS_OPEN.                        *)
OnHttp(r, q) ==
  LET s == CASE q.uri = "/ws/hose" -> "handoff" [] q.uri = "/ws/rpc" -> "rpc"
             [] OTHER -> "default"
      named == [r EXCEPT !.state = s]
      open  == [Queued(named, Text("101", q.id)) EXCEPT !.phase = "ws"]
  IN  CASE s = "default" -> Queued(r, Text("404", q.id))
        [] s # "default" /\ ~q.key -> [Last(named, Text("426", q.id)) EXCEPT !.phase = "plain"]
        [] s = "rpc" /\ q.key -> Queued(open, Frame("hello", q.id, 160))
        [] OTHER -> open

(* Mutant: an error drains the connection without an answer.                 *)
OnMessageMute(r, q) ==
  CASE r.state = "rpc" /\ q.type \in {"read", "starved"} -> Read(r, q)
    [] r.state = "rpc" /\ q.type = "other" -> Queued(r, Frame("answer", q.id, q.len))
    [] OTHER -> [r EXCEPT !.draining = TRUE]

(* MG_EV_WS_MSG.  A text answer drains the connection; what was read with    *)
(* the request is still handled.                                             *)
OnMessage(r, q) ==
  CASE r.state # "rpc" -> [r EXCEPT !.draining = TRUE]
    [] r.state = "rpc" /\ q.type \in {"read", "starved"} -> Read(r, q)
    [] r.state = "rpc" /\ q.type = "error" -> Refused(r, "error", q)
    [] r.state = "rpc" /\ q.type = "other" -> Queued(r, Frame("answer", q.id, q.len))

(* mg_ws_cb: control frames are mongoose's.                                  *)
OnFrame(r, q) ==
  CASE q.type = "ping"  -> Queued(r, Frame("pong", q.id, q.len))
    [] q.type = "close" -> Last(r, Frame("close", q.id, q.len))
    [] OTHER -> OnMessage(r, q)

(* http_cb, which what is read belongs to until an upgrade, also what comes  *)
(* after the upgrade in the same read: bytes that are not HTTP drain the     *)
(* connection and are dropped.                                               *)
OnHttpData(r, m) ==
  IF m.type = "http" THEN OnHttp(r, m) ELSE [r EXCEPT !.draining = TRUE, !.junk = TRUE]

Handle(phase, r, m) == IF phase = "http" THEN OnHttpData(r, m) ELSE OnFrame(r, m)

(* The connection after the first n of the messages that have arrived.       *)
HandledTo(r, msgs) ==
  LET after[n \in 0..Len(msgs)] ==
        IF n = 0 THEN r ELSE Handle(r.phase, after[n - 1], msgs[n])
  IN  after

-----------------------------------------------------------------------------
(* mg_mgr_poll: for each connection read, write, close.                      *)

Accept(c) ==
  /\ conn[c].phase = "new"
  /\ conn' = [conn EXCEPT ![c].phase = "http"]
  /\ UNCHANGED <<inbox, got, asked, wanted, turn, newFd, curFd, closes>>

Visit(c) ==
  /\ turn = Idle /\ conn[c].phase \notin {"new", "gone"} /\ turn' = <<c, "read">>
  /\ UNCHANGED <<conn, inbox, got, asked, wanted, newFd, curFd, closes>>

(* read_conn, with the messages that have arrived.                           *)
ReadConn(c) ==
  /\ turn = <<c, "read">> /\ turn' = <<c, "write">>
  /\ \E n \in 0..Len(inbox[c]) :
       /\ conn' = [conn EXCEPT ![c] = HandledTo(@, inbox[c])[n]]
       /\ inbox' = [inbox EXCEPT ![c] = SubSeq(@, n + 1, Len(@))]
  /\ UNCHANGED <<got, asked, wanted, newFd, curFd, closes>>

(* read_conn when the client has closed: what waits may still be written in  *)
(* the same visit.                                                           *)
ReadFails(c) ==
  /\ turn = <<c, "read">> /\ turn' = <<c, "write">>
  /\ conn' = [conn EXCEPT ![c].closing = TRUE]
  /\ UNCHANGED <<inbox, got, asked, wanted, newFd, curFd, closes>>

(* write_conn when sending fails.                                            *)
WriteFails(c) ==
  /\ turn = <<c, "write">> /\ conn[c].send # <<>> /\ turn' = <<c, "close">>
  /\ conn' = [conn EXCEPT ![c].closing = TRUE]
  /\ UNCHANGED <<inbox, got, asked, wanted, newFd, curFd, closes>>

(* Mutant: a connection is handed over at the first bytes sent.              *)
HandsOverEarly(r) == r.state = "handoff"

(* MG_EV_WRITE: the upgrade answer is out.                                   *)
HandsOver(r) == r.state = "handoff" /\ r.send = <<>>

(* Mutant: the connection that was waiting is forgotten.                     *)
PushFdLeaking(c) == newFd' = c /\ UNCHANGED closes

(* push_fd: a connection that waits in new_fd_ is closed.                    *)
PushFd(c) ==
  /\ newFd' = c
  /\ closes' = IF newFd = None THEN closes ELSE [closes EXCEPT ![newFd] = @ + 1]

(* write_conn: what is left once n messages are out, and perhaps part of the *)
(* next.  After a hand-over mongoose reads the freed connection's flags once *)
(* more and finds the zeros mg_close_conn left.                              *)
Write(c, n) ==
  LET left == [conn[c] EXCEPT !.send = SubSeq(@, n + 1, Len(@))]
  IN  /\ turn = <<c, "write">> /\ conn[c].send # <<>>
      /\ got' = [got EXCEPT ![c] = @ \o SubSeq(conn[c].send, 1, n)]
      /\ IF HandsOver(left)
           THEN PushFd(c) /\ turn' = Idle /\ conn' = [conn EXCEPT ![c] = Gone]
           ELSE /\ turn' = <<c, "close">> /\ conn' = [conn EXCEPT ![c] = left]
                /\ UNCHANGED <<newFd, closes>>
      /\ UNCHANGED <<inbox, asked, wanted, curFd>>

WritePart(c) == Write(c, 0)

WriteMessages(c) == \E n \in DOMAIN conn[c].send : Write(c, n)

NothingToWrite(c) ==
  /\ turn = <<c, "write">> /\ conn[c].send = <<>> /\ turn' = <<c, "close">>
  /\ UNCHANGED <<conn, inbox, got, asked, wanted, newFd, curFd, closes>>

(* Mutant: a drained connection is left open.                                *)
CloseConnOnlyFailed(c) ==
  /\ turn = <<c, "close">> /\ turn' = Idle
  /\ IF conn[c].closing
       THEN conn' = [conn EXCEPT ![c] = Gone] /\ closes' = [closes EXCEPT ![c] = @ + 1]
       ELSE UNCHANGED <<conn, closes>>
  /\ UNCHANGED <<inbox, got, asked, wanted, newFd, curFd>>

CloseConn(c) ==
  /\ turn = <<c, "close">> /\ turn' = Idle
  /\ IF conn[c].closing \/ (conn[c].draining /\ conn[c].send = <<>>)
       THEN conn' = [conn EXCEPT ![c] = Gone] /\ closes' = [closes EXCEPT ![c] = @ + 1]
       ELSE UNCHANGED <<conn, closes>>
  /\ UNCHANGED <<inbox, got, asked, wanted, newFd, curFd>>

-----------------------------------------------------------------------------
(* The clients, and the hose thread.                                         *)

(* Several HTTP requests, but none after one that asks for an upgrade.       *)
OpenWith(c, q) ==
  /\ conn[c].phase = "http"
  /\ \A i \in DOMAIN inbox[c] : inbox[c][i].type = "http" /\ inbox[c][i].uri = "/"
  /\ asked[c] < MaxRequests[c] /\ Len(inbox[c]) < MaxQueue
  /\ asked' = [asked EXCEPT ![c] = @ + 1]
  /\ wanted' = [wanted EXCEPT ![c] = q]
  /\ inbox' = [inbox EXCEPT ![c] =
       Append(@, [type |-> "http", uri |-> q.uri, key |-> q.key, id |-> asked[c] + 1])]
  /\ UNCHANGED <<conn, got, turn, newFd, curFd, closes>>

(* Frames, several ahead, whatever has been answered.                        *)
Ask(c, q) ==
  /\ conn[c].phase \notin {"new", "gone"}
  /\ asked[c] < MaxRequests[c] /\ Len(inbox[c]) < MaxQueue
  /\ asked' = [asked EXCEPT ![c] = @ + 1]
  /\ inbox' = [inbox EXCEPT ![c] =
       Append(@, [type |-> q.type, len |-> q.len, actual |-> q.actual, id |-> asked[c] + 1])]
  /\ UNCHANGED <<conn, got, wanted, turn, newFd, curFd, closes>>

HoseTakes ==
  /\ newFd # None /\ curFd' = newFd /\ newFd' = None
  /\ closes' = IF curFd = None THEN closes ELSE [closes EXCEPT ![curFd] = @ + 1]
  /\ UNCHANGED <<conn, inbox, got, asked, wanted, turn>>

HoseFails ==
  /\ curFd # None /\ curFd' = None /\ closes' = [closes EXCEPT ![curFd] = @ + 1]
  /\ UNCHANGED <<conn, inbox, got, asked, wanted, turn, newFd>>

Poll(c) ==
  Visit(c) \/ ReadConn(c) \/ WritePart(c) \/ WriteMessages(c) \/ NothingToWrite(c) \/ CloseConn(c)

Next ==
  \/ \E c \in Conns : Accept(c) \/ Poll(c) \/ ReadFails(c) \/ WriteFails(c)
  \/ \E c \in Conns : \E q \in Openings[c] : OpenWith(c, q)
  \/ \E c \in Conns : \E q \in Requests[c] : Ask(c, q)
  \/ HoseTakes \/ HoseFails

Spec == Init /\ [][Next]_vars

-----------------------------------------------------------------------------
(* Properties.                                                               *)

(* A socket belongs to mongoose, waits for the hose, is the hose's, or has   *)
(* been closed, exactly once (serve.cpp:711-715: fd is taken out of the      *)
(* connection before mongoose closes it).                                    *)
FdsOwned ==
  \A c \in Conns :
    LET owners == (IF conn[c].phase # "gone" THEN {"mongoose"} ELSE {}) \cup
                  (IF newFd = c THEN {"new"} ELSE {}) \cup (IF curFd = c THEN {"current"} ELSE {})
    IN  /\ closes[c] \in {0, 1}
        /\ owners = {} <=> closes[c] = 1
        /\ \A o, p \in owners : o = p

(* What a connection got before it became the hose's: 404s for requests that *)
(* were not for a websocket, the answer to the request for the hose, control *)
(* frames.                                                                   *)
HoseAnswers(out, w) ==
  /\ w.uri = "/ws/hose"
  /\ \E h \in 1..Len(out) :
       /\ out[h].kind = IF w.key THEN "101" ELSE "426"
       /\ \A i \in 1..(h - 1) : out[i].kind = "404"
       /\ \A i \in (h + 1)..Len(out) : out[i].kind \in {"pong", "close"}

(* A connection is the hose's only if it asked for it, and after the answer  *)
(* is out in full, so that the hose's packets follow what begins a websocket *)
(* stream.  The exception is a request without a key: mg_ws_upgrade refuses  *)
(* it with 426, but the callback has named the state before (serve.cpp:701), *)
(* and the plain connection is handed over.                                  *)
HandedOverClean ==
  \A c \in Conns :
    c \in {newFd, curFd} => conn[c].send = <<>> /\ HoseAnswers(got[c], wanted[c])

(* Both clients take the k-th answer for the k-th request: each message of   *)
(* an RPC connection, errors, PING and CLOSE included, is answered once, in  *)
(* their order, and hello follows the 101; unless the client did not wait    *)
(* for the 101 and its first frames were dropped.                            *)
AnswersInOrder ==
  \A c \in Conns :
    LET out == got[c] \o conn[c].send
    IN  conn[c].state = "rpc" /\ conn[c].phase = "ws" /\ ~conn[c].junk =>
          /\ Len(out) - 1 = asked[c] - Len(inbox[c])
          /\ \E h \in 1..(Len(out) - 1) :
               /\ out[h].kind = "101" /\ out[h + 1].kind = "hello"
               /\ \A i \in 1..h : out[i].for = i
               /\ \A i \in (h + 1)..Len(out) : out[i].for = i - 1

(* The send buffer holds what is queued, and every frame's body follows its  *)
(* header, also when READ found less than was asked for (serve.cpp:617).     *)
BufferSound ==
  \A c \in Conns :
    /\ SendLen(conn[c]) <= conn[c].size
    /\ \A i \in DOMAIN conn[c].send :
         LET f == conn[c].send[i]
         IN  f.kind \in {"answer", "hello", "pong", "close"} => f.size = f.bodyAt + f.body

(* An RPC connection that has refused a request is closed.                   *)
RefusedIsClosed ==
  \A c \in Conns : conn[c].draining /\ conn[c].state = "rpc" ~> closes[c] = 1
=============================================================================
