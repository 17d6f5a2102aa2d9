----------------------------- MODULE PyRpcConn ------------------------------
(***************************************************************************)
(* The python client's RPC connection (rpc_guest.py, RPCConn and           *)
(* RPCGuest.send_and_recv): threads send requests and queue a future for   *)
(* each; one receiving thread per connection takes answers to futures in   *)
(* their order; a connection that breaks is replaced and the request       *)
(* retried once.                                                           *)
(***************************************************************************)
EXTENDS Naturals, Sequences

CONSTANTS
  Threads,
  None,            \* nobody, nothing yet
  MaxCalls,        \* bound: calls per thread
  MaxConns         \* bound: connections that are ever opened

ASSUME PyRpcAssumption ==
  MaxCalls \in Nat /\ MaxConns \in Nat \ {0} /\ None \notin Threads

Conns == 1..MaxConns

Future(is, of) == [is |-> is, of |-> of]

VARIABLES
  current,         \* RPCGuest.conn
  ws,              \* websocket of each connection: "none", "open", "closed"
  requests, answers,   \* on their way to the server and back
  queue, shut,     \* response_queue, and is it shut down?
  lock,            \* RPCConn.lock
  recv,            \* receiving thread: "recv", "get", "finally", "done"
  resp, theExc,    \* its locals: resp (None before the first), is the_exc set?
  pc, on, attempt, calls,  \* callers: place, local conn, 1 or 2 for the retry
  fut,             \* a caller's future, and whose answer it was given
  outcome,         \* history: how a caller's last call ended
  mispaired        \* history: an open connection gave somebody another's answer

connVars == <<current, ws, requests, answers, lock>>
recvVars == <<queue, shut, recv, resp, theExc, mispaired>>
callVars == <<pc, on, attempt, calls, fut, outcome>>
vars == <<connVars, recvVars, callVars>>

Init ==
  /\ current = 1
  /\ ws = [k \in Conns |-> IF k = 1 THEN "open" ELSE "none"]
  /\ requests = [k \in Conns |-> <<>>] /\ answers = [k \in Conns |-> <<>>]
  /\ queue = [k \in Conns |-> <<>>] /\ shut = [k \in Conns |-> FALSE]
  /\ lock = [k \in Conns |-> None] /\ recv = [k \in Conns |-> "recv"]
  /\ resp = [k \in Conns |-> None] /\ theExc = [k \in Conns |-> FALSE]
  /\ pc = [t \in Threads |-> "idle"] /\ on = [t \in Threads |-> 1]
  /\ attempt = [t \in Threads |-> 1] /\ calls = [t \in Threads |-> 0]
  /\ fut = [t \in Threads |-> Future("pending", <<t, 0>>)] /\ outcome = [t \in Threads |-> None]
  /\ mispaired = FALSE

-----------------------------------------------------------------------------
(* The server answers requests in order and may close at any time.           *)

Answer(k) ==
  /\ ws[k] = "open" /\ requests[k] # <<>>
  /\ answers' = [answers EXCEPT ![k] = Append(@, Head(requests[k]))]
  /\ requests' = [requests EXCEPT ![k] = Tail(@)]
  /\ UNCHANGED <<current, ws, lock, recvVars, callVars>>

ServerCloses(k) ==
  /\ ws[k] = "open" /\ k < MaxConns
  /\ ws' = [ws EXCEPT ![k] = "closed"] /\ requests' = [requests EXCEPT ![k] = <<>>]
  /\ UNCHANGED <<current, answers, lock, recvVars, callVars>>

-----------------------------------------------------------------------------
(* The callers.                                                              *)

Me(t) == <<t, calls[t]>>

Call(t) ==
  /\ pc[t] = "idle" /\ calls[t] < MaxCalls
  /\ calls' = [calls EXCEPT ![t] = @ + 1]
  /\ on' = [on EXCEPT ![t] = current] /\ attempt' = [attempt EXCEPT ![t] = 1]
  /\ pc' = [pc EXCEPT ![t] = "lock"]
  /\ UNCHANGED <<connVars, recvVars, fut, outcome>>

(* Mutant: the lock is not taken.                                            *)
LockNone(t) ==
  /\ pc[t] = "lock" /\ pc' = [pc EXCEPT ![t] = "send"]
  /\ fut' = [fut EXCEPT ![t] = Future("pending", Me(t))]
  /\ UNCHANGED <<connVars, recvVars, on, attempt, calls, outcome>>

Lock(t) ==
  /\ pc[t] = "lock" /\ lock[on[t]] = None
  /\ lock' = [lock EXCEPT ![on[t]] = t] /\ pc' = [pc EXCEPT ![t] = "send"]
  /\ fut' = [fut EXCEPT ![t] = Future("pending", Me(t))]
  /\ UNCHANGED <<current, ws, requests, answers, recvVars, on, attempt, calls, outcome>>

(* A call ends, or is tried again if it is the first time that the           *)
(* connection was closed.                                                    *)
EndCall(t, how) ==
  IF how = "closed" /\ attempt[t] = 1
    THEN pc' = [pc EXCEPT ![t] = "connect"] /\ UNCHANGED outcome
    ELSE pc' = [pc EXCEPT ![t] = "idle"] /\ outcome' = [outcome EXCEPT ![t] = how]

Send(t) ==
  /\ pc[t] = "send"
  /\ IF ws[on[t]] = "open"
       THEN /\ requests' = [requests EXCEPT ![on[t]] = Append(@, Me(t))]
            /\ pc' = [pc EXCEPT ![t] = "put"] /\ UNCHANGED <<lock, outcome>>
       ELSE /\ EndCall(t, "closed") /\ lock' = [lock EXCEPT ![on[t]] = None]
            /\ UNCHANGED requests
  /\ UNCHANGED <<current, ws, answers, recvVars, on, attempt, calls, fut>>

(* Once the receiving thread has shut the queue down, put raises ShutDown.   *)
Put(t) ==
  /\ pc[t] = "put"
  /\ lock' = [lock EXCEPT ![on[t]] = None]
  /\ IF shut[on[t]]
       THEN EndCall(t, "shut down") /\ UNCHANGED queue
       ELSE /\ queue' = [queue EXCEPT ![on[t]] = Append(@, t)]
            /\ pc' = [pc EXCEPT ![t] = "result"] /\ UNCHANGED outcome
  /\ UNCHANGED <<current, ws, requests, answers, shut, recv, resp, theExc, mispaired,
                 on, attempt, calls, fut>>

Result(t) ==
  /\ pc[t] = "result" /\ fut[t].is # "pending"
  /\ EndCall(t, IF fut[t].is = "closed" THEN "closed"
                ELSE IF fut[t].of = Me(t) THEN "answered" ELSE "another's answer")
  /\ UNCHANGED <<connVars, recvVars, on, attempt, calls, fut>>

(* Mutant: the connection is replaced whether or not somebody else did.      *)
ReconnectAlways(t) ==
  /\ pc[t] = "connect" /\ current < MaxConns
  /\ current' = current + 1
  /\ ws' = [ws EXCEPT ![current] = "closed", ![current + 1] = "open"]
  /\ on' = [on EXCEPT ![t] = current'] /\ attempt' = [attempt EXCEPT ![t] = 2]
  /\ pc' = [pc EXCEPT ![t] = "lock"]
  /\ UNCHANGED <<requests, answers, lock, recvVars, calls, fut, outcome>>

(* connect(if_conn_is=conn), under RPCGuest.lock, and the retry.             *)
Reconnect(t) ==
  /\ pc[t] = "connect"
  /\ IF current = on[t]
       THEN /\ current' = current + 1
            /\ ws' = [ws EXCEPT ![current] = "closed", ![current + 1] = "open"]
       ELSE UNCHANGED <<current, ws>>
  /\ on' = [on EXCEPT ![t] = current'] /\ attempt' = [attempt EXCEPT ![t] = 2]
  /\ pc' = [pc EXCEPT ![t] = "lock"]
  /\ UNCHANGED <<requests, answers, lock, recvVars, calls, fut, outcome>>

-----------------------------------------------------------------------------
(* The receiving thread of a connection.                                     *)

RecvAnswer(k) ==
  /\ recv[k] = "recv" /\ answers[k] # <<>>
  /\ resp' = [resp EXCEPT ![k] = Head(answers[k])]
  /\ answers' = [answers EXCEPT ![k] = Tail(@)] /\ recv' = [recv EXCEPT ![k] = "get"]
  /\ UNCHANGED <<current, ws, requests, lock, queue, shut, theExc, mispaired, callVars>>

(* ConnectionClosedError is kept, and the loop goes on with the old resp.    *)
RecvClosed(k) ==
  /\ recv[k] = "recv" /\ answers[k] = <<>> /\ ws[k] = "closed"
  /\ theExc' = [theExc EXCEPT ![k] = TRUE] /\ recv' = [recv EXCEPT ![k] = "get"]
  /\ UNCHANGED <<connVars, queue, shut, resp, mispaired, callVars>>

(* get_nowait and set_result; Empty, or a resp never assigned, ends the loop. *)
GetFuture(k) ==
  /\ recv[k] = "get"
  /\ IF queue[k] = <<>>
       THEN recv' = [recv EXCEPT ![k] = "finally"] /\ UNCHANGED <<queue, fut, mispaired>>
       ELSE LET t == Head(queue[k])
            IN  /\ queue' = [queue EXCEPT ![k] = Tail(@)]
                /\ IF resp[k] = None
                     THEN /\ recv' = [recv EXCEPT ![k] = "finally"]
                          /\ UNCHANGED <<fut, mispaired>>
                     ELSE /\ recv' = [recv EXCEPT ![k] = "recv"]
                          /\ fut' = [fut EXCEPT ![t] = Future("answer", resp[k])]
                          /\ mispaired' = (mispaired \/ (~theExc[k] /\ resp[k] # Me(t)))
  /\ UNCHANGED <<connVars, shut, resp, theExc, pc, on, attempt, calls, outcome>>

(* The queue is shut down and what is left fails with the_exc, if there is   *)
(* one to fail with.                                                         *)
Finally(k) ==
  /\ recv[k] = "finally" /\ recv' = [recv EXCEPT ![k] = "done"]
  /\ shut' = [shut EXCEPT ![k] = TRUE]
  /\ IF theExc[k]
       THEN /\ queue' = [queue EXCEPT ![k] = <<>>]
            /\ fut' = [t \in Threads |->
                 IF \E i \in DOMAIN queue[k] : queue[k][i] = t
                   THEN Future("closed", Me(t)) ELSE fut[t]]
       ELSE UNCHANGED <<queue, fut>>
  /\ UNCHANGED <<connVars, resp, theExc, mispaired, pc, on, attempt, calls, outcome>>

Next ==
  \/ \E k \in Conns : Answer(k) \/ ServerCloses(k) \/ RecvAnswer(k) \/ RecvClosed(k)
                      \/ GetFuture(k) \/ Finally(k)
  \/ \E t \in Threads : Call(t) \/ Lock(t) \/ Send(t) \/ Put(t) \/ Result(t) \/ Reconnect(t)

Spec == Init /\ [][Next]_vars

-----------------------------------------------------------------------------
(* Properties.                                                               *)

Messages == Threads \X (0..MaxCalls)

Types ==
  /\ current \in Conns
  /\ ws \in [Conns -> {"none", "open", "closed"}]
  /\ requests \in [Conns -> Seq(Messages)] /\ answers \in [Conns -> Seq(Messages)]
  /\ queue \in [Conns -> Seq(Threads)] /\ shut \in [Conns -> BOOLEAN]
  /\ lock \in [Conns -> Threads \cup {None}]
  /\ recv \in [Conns -> {"recv", "get", "finally", "done"}]
  /\ resp \in [Conns -> Messages \cup {None}] /\ theExc \in [Conns -> BOOLEAN]
  /\ pc \in [Threads -> {"idle", "lock", "send", "put", "result", "connect"}]
  /\ on \in [Threads -> Conns] /\ attempt \in [Threads -> {1, 2}]
  /\ calls \in [Threads -> 0..MaxCalls] /\ mispaired \in BOOLEAN
  /\ fut \in [Threads -> [is : {"pending", "closed", "answer"}, of : Messages]]

(* Connections are opened in turn, and the last one stays.                   *)
Turns ==
  /\ \A k \in Conns : ws[k] # "none" <=> k <= current
  /\ ws[MaxConns] # "closed"

LockHeld ==
  \A t \in Threads, k \in Conns :
    lock[k] = t <=> pc[t] \in {"send", "put"} /\ on[t] = k

(* Types; connections are opened in turn; the sending lock is held exactly   *)
(* while a caller sends and queues.                                          *)
TypeOK == Types /\ Turns /\ LockHeld

(* While a connection is open each answer goes to the call it answers: the   *)
(* lock keeps requests and futures in the same order, and an answer that     *)
(* comes before its future is queued ends the thread rather than go astray.  *)
PairedWhileOpen == ~mispaired

(* "reconnect, unless someone else did" (rpc_guest.py:166): a caller never   *)
(* closes a connection that is open, which others may be using.              *)
NeverClosesHealthy ==
  [][\A k \in Conns : ws[k] = "open" /\ ws'[k] = "closed" => ServerCloses(k)]_vars

(* A caller's connection was opened, and one it is about to replace is       *)
(* closed; so is one whose receiving thread has seen an exception.           *)
Callers ==
  \A t \in Threads :
    /\ on[t] <= current
    /\ pc[t] \in {"send", "put"} => fut[t].is = "pending"
    /\ pc[t] = "connect" \/ (pc[t] = "result" /\ fut[t].is = "closed")
         => ws[on[t]] = "closed"

Broken == \A k \in Conns : theExc[k] => ws[k] = "closed"

(* A queued future is that of one caller that waits on this connection.      *)
Queued ==
  \A k \in Conns : \A i \in DOMAIN queue[k] :
    /\ pc[queue[k][i]] = "result" /\ on[queue[k][i]] = k
    /\ fut[queue[k][i]].is = "pending"
    /\ \A j \in DOMAIN queue[k] : i # j => queue[k][i] # queue[k][j]

(* The inductive invariant behind NeverClosesHealthy.                        *)
IInv == TypeOK /\ Callers /\ Broken /\ Queued

(* The retry (rpc_guest.py:168) expects a closed connection to raise: no     *)
(* call returns the answer to another request.                               *)
AnswersMatch == \A t \in Threads : outcome[t] # "another's answer"
=============================================================================
