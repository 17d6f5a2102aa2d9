------------------------------- MODULE WebConn -------------------------------
(***************************************************************************)
(* The web client's RPC connection (client.html, WSWrapper and RPCConn):   *)
(* a websocket that is opened again whenever it closes, and requests that  *)
(* wait for it, are paired with answers by their order, and are sent again *)
(* when the socket closed before the answer came.  The server greets every *)
(* connection with a hello, which takes the first place in the queue.      *)
(*                                                                         *)
(* An event of the browser is one step: the promises it settles run their  *)
(* continuations before the next event.  But a request that found the      *)
(* connection closed subscribes to the signal one microtask later, and what *)
(* else runs in that task may kill the connection in between.              *)
(***************************************************************************)
EXTENDS Integers, Sequences, SequencesExt

CONSTANTS
  Requests,   \* calls of rawRequest
  MaxSocks    \* bound: sockets opened; the last one is not lost

NoSocket == 0
Socks == 1..MaxSocks
Hello == "hello"

ASSUME WebAssumption == MaxSocks \in Nat \ {0} /\ Hello \notin Requests

VARIABLES
  state, socket, wantOpen,  \* the WSWrapper; ws, a socket or NoSocket, is socket here
  throttles,            \* continuations of openThrottle that are to come
  isOpen,               \* isOpenSig: "no", "yes", or "killed" when it was rejected
  pendingResponsePRs,   \* requests sent, with the hello's place
  tested,               \* requests that found isOpenSig.cur false and are to subscribe
  waiting,              \* requests that wait for isOpenSig
  result,               \* per request: "new", "called", "done", "threw", "killed"
  sock,                 \* per socket: "none", "connecting", "open", "closing", "closed"
  up, down,             \* per socket: requests and answers on their way
  killedIn,             \* history: the state in which it was killed, or "no"
  late,                 \* history: requests that had yet to subscribe when it was killed
  asserted              \* history: an assertion of the wrapper failed

wrapper == <<state, socket, wantOpen, throttles>>
conn == <<isOpen, pendingResponsePRs, tested, waiting, result, late>>
net == <<sock, up, down>>
webVars == <<wrapper, conn, net, killedIn, asserted>>

(* The constructors: setWantOpen(true) opens the first socket at once.      *)
WebInit ==
  /\ state = "connecting" /\ socket = 1 /\ wantOpen = TRUE /\ throttles = 0
  /\ isOpen = "no" /\ pendingResponsePRs = <<>> /\ tested = <<>> /\ waiting = <<>>
  /\ result = [r \in Requests |-> "new"]
  /\ sock = [s \in Socks |-> IF s = 1 THEN "connecting" ELSE "none"]
  /\ up = [s \in Socks |-> <<>>] /\ down = [s \in Socks |-> <<>>]
  /\ killedIn = "no" /\ late = {} /\ asserted = FALSE

Set(f, rs, v) == [r \in DOMAIN f |-> IF r \in Range(rs) THEN v ELSE f[r]]

-----------------------------------------------------------------------------
(* RPCConn: a call of rawRequest sends, or finds that it has to wait for the *)
(* signal, or throws what the signal was rejected with.                      *)
RawRequest(r) ==
  /\ result[r] = "new"
  /\ result' = [result EXCEPT ![r] = IF isOpen = "killed" THEN "killed" ELSE "called"]
  /\ IF isOpen = "yes"
       THEN /\ up' = [up EXCEPT ![socket] = Append(@, r)]
            /\ pendingResponsePRs' = Append(pendingResponsePRs, r)
       ELSE UNCHANGED <<up, pendingResponsePRs>>
  /\ tested' = IF isOpen = "no" THEN Append(tested, r) ELSE tested
  /\ UNCHANGED <<wrapper, isOpen, waiting, late, sock, down, killedIn, asserted>>

(* The await calls then of the signal, which notices no exception that is    *)
(* already there: nothing wakes this request any more.                       *)
Subscribe ==
  /\ tested # <<>> /\ tested' = Tail(tested)
  /\ waiting' = IF isOpen = "killed" THEN waiting ELSE Append(waiting, Head(tested))
  /\ UNCHANGED <<wrapper, isOpen, pendingResponsePRs, result, late, net, killedIn, asserted>>

(* The server answers in order, with the data or with a text.               *)
ServerAnswers(s) ==
  /\ sock[s] = "open" /\ up[s] # <<>>
  /\ up' = [up EXCEPT ![s] = Tail(@)]
  /\ \E ok \in BOOLEAN :
       down' = [down EXCEPT ![s] = Append(@, [to |-> Head(up[s]), ok |-> ok])]
  /\ UNCHANGED <<wrapper, conn, sock, killedIn, asserted>>

-----------------------------------------------------------------------------
(* WSWrapper's events.                                                       *)

(* Mutant: the hello has no place in the queue.                             *)
OnOpenNoHello(s) ==
  /\ sock[s] = "connecting" /\ socket = s
  /\ sock' = [sock EXCEPT ![s] = "open"]
  /\ state' = "open" /\ isOpen' = "yes"
  /\ pendingResponsePRs' = waiting
  /\ up' = [up EXCEPT ![s] = waiting] /\ waiting' = <<>>
  /\ down' = [down EXCEPT ![s] = <<[to |-> Hello, ok |-> TRUE]>>]
  /\ UNCHANGED <<socket, wantOpen, throttles, tested, result, late, killedIn, asserted>>

(* onopen of the wrapper's own socket: the queue starts with the hello and   *)
(* everybody who waits for the signal sends.                                 *)
OnOpen(s) ==
  /\ sock[s] = "connecting" /\ socket = s
  /\ sock' = [sock EXCEPT ![s] = "open"]
  /\ state' = "open" /\ isOpen' = "yes"
  /\ pendingResponsePRs' = <<Hello>> \o waiting
  /\ up' = [up EXCEPT ![s] = waiting] /\ waiting' = <<>>
  /\ down' = [down EXCEPT ![s] = <<[to |-> Hello, ok |-> TRUE]>>]
  /\ UNCHANGED <<socket, wantOpen, throttles, tested, result, late, killedIn, asserted>>

(* onopen and onmessage of a socket the wrapper has let go of: the assertion *)
(* throws and nothing else happens.                                          *)
OnOpenStray(s) ==
  /\ sock[s] = "connecting" /\ socket # s
  /\ sock' = [sock EXCEPT ![s] = "open"]
  /\ down' = [down EXCEPT ![s] = <<[to |-> Hello, ok |-> TRUE]>>]
  /\ asserted' = TRUE
  /\ UNCHANGED <<wrapper, conn, up, killedIn>>

OnMessageStray(s) ==
  /\ sock[s] = "open" /\ socket # s /\ down[s] # <<>>
  /\ down' = [down EXCEPT ![s] = Tail(@)]
  /\ asserted' = TRUE
  /\ UNCHANGED <<wrapper, conn, sock, up, killedIn>>

(* onmessage: the oldest promise gets the answer.  For a text rawRequest     *)
(* means to wait and send again, but the line that reports it names a        *)
(* variable that does not exist, and the call throws.                        *)
OnMessage(s) ==
  /\ sock[s] = "open" /\ socket = s /\ down[s] # <<>> /\ pendingResponsePRs # <<>>
  /\ down' = [down EXCEPT ![s] = Tail(@)]
  /\ pendingResponsePRs' = Tail(pendingResponsePRs)
  /\ result' = Set(result, <<Head(pendingResponsePRs)>>,
                    IF Head(down[s]).ok THEN "done" ELSE "threw")
  /\ UNCHANGED <<wrapper, isOpen, tested, waiting, late, sock, up, killedIn, asserted>>

(* The promises of requests; the hello's, if it is there, is the first.      *)
Promised ==
  IF pendingResponsePRs # <<>> /\ Head(pendingResponsePRs) = Hello
    THEN Tail(pendingResponsePRs) ELSE pendingResponsePRs

(* onclose, whatever was on its way: the wrapper turns to idle, also a dead  *)
(* one, or waits to open again; every promise is rejected, and its request   *)
(* finds that it has to wait again or throws what killed it.                 *)
OnClose(s) ==
  /\ sock[s] \in {"connecting", "open", "closing"}
  /\ s = MaxSocks => ~wantOpen
  /\ sock' = [sock EXCEPT ![s] = "closed"]
  /\ up' = [up EXCEPT ![s] = <<>>] /\ down' = [down EXCEPT ![s] = <<>>]
  /\ asserted' = (asserted \/ ~(socket = s \/ state = "dead"))
  /\ socket' = NoSocket
  /\ state' = IF wantOpen THEN "openThrottle" ELSE "idle"
  /\ throttles' = IF wantOpen THEN throttles + 1 ELSE throttles
  /\ isOpen' = IF isOpen = "killed" THEN "killed" ELSE "no"
  /\ tested' = IF isOpen = "killed" THEN tested ELSE Promised
  /\ result' = IF isOpen = "killed" THEN Set(result, Promised, "killed") ELSE result
  /\ pendingResponsePRs' = <<>>
  /\ UNCHANGED <<wantOpen, waiting, late, killedIn>>

(* Mutant: the wrapper turns idle and stays so.                             *)
ThrottleNotReopening ==
  /\ throttles > 0 /\ throttles' = throttles - 1
  /\ state' = "idle"
  /\ UNCHANGED <<socket, wantOpen, conn, net, killedIn, asserted>>

(* openThrottle has passed: idle, and openCloseWSAsNeeded.                   *)
Throttle ==
  /\ throttles > 0 /\ throttles' = throttles - 1
  /\ IF wantOpen
       THEN \E s \in Socks :
              /\ sock[s] = "none" /\ \A t \in 1..(s - 1) : sock[t] # "none"
              /\ sock' = [sock EXCEPT ![s] = "connecting"]
              /\ socket' = s /\ state' = "connecting"
       ELSE state' = "idle" /\ UNCHANGED <<sock, socket>>
  /\ UNCHANGED <<wantOpen, conn, up, down, killedIn, asserted>>

(* The disconnect button, or a new live connection: the kill box kills the   *)
(* wrapper and then rejects the signal, so that who waits for it throws.     *)
Kill ==
  /\ state \in {"connecting", "open", "openThrottle"} /\ killedIn' = state
  /\ sock' = IF state = "open" THEN [sock EXCEPT ![socket] = "closing"] ELSE sock
  /\ state' = "dead" /\ wantOpen' = FALSE /\ socket' = NoSocket
  /\ isOpen' = "killed" /\ waiting' = <<>>
  /\ result' = Set(result, waiting, "killed") /\ late' = Range(tested)
  /\ UNCHANGED <<throttles, tested, pendingResponsePRs, up, down, asserted>>

Browser(s) == OnOpen(s) \/ OnOpenStray(s) \/ OnMessage(s) \/ OnMessageStray(s)

(* Microtasks come before the next event or timer.                           *)
WebNext ==
  \/ \E r \in Requests : RawRequest(r)
  \/ Subscribe \/ Kill
  \/ \E s \in Socks : ServerAnswers(s)
  \/ tested = <<>> /\ (Throttle \/ \E s \in Socks : Browser(s) \/ OnClose(s))

WebSpec == WebInit /\ [][WebNext]_webVars

(* The server answers, the browser delivers, microtasks and timers run, and  *)
(* a socket that is told to close does.  Nothing makes an open socket close. *)
Working ==
  \/ Subscribe
  \/ \E s \in Socks : ServerAnswers(s)
  \/ /\ tested = <<>>
     /\ \/ Throttle
        \/ \E s \in Socks : Browser(s) \/ (sock[s] = "closing" /\ OnClose(s))

-----------------------------------------------------------------------------
(* Properties.                                                               *)

(* Types, and how the wrapper's three fields go together: a socket only      *)
(* while connecting or open, of that status, and then it is wanted.          *)
WebTypeOK ==
  /\ state \in {"idle", "connecting", "open", "openThrottle", "dead"}
  /\ socket \in Socks \cup {NoSocket}
  /\ socket # NoSocket <=> state \in {"connecting", "open"}
  /\ socket # NoSocket => wantOpen /\ sock[socket] = state
  /\ throttles \in 0..1 /\ (state = "openThrottle" => throttles = 1)
  /\ isOpen = "yes" <=> state = "open"
  /\ sock \in [Socks -> {"none", "connecting", "open", "closing", "closed"}]
  /\ tested \in Seq(Requests) /\ waiting \in Seq(Requests) /\ late \subseteq Requests
  /\ pendingResponsePRs \in Seq(Requests \cup {Hello})
  /\ up \in [Socks -> Seq(Requests)]
  /\ down \in [Socks -> Seq([to : Requests \cup {Hello}, ok : BOOLEAN])]
  /\ result \in [Requests -> {"new", "called", "done", "threw", "killed"}]
  /\ wantOpen \in BOOLEAN /\ asserted \in BOOLEAN /\ isOpen \in {"no", "yes", "killed"}
  /\ killedIn \in {"no", "connecting", "open", "openThrottle"}

Lives(s) == sock[s] \in {"connecting", "open", "closing"}

(* One socket lives at a time: the wrapper's own, or after a kill the one it *)
(* let go of, which it then was told to close unless it was connecting.      *)
OneSocket ==
  /\ \A s, t \in Socks : Lives(s) /\ Lives(t) => s = t
  /\ \A s \in Socks : Lives(s) =>
       /\ throttles = 0
       /\ IF killedIn = "no" THEN socket = s ELSE state = "dead"
       /\ killedIn \in {"open", "openThrottle"} => sock[s] = "closing"

(* Killed is killed: nothing is opened again, and who waits for the signal   *)
(* is told.                                                                  *)
KilledStays ==
  /\ wantOpen <=> killedIn = "no"
  /\ isOpen = "killed" <=> killedIn # "no"
  /\ killedIn # "no" <=> state \in {"dead", "idle"}

(* While the socket is open the promises are, in order, those of the answers *)
(* that are coming and of the requests the server still has: onMessage never *)
(* finds the queue empty or a promise of another connection's request.       *)
Paired ==
  state = "open" =>
    pendingResponsePRs = [i \in DOMAIN down[socket] |-> down[socket][i].to] \o up[socket]

(* No promise is in a queue twice, and the hello's is the first.             *)
Distinct(q) == \A i, j \in DOMAIN q : q[i] = q[j] => i = j

(* Every request that was called and has no outcome is about to subscribe,   *)
(* waits for the signal or has one promise, through any number of closings:  *)
(* none is sent twice over the same socket, or sent and waiting at once, and *)
(* none is forgotten but those that had yet to subscribe at the kill.        *)
NoneForgotten ==
  /\ \A r \in Requests :
       result[r] = "called" <=>
         r \in Range(tested) \cup Range(waiting) \cup Range(pendingResponsePRs) \cup late
  /\ Distinct(tested) /\ Distinct(waiting) /\ Distinct(pendingResponsePRs)
  /\ Range(tested) \cap (Range(waiting) \cup Range(pendingResponsePRs)) = {}
  /\ late \cap (Range(waiting) \cup Range(pendingResponsePRs)) = {}
  /\ \A i \in DOMAIN pendingResponsePRs : pendingResponsePRs[i] = Hello => i = 1
  /\ isOpen = "no" => pendingResponsePRs = <<>>
  /\ isOpen # "no" => waiting = <<>>
  /\ isOpen = "yes" => tested = <<>>
  /\ IF isOpen = "killed" THEN Range(tested) \subseteq late ELSE late = {}

(* The assertions of onopen, onmessage and onclose, unless the wrapper was   *)
(* killed while connecting: then its socket opens all the same.              *)
AssertionsHold == asserted => killedIn = "connecting"

(* The invariant of a connection of the web client.                          *)
WebInv ==
  WebTypeOK /\ OneSocket /\ KilledStays /\ Paired /\ NoneForgotten /\ AssertionsHold

(* With finitely many closings every request gets an outcome, unless the     *)
(* connection was killed between its test of the signal and its subscription *)
(* (client.html:910-912, 658-672).                                           *)
CallsEnd ==
  \A r \in Requests : result[r] = "called" ~> result[r] # "called" \/ r \in late

(* After a disconnect no socket stays open behind the wrapper's back, again  *)
(* unless it was still connecting.                                           *)
KilledCloses ==
  killedIn \in {"open", "openThrottle"} ~>
    \A s \in Socks : sock[s] \in {"none", "closed"}
=============================================================================
