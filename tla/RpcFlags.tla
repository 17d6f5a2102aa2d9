------------------------------ MODULE RpcFlags ------------------------------
(***************************************************************************)
(* The flags a client sets to steer the game (serve.cpp, main.cpp): the    *)
(* RPC thread handles SET_FLAGS, the game thread looks at them at the      *)
(* start of every frame, waits there while PAUSE is set, and clears        *)
(* SEND_ALL_COLLS when it acts on it.                                      *)
(*                                                                         *)
(* g_cur_rpc_flags is one atomic word; s_set_flags_req_mutex and its       *)
(* condition variable only serve the wait of a paused game.                *)
(***************************************************************************)
EXTENDS Integers, FiniteSets

BACKPRESSURE    == "backpressure"
SEND_ALL_COLLS  == "send_all_colls"
PAUSE           == "pause"
SEND_COLL_STUFF == "send_coll_stuff"

CONSTANTS
  Flags,       \* the flags clients use, among the four above
  Asks,        \* what they ask for: flags to clear and flags to set
  MaxRequests  \* bound: SET_FLAGS requests

ASSUME FlagsAssumption ==
  /\ Flags \subseteq {BACKPRESSURE, SEND_ALL_COLLS, PAUSE, SEND_COLL_STUFF}
  /\ Asks \subseteq (SUBSET Flags) \X (SUBSET Flags)
  /\ MaxRequests \in Nat

Nobody   == "none"
Game   == "game"
Server == "server"

VARIABLES
  flags,        \* g_cur_rpc_flags
  mutex,        \* who holds s_set_flags_req_mutex
  waiting,      \* the game thread sleeps on s_set_flags_req_cond
  backpressure, \* the hose's enable_backpressure_
  spc, sClear, sSet, \* RPC thread inside SET_FLAGS, its request
  sOld, sNew,   \* expected of atomic_update, new_flags
  gpc,          \* game thread inside the frame hook
  requests,     \* history: requests so far
  asked,        \* history: the flags the requests so far ask for, one after
                \* another, less each full dump that a frame went to send
  ran           \* history: frames run since PAUSE was set

setFlags == <<sClear, sSet, sOld, sNew>>
serverVars == <<spc, setFlags>>
history == <<requests, asked, ran>>
flagVars == <<flags, mutex, waiting, backpressure, serverVars, gpc, history>>

FlagsInit ==
  /\ flags = {} /\ mutex = Nobody /\ waiting = FALSE /\ backpressure = FALSE
  /\ spc = "idle" /\ sClear = {} /\ sSet = {} /\ sOld = {} /\ sNew = {}
  /\ gpc = "top"
  /\ requests = 0 /\ asked = {} /\ ran = 0

-----------------------------------------------------------------------------
(* RPC thread: the SET_FLAGS case of handle_rpc_packet.                      *)

Request(clear, set) ==
  /\ spc = "idle" /\ requests < MaxRequests
  /\ sClear' = clear /\ sSet' = set
  /\ requests' = requests + 1
  /\ spc' = "lock"
  /\ UNCHANGED <<flags, mutex, waiting, backpressure, sOld, sNew, gpc, asked,
                 ran>>

LockMutex ==
  /\ spc = "lock" /\ mutex = Nobody
  /\ mutex' = Server /\ spc' = "load"
  /\ UNCHANGED <<flags, waiting, backpressure, setFlags, gpc, history>>

(* atomic_update: a load, then compare-and-exchanges until one succeeds.    *)
LoadFlags ==
  /\ spc = "load" /\ spc' = "exchange"
  /\ sOld' = flags
  /\ UNCHANGED <<flags, mutex, waiting, backpressure, sClear, sSet, sNew, gpc,
                 history>>

(* One that fails, which tells what the word is now.  A weak one may also   *)
(* fail for no reason, which changes nothing.                               *)
FailExchange ==
  /\ spc = "exchange" /\ sOld # flags
  /\ sOld' = flags
  /\ UNCHANGED <<flags, mutex, waiting, backpressure, spc, sClear, sSet, sNew,
                 gpc, history>>

(* What the callback makes of the expected word becomes the word.           *)
StoreFlags(new) ==
  /\ spc = "exchange" /\ spc' = "notify"
  /\ flags' = new
  /\ asked' = (asked \ sClear) \cup sSet
  /\ sClear' = {} /\ sSet' = {} /\ sOld' = {}
  /\ ran' = IF PAUSE \in flags THEN ran ELSE 0
  /\ UNCHANGED <<mutex, waiting, backpressure, gpc, requests>>

(* Mutant: new_flags is what the request sets.                               *)
ExchangeFlagsForgetting ==
  /\ sOld = flags
  /\ StoreFlags((sOld \ sClear) \cup sSet) /\ sNew' = sSet

(* Mutant: a load and a store instead of a compare-and-exchange.            *)
ExchangeFlagsBlindly ==
  /\ StoreFlags((sOld \ sClear) \cup sSet) /\ sNew' = flags'

ExchangeFlags ==
  /\ sOld = flags
  /\ StoreFlags((sOld \ sClear) \cup sSet) /\ sNew' = flags'

(* Mutant: nobody is notified.                                              *)
UnlockOnly ==
  /\ spc = "notify" /\ spc' = "backpressure"
  /\ mutex' = Nobody
  /\ UNCHANGED <<flags, waiting, backpressure, setFlags, gpc, history>>

(* notify_all, and the end of the lock's scope.                             *)
NotifyAndUnlock ==
  /\ spc = "notify"
  /\ waiting' = FALSE
  /\ mutex' = Nobody
  /\ spc' = "backpressure"
  /\ UNCHANGED <<flags, backpressure, setFlags, gpc, history>>

(* set_enable_backpressure, then the reply with new_flags.                  *)
SetEnableBackpressure ==
  /\ spc = "backpressure"
  /\ backpressure' = (BACKPRESSURE \in sNew)
  /\ spc' = "idle"
  /\ sNew' = {}
  /\ UNCHANGED <<flags, mutex, waiting, sClear, sSet, sOld, gpc, history>>

ServerStep ==
  \/ LockMutex \/ LoadFlags \/ FailExchange \/ ExchangeFlags
  \/ NotifyAndUnlock \/ SetEnableBackpressure

-----------------------------------------------------------------------------
(* Game thread: Stub_huge_frame_func.  Its first call, mem_monitor_do_reads, *)
(* touches no flag.                                                          *)

Goto(from, to) == gpc = from /\ gpc' = to

TestPause ==
  /\ Goto("top", IF PAUSE \in flags THEN "lock" ELSE "colls")
  /\ UNCHANGED <<flags, mutex, waiting, backpressure, serverVars, history>>

(* wait_until_set_flags_req_clears: lock, then wait while PAUSE is set.     *)
LockForWait ==
  /\ mutex = Nobody /\ mutex' = Game
  /\ Goto("lock", "check")
  /\ UNCHANGED <<flags, waiting, backpressure, serverVars, history>>

WaitOrLeave ==
  /\ Goto("check", IF PAUSE \in flags THEN "wait" ELSE "top")
  /\ waiting' = (PAUSE \in flags)
  /\ mutex' = Nobody
  /\ UNCHANGED <<flags, backpressure, serverVars, history>>

(* A condition variable may wake its waiter for no reason.                  *)
WakeSpuriously ==
  /\ gpc = "wait" /\ waiting
  /\ waiting' = FALSE
  /\ UNCHANGED <<flags, mutex, backpressure, serverVars, gpc, history>>

(* Mutant: the wait is an if, not a while.                                  *)
ReturnFromWaitUnchecked ==
  /\ ~waiting /\ mutex = Nobody
  /\ Goto("wait", "colls")
  /\ UNCHANGED <<flags, mutex, waiting, backpressure, serverVars, history>>

ReturnFromWait ==
  /\ ~waiting /\ mutex = Nobody /\ mutex' = Game
  /\ Goto("wait", "check")
  /\ UNCHANGED <<flags, waiting, backpressure, serverVars, history>>

(* frame_start_collision_actions, as far as flags go.                       *)
TestCollStuff ==
  /\ Goto("colls", IF SEND_COLL_STUFF \in flags THEN "load_all" ELSE "frame")
  /\ UNCHANGED <<flags, mutex, waiting, backpressure, serverVars, history>>

(* test_and_clear_rpc_flag: a load, and if that finds the flag a fetch_and. *)
LoadAllColls ==
  /\ Goto("load_all", IF SEND_ALL_COLLS \in flags THEN "clear_all" ELSE "frame")
  /\ UNCHANGED <<flags, mutex, waiting, backpressure, serverVars, history>>

(* The fetch_and; what it finds decides whether this frame sends the dump.  *)
TakeOrder(to) ==
  /\ Goto("clear_all", to)
  /\ flags' = flags \ {SEND_ALL_COLLS}
  /\ asked' = IF to = "send_all" THEN asked \ {SEND_ALL_COLLS} ELSE asked
  /\ UNCHANGED <<mutex, waiting, backpressure, serverVars, requests, ran>>

ClearAllColls == TakeOrder(IF SEND_ALL_COLLS \in flags THEN "send_all" ELSE "frame")

SendAllColls ==
  /\ Goto("send_all", "frame")
  /\ UNCHANGED <<flags, mutex, waiting, backpressure, serverVars, history>>

(* Orig: the game's own frame.                                              *)
RunFrame ==
  /\ Goto("frame", "top")
  /\ ran' = IF PAUSE \in flags THEN ran + 1 ELSE ran
  /\ UNCHANGED <<flags, mutex, waiting, backpressure, serverVars, requests,
                 asked>>

GameStep ==
  \/ TestPause \/ LockForWait \/ WaitOrLeave \/ ReturnFromWait
  \/ TestCollStuff \/ LoadAllColls \/ ClearAllColls \/ SendAllColls \/ RunFrame

FlagsNext ==
  \/ \E ask \in Asks : Request(ask[1], ask[2])
  \/ ServerStep \/ GameStep \/ WakeSpuriously

FlagsSpec == FlagsInit /\ [][FlagsNext]_flagVars

-----------------------------------------------------------------------------
(* Properties.                                                               *)

(* Types, and that the mutex is held where its scopes say, not in the wait.  *)
FlagsTypeOK ==
  /\ mutex = Server <=> spc \in {"load", "exchange", "notify"}
  /\ mutex = Game <=> gpc = "check"
  /\ flags \subseteq Flags /\ sClear \subseteq Flags /\ sSet \subseteq Flags
  /\ sOld \subseteq Flags /\ sNew \subseteq Flags /\ asked \subseteq Flags
  /\ mutex \in {Nobody, Game, Server}
  /\ waiting \in BOOLEAN /\ backpressure \in BOOLEAN
  /\ spc \in {"idle", "lock", "load", "exchange", "notify", "backpressure"}
  /\ gpc \in {"top", "lock", "check", "wait", "colls", "load_all", "clear_all",
              "send_all", "frame"}
  /\ requests \in 0..MaxRequests /\ ran \in Nat

(* Once PAUSE is set the game runs at most the frame it had begun.          *)
PausedGameStands == PAUSE \in flags => ran <= 1

(* Between requests the hose's backpressure switch agrees with the flag the *)
(* clients see, though the two are updated one after the other.             *)
BackpressureFollowsFlag ==
  spc \in {"idle", "lock", "load", "exchange"} =>
    backpressure = (BACKPRESSURE \in flags)

(* No change of the two threads to the word is lost: it is always what the  *)
(* requests ask for, one after another, less the dumps the game went to     *)
(* send.  No request undoes another or revives an order already taken, and  *)
(* no order disappears without a frame that sends.                          *)
FlagsAsAsked == flags = asked

(* The inductive invariant: while SET_FLAGS is on its way to the switch its *)
(* new_flags still tell the flag, and a game that has run its frame since   *)
(* PAUSE was set is on the path that waits.                                 *)
FlagsInv ==
  /\ FlagsTypeOK /\ BackpressureFollowsFlag /\ FlagsAsAsked
  /\ spc \in {"notify", "backpressure"} =>
       (BACKPRESSURE \in sNew <=> BACKPRESSURE \in flags)
  /\ PAUSE \in flags =>
       \/ ran = 0
       \/ ran = 1 /\ gpc \in {"top", "lock", "check", "wait"}

(* A paused game resumes once PAUSE is cleared for good: the wakeup is not  *)
(* lost, whether the game thread is about to wait or waiting.               *)
PausedGameResumes == <>[](PAUSE \notin flags) => []<>(gpc = "frame")

(* Every request is answered, even while the game thread waits.             *)
RequestsAnswered == spc # "idle" ~> spc = "idle"

(* If collisions are wanted and the game is not paused, a full dump that a  *)
(* client orders is sent.                                                   *)
OrdersServed ==
  <>[](SEND_COLL_STUFF \in flags /\ PAUSE \notin flags) =>
    []<>(SEND_ALL_COLLS \notin flags)
=============================================================================
