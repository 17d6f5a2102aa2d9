--------------------------- MODULE RequestsProofs ----------------------------
(***************************************************************************)
(* Proofs about what the requests of the RPC thread share with the game    *)
(* thread: the flags, and the configurations of the memory monitor.        *)
(***************************************************************************)
EXTENDS RpcFlags, MemMonitor, TLAPS

-----------------------------------------------------------------------------
(***************************************************************************)
(* The flags of any number of requests over any of the four flags: the     *)
(* mutex is held where its scopes say, the hose's switch follows its flag, *)
(* and a paused game stands.                                               *)
(***************************************************************************)
USE FlagsAssumption

(* No flag is set at the start.                                             *)
LEMMA FlagsInitIInv == FlagsInit => FlagsInv
  <1> SUFFICES ASSUME FlagsInit PROVE FlagsInv  OBVIOUS
  <1>1. requests \in 0..MaxRequests /\ ran \in Nat  BY DEF FlagsInit
  <1>2. mutex \notin {Game, Server}  BY DEF FlagsInit, Nobody, Game, Server
  <1>3. FlagsTypeOK  BY <1>1, <1>2 DEF FlagsInit, FlagsTypeOK
  <1>4. (BACKPRESSURE \in flags) = FALSE  BY DEF FlagsInit
  <1>5. BackpressureFollowsFlag  BY <1>4 DEF FlagsInit, BackpressureFollowsFlag
  <1>6. spc \notin {"notify", "backpressure"} /\ PAUSE \notin flags  BY DEF FlagsInit
  <1>7. FlagsAsAsked  BY DEF FlagsInit, FlagsAsAsked
  <1> QED  BY <1>3, <1>5, <1>6, <1>7 DEF FlagsInv

(* The flags are four different words, and so are the mutex's holders.      *)
LEMMA NamesDiffer ==
  /\ BACKPRESSURE # SEND_ALL_COLLS /\ PAUSE # SEND_ALL_COLLS
  /\ Nobody # Game /\ Nobody # Server /\ Game # Server
  BY DEF BACKPRESSURE, SEND_ALL_COLLS, PAUSE, Nobody, Game, Server

(* Every step of either thread keeps the invariant.                         *)
LEMMA FlagsStepIInv == ASSUME FlagsInv, [FlagsNext]_flagVars PROVE FlagsInv'
  <1> USE NamesDiffer DEF FlagsInv, FlagsTypeOK, BackpressureFollowsFlag, FlagsAsAsked, Goto,
              serverVars, setFlags, history
  <1>1. ASSUME NEW ask \in Asks, Request(ask[1], ask[2]) PROVE FlagsInv'
    <2>1. ask[1] \subseteq Flags /\ ask[2] \subseteq Flags  OBVIOUS
    <2> QED  BY <1>1, <2>1 DEF Request
  <1>2. CASE LockMutex  BY <1>2 DEF LockMutex
  <1>3. CASE LoadFlags  BY <1>3 DEF LoadFlags
  <1>17. CASE FailExchange  BY <1>17 DEF FailExchange
  <1>18. CASE ExchangeFlags  BY <1>18 DEF ExchangeFlags, StoreFlags
  <1>4. CASE NotifyAndUnlock  BY <1>4 DEF NotifyAndUnlock
  <1>5. CASE SetEnableBackpressure  BY <1>5 DEF SetEnableBackpressure
  <1>6. CASE TestPause  BY <1>6 DEF TestPause
  <1>7. CASE LockForWait  BY <1>7 DEF LockForWait
  <1>8. CASE WaitOrLeave  BY <1>8 DEF WaitOrLeave
  <1>9. CASE ReturnFromWait  BY <1>9 DEF ReturnFromWait
  <1>10. CASE TestCollStuff  BY <1>10 DEF TestCollStuff
  <1>11. CASE LoadAllColls  BY <1>11 DEF LoadAllColls
  <1>12. CASE ClearAllColls  BY <1>12 DEF ClearAllColls, TakeOrder
  <1>13. CASE SendAllColls  BY <1>13 DEF SendAllColls
  <1>14. CASE RunFrame  BY <1>14 DEF RunFrame
  <1>15. CASE WakeSpuriously  BY <1>15 DEF WakeSpuriously
  <1>16. CASE UNCHANGED flagVars  BY <1>16 DEF flagVars
  <1> QED
    BY <1>1, <1>2, <1>3, <1>4, <1>5, <1>6, <1>7, <1>8,
       <1>9, <1>10, <1>11, <1>12, <1>13, <1>14, <1>15, <1>16,
       <1>17, <1>18
    DEF FlagsNext, ServerStep, GameStep

(* So it holds along every behaviour.                                       *)
THEOREM FlagsInvariant == FlagsSpec => []FlagsInv
  <1>1. FlagsInv /\ [FlagsNext]_flagVars => FlagsInv'  BY FlagsStepIInv
  <1> QED  BY <1>1, FlagsInitIInv, PTL DEF FlagsSpec

(* s_set_flags_req_mutex is held by SET_FLAGS around the update and by the  *)
(* game around its test, never by a thread that sleeps.                     *)
THEOREM FlagsTypeCorrect == FlagsSpec => []FlagsTypeOK
  <1>1. FlagsInv => FlagsTypeOK  BY DEF FlagsInv
  <1> QED  BY <1>1, FlagsInvariant, PTL

(* Once PAUSE is set the game runs at most the frame it had begun.          *)
THEOREM PausedStands == FlagsSpec => []PausedGameStands
  <1>1. FlagsInv => PausedGameStands  BY DEF FlagsInv, PausedGameStands
  <1> QED  BY <1>1, FlagsInvariant, PTL

(* Outside a request set_enable_backpressure has been told the flag.        *)
THEOREM SwitchFollowsFlag == FlagsSpec => []BackpressureFollowsFlag
  <1>1. FlagsInv => BackpressureFollowsFlag  BY DEF FlagsInv
  <1> QED  BY <1>1, FlagsInvariant, PTL

(* However SET_FLAGS and the frames interleave, no change to the flags is   *)
(* lost, and an order for a full dump goes away only with a frame that      *)
(* sends one.                                                               *)
THEOREM NoOrderLost == FlagsSpec => []FlagsAsAsked
  <1>1. FlagsInv => FlagsAsAsked  BY DEF FlagsInv
  <1> QED  BY <1>1, FlagsInvariant, PTL

-----------------------------------------------------------------------------
(***************************************************************************)
(* The triple buffer of the memory monitor, for every set of               *)
(* configurations and any number of requests, however fast they come.      *)
(***************************************************************************)
HIDE FlagsAssumption
USE MonitorAssumption

(* All buffers are idle at the start.                                       *)
LEMMA MonitorInitInv == MonitorInit => MonitorInv
  <1> SUFFICES ASSUME MonitorInit PROVE MonitorInv  OBVIOUS
  <1>11. hasty \in BOOLEAN  BY DEF MonitorInit
  <1>12. configs \in [Buffers -> Configs \cup {Idle}]  BY DEF MonitorInit
  <1>1. MonitorTypeOK  BY <1>11, <1>12 DEF MonitorInit, MonitorTypeOK, Buffers
  <1>2. ~Jammed /\ inuse # 1 /\ next # 1 /\ wpc = "idle" /\ rpc = "idle"
    BY DEF MonitorInit, Jammed
  <1>3. configs[next] = accepted /\ configs[inuse] = accepted
    BY DEF MonitorInit, Buffers
  <1>4. accepted \notin Invalid  BY DEF MonitorInit
  <1> QED
    BY <1>1, <1>2, <1>3, <1>4 DEF MonitorInv, OnlyHastePanics, ConfigStable

(* prep_write gives a buffer that neither index names, unless both are 1;   *)
(* and while both indices agree on another it does not give buffer 1.       *)
LEMMA FreeBufferIsFree ==
  ASSUME NEW i \in Buffers, NEW n \in Buffers
  PROVE  /\ FreeBuffer(i, n) \in Buffers
         /\ IF i = 1 /\ n = 1
              THEN FreeBuffer(i, n) = 1
              ELSE FreeBuffer(i, n) # i /\ FreeBuffer(i, n) # n
         /\ FreeBuffer(i, n) = 1 => i # n \/ i = 1
  BY DEF FreeBuffer, Buffers

(* Every step of either thread keeps the invariant.                         *)
LEMMA MonitorStepInv ==
  ASSUME MonitorInv, [MonitorNext]_monitorVars PROVE MonitorInv'
  <1> USE DEF MonitorInv, MonitorTypeOK, OnlyHastePanics, ConfigStable, Jammed,
              Buffers, writerVars, readerVars
  <1>1. ASSUME NEW c \in Configs \cup {Idle}, PrepWrite(c) PROVE MonitorInv'
    <2>1. wBuf' = FreeBuffer(inuse, next)  BY <1>1 DEF PrepWrite
    <2>2. /\ wBuf' \in Buffers
          /\ Jammed' \/ wBuf' \notin {inuse, next}
          /\ Jammed => Jammed'
          /\ wBuf' = 1 => inuse # next \/ inuse = 1
      BY <1>1, <2>1, FreeBufferIsFree DEF PrepWrite
    <2>3. MonitorTypeOK'  BY <1>1, <2>2 DEF PrepWrite
    <2> QED  BY <1>1, <2>2, <2>3 DEF PrepWrite
  <1>2. CASE ZeroBuffer
    <2>1. \A b \in Buffers : b # wBuf => configs'[b] = configs[b]
      BY <1>2 DEF ZeroBuffer
    <2>2. configs' \in [Buffers -> Configs \cup {Idle}]  BY <1>2 DEF ZeroBuffer
    <2>3. MonitorTypeOK'  BY <1>2, <2>2 DEF ZeroBuffer
    <2>4. CASE Jammed  BY <1>2, <2>3, <2>4 DEF ZeroBuffer
    <2>5. CASE ~Jammed  BY <1>2, <2>1, <2>3, <2>5 DEF ZeroBuffer
    <2> QED  BY <2>4, <2>5
  <1>3. CASE Copy  BY <1>3 DEF Copy
  <1>4. CASE PostWrite  BY <1>4 DEF PostWrite
  <1>5. CASE PrepRead
    <2>1. MonitorTypeOK'  BY <1>5 DEF PrepRead
    <2>2. CASE Jammed  BY <1>5, <2>1, <2>2 DEF PrepRead
    <2>3. CASE ~Jammed /\ next = 1  BY <1>5, <2>1, <2>3 DEF PrepRead
    <2>4. CASE next # 1  BY <1>5, <2>1, <2>4 DEF PrepRead
    <2> QED  BY <2>2, <2>3, <2>4
  <1>6. CASE SizePass  BY <1>6 DEF SizePass
  <1>7. CASE WritePass  BY <1>7 DEF WritePass
  <1>8. CASE UNCHANGED monitorVars  BY <1>8 DEF monitorVars
  <1> QED  BY <1>1, <1>2, <1>3, <1>4, <1>5, <1>6, <1>7, <1>8 DEF MonitorNext

(* So it holds along every behaviour.                                       *)
THEOREM MonitorInvariant == MonitorSpec => []MonitorInv
  <1>1. MonitorInv /\ [MonitorNext]_monitorVars => MonitorInv'  BY MonitorStepInv
  <1> QED  BY <1>1, MonitorInitInv, PTL DEF MonitorSpec

(* Both indices stay below 3: the assertions of prep_write.                 *)
THEOREM MonitorTypeCorrect == MonitorSpec => []MonitorTypeOK
  <1>1. MonitorInv => MonitorTypeOK  BY DEF MonitorInv
  <1> QED  BY <1>1, MonitorInvariant, PTL

(* The assertion of post_write (serve.cpp:243) never fails for a client     *)
(* that lets a frame pick up each configuration before it sends the next.   *)
THEOREM NeverPanics == MonitorSpec => []OnlyHastePanics
  <1>1. MonitorInv => OnlyHastePanics  BY DEF MonitorInv
  <1> QED  BY <1>1, MonitorInvariant, PTL

(* The sizing and the writing pass of a frame read the same, validated      *)
(* configuration (serve.hpp:97), unless the buffer is jammed.               *)
THEOREM PassesAgree == MonitorSpec => []ConfigStable
  <1>1. MonitorInv => ConfigStable  BY DEF MonitorInv
  <1> QED  BY <1>1, MonitorInvariant, PTL

(* A frame takes the newest accepted configuration into use (prep_read),    *)
(* unless the buffer is jammed.                                             *)
THEOREM FramesReadNewest == MonitorSpec => NewestRead
  <1>1. ASSUME MonitorInv, [MonitorNext]_monitorVars,
               rpc = "idle", rpc' = "size", ~Jammed
        PROVE  configs[inuse'] = accepted
    <2>1. CASE PrepRead  BY <1>1, <2>1 DEF PrepRead, MonitorInv
    <2>2. CASE ~PrepRead
      BY <1>1, <2>2 DEF MonitorNext, PrepWrite, ZeroBuffer, Copy, PostWrite,
                        SizePass, WritePass, readerVars, monitorVars
    <2> QED  BY <2>1, <2>2
  <1>2. MonitorInv /\ [MonitorNext]_monitorVars
          => [rpc = "idle" /\ rpc' = "size" /\ ~Jammed
                => configs[inuse'] = accepted]_monitorVars
    BY <1>1
  <1> QED  BY <1>2, MonitorInvariant, PTL DEF MonitorSpec, NewestRead
=============================================================================
