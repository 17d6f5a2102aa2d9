------------------------------ MODULE MCRequests ------------------------------
(***************************************************************************)
(* What the game thread's frames go by: the flags and the configurations   *)
(* that the RPC thread's requests SET_FLAGS (RpcFlags) and                 *)
(* SET_MONITOR_CONFIG (MemMonitor) change meanwhile, and the hash table in *)
(* which the thread keeps its colliders (StupidHash).  They share no       *)
(* state, so each behaviour follows one of them.                           *)
(***************************************************************************)
EXTENDS RpcFlags, MemMonitor, StupidHash

(* A flag in both sets is set, as if it were in the second only.            *)
Changes == {ask \in (SUBSET Flags) \X (SUBSET Flags) : ask[1] \cap ask[2] = {}}

VARIABLE part

all == <<part, flagVars, monitorVars, vars>>

InFlags(A) == part = "flags" /\ A /\ UNCHANGED <<part, monitorVars, vars>>
InMonitor(A) == part = "monitor" /\ A /\ UNCHANGED <<part, flagVars, vars>>
InHash(A) == part = "hash" /\ A /\ UNCHANGED <<part, flagVars, monitorVars>>

RequestsInit ==
  part \in {"flags", "monitor", "hash"} /\ FlagsInit /\ MonitorInit /\ Init

RequestsNext == InFlags(FlagsNext) \/ InMonitor(MonitorNext) \/ InHash(Next)

(* Both threads keep running, and the mutex does not starve the RPC thread: *)
(* only endless spurious wakeups could.  Spurious wakeups may never come.   *)
RequestsSpec ==
  /\ RequestsInit /\ [][RequestsNext]_all
  /\ WF_all(InFlags(ServerStep)) /\ SF_all(InFlags(LockMutex))
  /\ WF_all(InFlags(GameStep)) /\ WF_all(InHash(LoopStep))

(* In the behaviours about flags: no notification of the paused game is      *)
(* lost (serve.cpp:813), each SET_FLAGS request is answered though the game  *)
(* thread waits with the mutex (serve.cpp:658), and an order for a full dump *)
(* is taken by some frame (main.cpp:657).                                    *)
FlagsServed ==
  part = "flags" => PausedGameResumes /\ RequestsAnswered /\ OrdersServed
=============================================================================
