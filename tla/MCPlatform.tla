------------------------------ MODULE MCPlatform ------------------------------
(***************************************************************************)
(* What the program gets from the system it runs on: the recursive lock    *)
(* of the C library (RecursiveLock), the trampolines of the hooking        *)
(* library (HookPool), and the memory that the kernel says a request may   *)
(* touch (MemRegions).  They share no state, so each behaviour follows     *)
(* one.                                                                    *)
(***************************************************************************)
EXTENDS RecursiveLock, HookPool, MemRegions

VARIABLE part

all == <<part, lockVars, poolVars, regionVars>>

InLock(A) == part = "lock" /\ A /\ UNCHANGED <<part, poolVars, regionVars>>
InPool(A) == part = "pool" /\ A /\ UNCHANGED <<part, lockVars, regionVars>>
InRegions(A) == part = "regions" /\ A /\ UNCHANGED <<part, lockVars, poolVars>>

(* The program has aborted, or nobody installs another hook.                *)
HooksDone ==
  /\ \/ ~Running
     \/ hooks = MaxHooks /\ \A t \in Installers : place[t] = "idle"
  /\ UNCHANGED poolVars

PlatformInit ==
  part \in {"lock", "pool", "regions"} /\ LockInit /\ PoolInit /\ RegionsInit

PlatformNext ==
  \/ InLock(LockNext)
  \/ InPool(PoolNext) \/ InPool(HooksDone)
  \/ InRegions(RegionsNext)

(* Nobody has to ask for the lock; who has it, or asked, gets on.           *)
PlatformSpec ==
  /\ PlatformInit /\ [][PlatformNext]_all
  /\ \A t \in Threads :
       SF_all(InLock(Working(t))) /\ WF_all(InLock(Release(t)))
  /\ SF_all(InLock(\E t \in Threads : counter = 1 /\ Release(t)))
=============================================================================
