--------------------------- MODULE PlatformProofs ----------------------------
(***************************************************************************)
(* Proofs about what lies under the program: the recursive lock of the C   *)
(* library, and the trampolines of the hooking library.                    *)
(***************************************************************************)
EXTENDS RecursiveLock, HookPool, TLAPS

-----------------------------------------------------------------------------
(***************************************************************************)
(* Mutual exclusion of the recursive lock for every set of threads and     *)
(* every bound on nesting.  LockInv of RecursiveLock is inductive: it says    *)
(* who holds the inner section at each place, so a thread that finds its   *)
(* own tag without holding anything is a thread that already owns it.      *)
(***************************************************************************)
USE NoneIsNoThread, MaxDepthPositive

\* The initial state satisfies the inductive invariant.
LEMMA LockInitIInv == LockInit => LockInv
  BY DEF LockInit, LockInv, LockTypeOK, Places, OwningPlaces, Inside

\* Every step of every thread keeps the inductive invariant.
LEMMA LockStepIInv == ASSUME LockInv, NEW t \in Threads, Step(t) PROVE LockInv'
  <1> USE DEF LockInv, LockTypeOK, Places, OwningPlaces, Inside, Goes
  <1>1. CASE AcquireReadTag(t)  BY <1>1 DEF AcquireReadTag
  <1>2. CASE Enter(t)  BY <1>2 DEF Enter
  <1>3. CASE SetTag(t)  BY <1>3 DEF SetTag
  <1>4. CASE Count(t)  BY <1>4 DEF Count
  <1>5. CASE Release(t)  BY <1>5 DEF Release
  <1>6. CASE ClearTag(t)  BY <1>6 DEF ClearTag
  <1>7. CASE Leave(t)  BY <1>7 DEF Leave
  <1>8. CASE Wait(t)  BY <1>8 DEF Wait
  <1>9. CASE ZeroCounter(t)  BY <1>9 DEF ZeroCounter
  <1>10. CASE Sleep(t)  BY <1>10 DEF Sleep
  <1>11. CASE Wake(t)  BY <1>11 DEF Wake
  <1>12. CASE RestoreTag(t)  BY <1>12 DEF RestoreTag
  <1>13. CASE RestoreCounter(t)  BY <1>13 DEF RestoreCounter
  <1> QED  BY <1>1, <1>2, <1>3, <1>4, <1>5, <1>6, <1>7, <1>8, <1>9, <1>10, <1>11, <1>12, <1>13 DEF Step

\* Which it does along every behaviour.
THEOREM LockInvariant == LockSpec => []LockInv
  <1>1. ASSUME LockInv, [LockNext]_lockVars PROVE LockInv'
    <2>1. CASE UNCHANGED lockVars
      BY <1>1, <2>1 DEF lockVars, LockInv, LockTypeOK, Inside
    <2>2. CASE LockNext
      <3>1. PICK t \in Threads : Step(t)  BY <2>2 DEF LockNext
      <3> QED  BY <1>1, <3>1, LockStepIInv
    <2> QED  BY <1>1, <2>1, <2>2
  <1> QED  BY <1>1, LockInitIInv, PTL DEF LockSpec

\* The fields keep their types and the counter its bounds: no release takes
\* it below zero (--lock->counter, line 143 of syscalls.cpp).
THEOREM LockTypeCorrect == LockSpec => []LockTypeOK
  <1>1. LockInv => LockTypeOK  BY DEF LockInv
  <1> QED  BY <1>1, LockInvariant, PTL

\* A thread that runs with the lock finds its own tag and its own count, also
\* after a condition wait (lines 179-186 of syscalls.cpp).
THEOREM OwnersFields == LockSpec => []FieldsAreTheOwners
  <1>1. LockInv => FieldsAreTheOwners
    BY DEF LockInv, FieldsAreTheOwners, Inside
  <1> QED  BY <1>1, LockInvariant, PTL

\* No two threads run with the lock: each would be the holder of the inner
\* critical section.
THEOREM LockExcludes == LockSpec => []MutualExclusion
  <1>1. FieldsAreTheOwners => MutualExclusion
    BY DEF FieldsAreTheOwners, MutualExclusion
  <1> QED  BY <1>1, OwnersFields, PTL

-----------------------------------------------------------------------------
(***************************************************************************)
(* However many threads hook at once, and however large the pool is, no    *)
(* two hooks share a trampoline: the index is increased in one step, and a *)
(* slot is never handed out again.                                         *)
(***************************************************************************)
HIDE NoneIsNoThread
USE PoolAssumption DEF NoSlot

LEMMA PoolInitInv == PoolInit => PoolInv
  BY DEF PoolInit, PoolInv

(* Only Increase hands out a slot, and it is a new one.                      *)
LEMMA PoolStepInv == PoolInv /\ [PoolNext]_poolVars => PoolInv'
  <1> SUFFICES ASSUME PoolInv, [PoolNext]_poolVars PROVE PoolInv'  OBVIOUS
  <1>1. CASE UNCHANGED poolVars  BY <1>1 DEF PoolInv, poolVars
  <1>2. ASSUME NEW t \in Installers, Increase(t) PROVE PoolInv'
    <2>1. /\ index' = index + 1 /\ index \in Int /\ index >= NoSlot
          /\ slot' = [slot EXCEPT ![t] = index + 1]
          /\ slot \in [Installers -> Int]
          /\ place' = [place EXCEPT ![t] = "check"]
          /\ place \in [Installers -> {"idle", "check", "install", "abort"}]
          /\ written' = written /\ written \subseteq 0..index
      BY <1>2 DEF Increase, Move, PoolInv
    <2>2. /\ slot'[t] = index + 1 /\ place'[t] = "check"
          /\ \A u \in Installers \ {t} :
               slot'[u] = slot[u] /\ place'[u] = place[u]
      BY <2>1
    <2>3. \A u \in Installers : slot[u] \in Int /\ slot[u] <= index
      BY <2>1 DEF PoolInv
    <2>4. \A u \in Installers :
            slot'[u] \in (IF place'[u] = "idle" THEN {NoSlot} ELSE 0..index')
      BY <2>1, <2>2 DEF PoolInv
    <2>5. \A u, v \in Installers :
            u # v /\ slot'[u] = slot'[v] => slot'[u] = NoSlot
      BY <2>1, <2>2, <2>3 DEF PoolInv
    <2>6. written' \subseteq 0..index'  BY <2>1
    <2>7. \A u \in Installers : slot'[u] \notin written'
      BY <2>1, <2>2 DEF PoolInv
    <2>8. /\ index' \in Int /\ index' >= NoSlot /\ slot' \in [Installers -> Int]
          /\ place' \in [Installers -> {"idle", "check", "install", "abort"}]
      BY <2>1
    <2> QED  BY <2>4, <2>5, <2>6, <2>7, <2>8 DEF PoolInv
  <1>3. ASSUME NEW t \in Installers, Check(t) PROVE PoolInv'
    BY <1>3 DEF Check, Move, PoolInv
  <1>4. ASSUME NEW t \in Installers, Install(t) PROVE PoolInv'
    <2>1. /\ place[t] = "install" /\ place' = [place EXCEPT ![t] = "idle"]
          /\ slot' = [slot EXCEPT ![t] = NoSlot]
          /\ written' = written \cup {slot[t]}
          /\ index' = index /\ index \in Int /\ index >= NoSlot
          /\ slot \in [Installers -> Int] /\ slot[t] \in 0..index
          /\ place \in [Installers -> {"idle", "check", "install", "abort"}]
          /\ written \subseteq 0..index
      BY <1>4 DEF Install, Move, PoolInv
    <2>2. /\ slot'[t] = NoSlot /\ place'[t] = "idle"
          /\ \A u \in Installers \ {t} :
               slot'[u] = slot[u] /\ place'[u] = place[u]
      BY <2>1
    <2>3. \A u \in Installers :
            slot'[u] \in (IF place'[u] = "idle" THEN {NoSlot} ELSE 0..index')
      BY <2>1, <2>2 DEF PoolInv
    <2>4. \A u, v \in Installers :
            u # v /\ slot'[u] = slot'[v] => slot'[u] = NoSlot
      BY <2>1, <2>2 DEF PoolInv
    <2>5. \A u \in Installers : slot'[u] \notin written'
      BY <2>1, <2>2 DEF PoolInv
    <2>6. written' \subseteq 0..index'  BY <2>1
    <2> QED  BY <2>1, <2>3, <2>4, <2>5, <2>6 DEF PoolInv
  <1> QED  BY <1>1, <1>2, <1>3, <1>4 DEF PoolNext

(* The invariant holds for every pool and every number of threads.           *)
THEOREM PoolInvariant == PoolSpec => []PoolInv
  BY PoolInitInv, PoolStepInv, PTL DEF PoolSpec

(* No trampoline is written over another one, for every number of threads    *)
(* that hook at once (__atomic_increase, hook_impl.cpp:525-541).             *)
THEOREM TrampolinesApart == PoolSpec => []SlotsDistinct
  <1>1. PoolInv => SlotsDistinct
    <2> SUFFICES ASSUME PoolInv, NEW t \in Installers, place[t] = "install"
                 PROVE  /\ slot[t] \notin written
                        /\ \A u \in Installers \ {t} : slot[u] # slot[t]
      BY DEF SlotsDistinct
    <2>1. slot[t] \in 0..index  BY DEF PoolInv
    <2> QED  BY <2>1 DEF PoolInv
  <1> QED  BY <1>1, PoolInvariant, PTL
=============================================================================
