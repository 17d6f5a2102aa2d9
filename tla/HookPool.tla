------------------------------- MODULE HookPool -------------------------------
(***************************************************************************)
(* The trampolines of the hooking library (hook_impl.cpp): Hook takes a    *)
(* slot of a fixed pool by increasing an index, aborts when there is none, *)
(* and writes the moved instructions and a jump back into the slot before  *)
(* it patches the hooked function.  Several threads may hook at once.      *)
(***************************************************************************)
EXTENDS Integers, FiniteSets

CONSTANTS
  Installers,      \* threads that install hooks
  PoolSize,        \* HookPoolSize, in words: one page of JIT memory
  TrampolineSize,  \* words of a slot
  MaxHooks         \* bound: hooks installed

ASSUME PoolAssumption ==
  /\ PoolSize \in Nat /\ TrampolineSize \in Nat \ {0} /\ MaxHooks \in Nat
  /\ TrampolineSize <= PoolSize

HookMax == PoolSize \div TrampolineSize

NoSlot == 0 - 1

VARIABLES
  index,      \* the pool's index, -1 at first
  place, slot,   \* per thread inside Hook, and its i
  written,    \* history: slots that hold a trampoline
  hooks       \* history: calls of Hook

poolVars == <<index, place, slot, written, hooks>>

PoolInit ==
  /\ index = NoSlot
  /\ place = [t \in Installers |-> "idle"]
  /\ slot = [t \in Installers |-> NoSlot]
  /\ written = {}
  /\ hooks = 0

(* The first abort ends the program.                                        *)
Running == \A t \in Installers : place[t] # "abort"

Move(t, from, to) ==
  Running /\ place[t] = from /\ place' = [place EXCEPT ![t] = to]

(* Mutant: the index is read and written back in two steps, so that somebody *)
(* may have read it before.                                                  *)
IncreaseRacing(t) ==
  /\ hooks < MaxHooks /\ hooks' = hooks + 1
  /\ Move(t, "idle", "check")
  /\ \E i \in {index} \cup
             {slot[u] - 1 : u \in {v \in Installers : place[v] = "check"}} :
       index' = i + 1
  /\ slot' = [slot EXCEPT ![t] = index']
  /\ UNCHANGED written

(* __atomic_increase gives the increased index.                              *)
Increase(t) ==
  /\ hooks < MaxHooks /\ hooks' = hooks + 1
  /\ Move(t, "idle", "check")
  /\ index' = index + 1
  /\ slot' = [slot EXCEPT ![t] = index']
  /\ UNCHANGED written

(* The test of AllocForTrampoline, and R_ABORT_UNLESS around it.             *)
Check(t) ==
  /\ Move(t, "check", IF slot[t] > HookMax THEN "abort" ELSE "install")
  /\ UNCHANGED <<index, slot, written, hooks>>

(* HookFuncImpl.                                                             *)
Install(t) ==
  /\ Move(t, "install", "idle")
  /\ written' = written \cup {slot[t]}
  /\ slot' = [slot EXCEPT ![t] = NoSlot]
  /\ UNCHANGED <<index, hooks>>

PoolNext == \E t \in Installers : Increase(t) \/ Check(t) \/ Install(t)

PoolSpec == PoolInit /\ [][PoolNext]_poolVars

-----------------------------------------------------------------------------
(* Properties.                                                               *)

(* No trampoline is written over another one that a hook still uses.         *)
SlotsDistinct ==
  \A t \in Installers : place[t] = "install" =>
    /\ slot[t] \notin written
    /\ \A u \in Installers \ {t} : slot[u] # slot[t]

(* The inductive invariant behind SlotsDistinct: no slot above the index has *)
(* been handed out, and each one is with one thread or written, not both.    *)
PoolInv ==
  /\ index \in Int /\ index >= NoSlot
  /\ slot \in [Installers -> Int]
  /\ place \in [Installers -> {"idle", "check", "install", "abort"}]
  /\ \A t \in Installers :
       slot[t] \in (IF place[t] = "idle" THEN {NoSlot} ELSE 0..index)
  /\ \A t, u \in Installers : t # u /\ slot[t] = slot[u] => slot[t] = NoSlot
  /\ written \subseteq 0..index
  /\ \A t \in Installers : slot[t] \notin written
=============================================================================
