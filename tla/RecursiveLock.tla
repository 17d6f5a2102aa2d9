---------------------------- MODULE RecursiveLock ----------------------------
(***************************************************************************)
(* The recursive mutex that syscalls.cpp gives newlib: a critical section  *)
(* of the console's library ("inner"), the tag of the thread that took it  *)
(* and the number of times it did.  acquire_recursive reads the tag before *)
(* it holds anything, and a condition wait must hand tag and counter over  *)
(* to whoever takes the lock while the waiter sleeps.  One step per access *)
(* to a shared field.                                                      *)
(***************************************************************************)
EXTENDS Integers, FiniteSets

CONSTANTS
    Threads,    \* threads, named by their handles
    None,       \* thread_tag 0 / a critical section nobody holds
    MaxDepth    \* bound on nested acquisitions

ASSUME NoneIsNoThread == None \notin Threads
ASSUME MaxDepthPositive == MaxDepth \in Nat \ {0}

VARIABLES
    inner,      \* the holder of lock->lock
    tag,        \* lock->thread_tag
    counter,    \* lock->counter
    at,         \* where each thread is
    depth       \* acquisitions a thread has made and not released

lockVars == <<inner, tag, counter, at, depth>>

LockInit ==
    /\ inner = None
    /\ tag = None
    /\ counter = 0
    /\ at = [t \in Threads |-> "running"]
    /\ depth = [t \in Threads |-> 0]

Goes(t, from, to) ==
    /\ at[t] = from
    /\ at' = [at EXCEPT ![t] = to]

-----------------------------------------------------------------------------
\* __syscall_lock_acquire_recursive

\* The unsynchronised read: only the owner can find its own tag.
AcquireReadTag(t) ==
    /\ depth[t] < MaxDepth
    /\ Goes(t, "running", IF tag = t THEN "count" ELSE "enter")
    /\ UNCHANGED <<inner, tag, counter, depth>>

Enter(t) ==
    /\ inner = None
    /\ inner' = t
    /\ Goes(t, "enter", "setTag")
    /\ UNCHANGED <<tag, counter, depth>>

SetTag(t) ==
    /\ tag' = t
    /\ Goes(t, "setTag", "count")
    /\ UNCHANGED <<inner, counter, depth>>

Count(t) ==
    /\ counter' = counter + 1
    /\ depth' = [depth EXCEPT ![t] = @ + 1]
    /\ Goes(t, "count", "running")
    /\ UNCHANGED <<inner, tag>>

-----------------------------------------------------------------------------
\* __syscall_lock_release_recursive, by a thread that acquired

\* A plausible mistake: the tag is left to the next owner to overwrite.
ReleaseKeepingTag(t) ==
    /\ depth[t] > 0
    /\ counter' = counter - 1
    /\ depth' = [depth EXCEPT ![t] = @ - 1]
    /\ Goes(t, "running", IF counter = 1 THEN "leave" ELSE "running")
    /\ UNCHANGED <<inner, tag>>

Release(t) ==
    /\ depth[t] > 0
    /\ counter' = counter - 1
    /\ depth' = [depth EXCEPT ![t] = @ - 1]
    /\ Goes(t, "running", IF counter = 1 THEN "clearTag" ELSE "running")
    /\ UNCHANGED <<inner, tag>>

ClearTag(t) ==
    /\ tag' = None
    /\ Goes(t, "clearTag", "leave")
    /\ UNCHANGED <<inner, counter, depth>>

Leave(t) ==
    /\ inner' = None
    /\ Goes(t, "leave", "running")
    /\ UNCHANGED <<tag, counter, depth>>

-----------------------------------------------------------------------------
\* __syscall_cond_wait_recursive, by a thread that acquired.  A lock held
\* more than once is refused with EBADF and nothing changes.
Wait(t) ==
    /\ depth[t] > 0
    /\ counter = 1
    /\ tag' = None
    /\ Goes(t, "running", "zeroCounter")
    /\ UNCHANGED <<inner, counter, depth>>

ZeroCounter(t) ==
    /\ counter' = 0
    /\ Goes(t, "zeroCounter", "sleep")
    /\ UNCHANGED <<inner, tag, depth>>

\* The library's wait releases the critical section and sleeps in one step.
Sleep(t) ==
    /\ inner' = None
    /\ Goes(t, "sleep", "asleep")
    /\ UNCHANGED <<tag, counter, depth>>

\* A signal, a broadcast or the timeout; either way the section is retaken.
Wake(t) ==
    /\ inner = None
    /\ inner' = t
    /\ Goes(t, "asleep", "restoreTag")
    /\ UNCHANGED <<tag, counter, depth>>

\* thread_tag_backup is the waiter's own tag: it held the lock.
RestoreTag(t) ==
    /\ tag' = t
    /\ Goes(t, "restoreTag", "restoreCounter")
    /\ UNCHANGED <<inner, counter, depth>>

\* A plausible mistake: the counter is counted up, not set.
RestoreCounterNot(t) ==
    /\ Goes(t, "restoreCounter", "running")
    /\ UNCHANGED <<inner, tag, counter, depth>>

RestoreCounter(t) ==
    /\ counter' = 1
    /\ Goes(t, "restoreCounter", "running")
    /\ UNCHANGED <<inner, tag, depth>>

-----------------------------------------------------------------------------
\* __syscall_lock_try_acquire_recursive.  TryEnter answers true when it took
\* the section; __syscall_lock_try_acquire passes that on, and the caller
\* takes a non-zero answer for a failure.

\* TryEnter succeeds: 1 is returned, "not acquired", with the section held.
TryTaken(t) ==
    /\ at[t] = "running"
    /\ tag # t
    /\ inner = None
    /\ inner' = t
    /\ UNCHANGED <<tag, counter, at, depth>>

\* TryEnter fails: tag and counter are written, 0 is returned, "acquired".
TryRefused(t) ==
    /\ tag # t
    /\ inner # None
    /\ Goes(t, "running", "setTag")
    /\ UNCHANGED <<inner, tag, counter, depth>>

\* The lock is the thread's own already: it is counted once more.
TryNested(t) ==
    /\ depth[t] < MaxDepth
    /\ tag = t
    /\ Goes(t, "running", "count")
    /\ UNCHANGED <<inner, tag, counter, depth>>

-----------------------------------------------------------------------------
Step(t) ==
    \/ AcquireReadTag(t) \/ Enter(t) \/ SetTag(t) \/ Count(t)
    \/ Release(t) \/ ClearTag(t) \/ Leave(t)
    \/ Wait(t) \/ ZeroCounter(t) \/ Sleep(t)
    \/ Wake(t) \/ RestoreTag(t) \/ RestoreCounter(t)

LockNext == \E t \in Threads : Step(t)

LockSpec == LockInit /\ [][LockNext]_lockVars

\* The same threads, which may also try.
NextTrying ==
    \E t \in Threads : Step(t) \/ TryTaken(t) \/ TryRefused(t) \/ TryNested(t)

SpecTrying == LockInit /\ [][NextTrying]_lockVars

\* Every thread gets on with what it is doing, a sleeper is woken in the end,
\* the critical section is handed out fairly and every owner makes its last
\* release, and so the others; nobody has to ask for the lock.
Working(t) ==
    \/ Enter(t) \/ SetTag(t) \/ Count(t) \/ ClearTag(t) \/ Leave(t)
    \/ ZeroCounter(t) \/ Sleep(t) \/ Wake(t)
    \/ RestoreTag(t) \/ RestoreCounter(t)

-----------------------------------------------------------------------------
Places == {"running", "enter", "setTag", "count", "clearTag", "leave",
           "zeroCounter", "sleep", "asleep", "restoreTag", "restoreCounter"}

\* Owner and counter stay in range: a release never takes the counter below
\* zero and no thread acquires more often than the bound.
LockTypeOK ==
    /\ inner \in Threads \cup {None}
    /\ tag \in Threads \cup {None}
    /\ counter \in 0..MaxDepth
    /\ at \in [Threads -> Places]
    /\ depth \in [Threads -> 0..MaxDepth]

\* A thread between an acquisition and its release, and not asleep in a wait.
Inside(t) == at[t] = "running" /\ depth[t] > 0

\* Whatever the order of acquisitions, releases and condition waits, only one
\* thread at a time runs with the lock (lines 118-189 of syscalls.cpp).
MutualExclusion ==
    \A t, u \in Threads : Inside(t) /\ Inside(u) => t = u

\* A thread that runs with the lock finds its own tag and its own number of
\* acquisitions in the shared fields, also after a wait during which others
\* took and released the lock: its last release frees it, and none before.
FieldsAreTheOwners ==
    \A t \in Threads :
        Inside(t) => inner = t /\ tag = t /\ counter = depth[t]

\* Places at which a thread owns the critical section.
OwningPlaces == {"setTag", "clearTag", "leave", "zeroCounter", "sleep",
                 "restoreTag", "restoreCounter"}

\* The inductive invariant: who holds the section, and what the tag and the
\* counter are at each place of its holder.
LockInv ==
    /\ LockTypeOK
    /\ \A t \in Threads :
         /\ inner = t <=> \/ at[t] \in OwningPlaces \cup {"count"}
                          \/ Inside(t)
         /\ tag = t <=> \/ at[t] \in {"count", "clearTag", "restoreCounter"}
                        \/ Inside(t)
         /\ at[t] \in {"enter", "setTag", "clearTag", "leave"} => depth[t] = 0
         /\ at[t] \in {"zeroCounter", "sleep", "asleep", "restoreTag",
                       "restoreCounter"} => depth[t] = 1
         /\ at[t] \in {"setTag", "clearTag", "leave", "sleep", "restoreTag",
                       "restoreCounter"} => counter = 0
         /\ at[t] = "zeroCounter" => counter = 1
         /\ Inside(t) \/ at[t] = "count" => counter = depth[t]
         /\ at[t] = "count" => depth[t] < MaxDepth
    /\ inner = None => counter = 0

\* A thread that asks for the lock gets it, when every owner lets go of it:
\* neither a wait nor a nested release leaves it held by nobody.
AskersEnter == \A t \in Threads : at[t] = "enter" ~> Inside(t)

=============================================================================
