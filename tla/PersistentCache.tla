---------------------------- MODULE PersistentCache ----------------------------
(***************************************************************************)
(* PersistentCache (guest_access.py): computed answers in memory and in a  *)
(* file of one line per key, shared by the threads of a process, which a   *)
(* lock orders, and by processes, which flock on the file orders.  The     *)
(* value of a key is always the same, so a line is its key.  The last line *)
(* of get reads the cache after the lock has been given back.              *)
(***************************************************************************)
EXTENDS Integers, Sequences, FiniteSets, SequencesExt

CONSTANTS
  Getters,   \* threads of all processes
  Procs,
  ProcOf,    \* the process of each thread
  Keys,
  MaxOld,    \* bound: lines the file has before the first process starts
  MaxGets,   \* bound: calls of get
  MaxLines   \* bound: lines the file may grow to

ASSUME CacheAssumption ==
  /\ "none" \notin Getters
  /\ ProcOf \in [Getters -> Procs] /\ MaxOld \in Nat
  /\ MaxGets \in Nat /\ MaxLines \in Nat

Nobody == "none"

VARIABLES
  file,      \* the lines of the file
  flock,     \* the thread whose file object holds the flock
  held,      \* per process: the thread in "with self.lock"
  cache,     \* per process: the keys in self.cache
  place, key,   \* per thread: where it is in get, and for which key
  pos,       \* per thread: the position of its file object
  gets,      \* history: calls so far
  lapped     \* history: per thread: the cache was forgotten after it gave back the lock

cacheVars == <<file, flock, held, cache, place, key, pos, gets, lapped>>

(* The file of earlier sessions; no process has started.                     *)
CacheInit ==
  /\ \E n \in 0..MaxOld : file \in [1..n -> Keys]
  /\ flock = Nobody
  /\ held = [p \in Procs |-> Nobody] /\ cache = [p \in Procs |-> {}]
  /\ place = [t \in Getters |-> "new"]
  /\ key \in [Getters -> Keys]
  /\ pos = [t \in Getters |-> 0]
  /\ gets = 0 /\ lapped = [t \in Getters |-> FALSE]

Go(t, from, to) == place[t] = from /\ place' = [place EXCEPT ![t] = to]

-----------------------------------------------------------------------------
(* __init__ loads the file from its start, under the flock, before the       *)
(* process has threads.                                                      *)
Start(p) ==
  /\ flock = Nobody
  /\ \A t \in Getters : ProcOf[t] = p => place[t] = "new"
  /\ cache' = [cache EXCEPT ![p] = Range(file)]
  /\ place' = [t \in Getters |-> IF ProcOf[t] = p THEN "idle" ELSE place[t]]
  /\ UNCHANGED <<file, flock, held, key, pos, gets, lapped>>

(* The first look, under the lock for as long as it takes.                   *)
Look(t, k) ==
  /\ gets < MaxGets /\ gets' = gets + 1
  /\ held[ProcOf[t]] = Nobody
  /\ place[t] \in {"idle", "raised"}
  /\ place' = [place EXCEPT ![t] = IF k \in cache[ProcOf[t]] THEN "idle" ELSE "compute"]
  /\ key' = [key EXCEPT ![t] = k]
  /\ UNCHANGED <<file, flock, held, cache, pos, lapped>>

(* compute() has returned: the lock, and a second look.                      *)
Relook(t) ==
  /\ held[ProcOf[t]] = Nobody
  /\ IF key[t] \in cache[ProcOf[t]]
       THEN Go(t, "compute", "idle") /\ UNCHANGED held
       ELSE Go(t, "compute", "open") /\ held' = [held EXCEPT ![ProcOf[t]] = t]
  /\ UNCHANGED <<file, flock, cache, key, pos, gets, lapped>>

(* open(path, "a+") stands at the end of the file.                           *)
Open(t) ==
  /\ Go(t, "open", "flock")
  /\ pos' = [pos EXCEPT ![t] = Len(file)]
  /\ UNCHANGED <<file, flock, held, cache, key, gets, lapped>>

Flock(t) ==
  /\ flock = Nobody /\ flock' = t
  /\ Go(t, "flock", "load")
  /\ UNCHANGED <<file, held, cache, key, pos, gets, lapped>>

(* load() forgets the cache, which threads that gave back the lock may still *)
(* want to read,                                                             *)
Forget(t) ==
  /\ Go(t, "load", "reload")
  /\ cache' = [cache EXCEPT ![ProcOf[t]] = {}]
  /\ lapped' = [u \in Getters |->
                  lapped[u] \/ (ProcOf[u] = ProcOf[t] /\ place[u] = "answer")]
  /\ UNCHANGED <<file, flock, held, key, pos, gets>>

(* and reads the lines from the position on; then the third look, and        *)
(* fp.write into the buffer.                                                 *)
Load(t) ==
  /\ LET loaded == Range(SubSeq(file, pos[t] + 1, Len(file))) IN
       /\ cache' = [cache EXCEPT ![ProcOf[t]] = loaded \cup {key[t]}]
       /\ Go(t, "reload", IF key[t] \in loaded THEN "unflock" ELSE "write")
  /\ UNCHANGED <<file, flock, held, key, pos, gets, lapped>>

(* flock(fp, LOCK_UN) on the way out, with the line still in the buffer or   *)
(* none to write.                                                            *)
Unflock(t) ==
  /\ \/ Go(t, "unflock", "close") \/ Go(t, "write", "flush")
  /\ flock' = Nobody
  /\ UNCHANGED <<file, held, cache, key, pos, gets, lapped>>

(* Mutant: the line is lost.                                                *)
FlushNothing(t) ==
  /\ Go(t, "flush", "release")
  /\ UNCHANGED <<file, flock, held, cache, key, pos, gets, lapped>>

(* Closing the file flushes the buffer to the end of the file.               *)
Flush(t) ==
  /\ Len(file) < MaxLines
  /\ Go(t, "flush", "release")
  /\ file' = Append(file, key[t])
  /\ UNCHANGED <<flock, held, cache, key, pos, gets, lapped>>

(* Out of "with self.lock": with the value, or to fetch it.                  *)
Release(t) ==
  /\ \/ Go(t, "close", "idle") \/ Go(t, "release", "answer")
  /\ held' = [held EXCEPT ![ProcOf[t]] = Nobody]
  /\ lapped' = [lapped EXCEPT ![t] = FALSE]
  /\ UNCHANGED <<file, flock, cache, key, pos, gets>>

(* return self.cache[key], without the lock: a KeyError if it is not there.  *)
Return(t) ==
  /\ Go(t, "answer", IF key[t] \in cache[ProcOf[t]] THEN "idle" ELSE "raised")
  /\ UNCHANGED <<file, flock, held, cache, key, pos, gets, lapped>>

Steps(t) == \/ Relook(t) \/ Open(t) \/ Flock(t) \/ Forget(t) \/ Load(t)
            \/ Unflock(t) \/ Flush(t) \/ Release(t) \/ Return(t)

CacheNext == \/ \E p \in Procs : Start(p)
             \/ \E t \in Getters : Steps(t) \/ \E k \in Keys : Look(t, k)

CacheSpec == CacheInit /\ [][CacheNext]_cacheVars

-----------------------------------------------------------------------------
(* Properties.                                                               *)

(* Inside "with self.lock", and anywhere.                                    *)
Places == {"open", "flock", "load", "reload", "write", "unflock", "flush", "release", "close"}

Spots == Places \cup {"new", "idle", "compute", "answer", "raised"}

CacheTypes ==
  /\ file \in Seq(Keys) /\ flock \in Getters \cup {Nobody}
  /\ held \in [Procs -> Getters \cup {Nobody}]
  /\ cache \in [Procs -> SUBSET Keys]
  /\ place \in [Getters -> Spots]
  /\ key \in [Getters -> Keys] /\ pos \in [Getters -> Nat]
  /\ lapped \in [Getters -> BOOLEAN]

LocksHeld ==
  \A t \in Getters : /\ held[ProcOf[t]] = t <=> place[t] \in Places
                     /\ flock = t <=> place[t] \in {"load", "reload", "write", "unflock"}

(* Types, and that both locks are held just where their scopes say, through  *)
(* both ways out; a file object never stands behind the end of the file.     *)
CacheTypeOK == CacheTypes /\ LocksHeld /\ \A t \in Getters : pos[t] <= Len(file)

(* What a process keeps in memory is in the file or about to be: nothing is  *)
(* answered from memory that would be lost when the process ends.            *)
MemoryIsPersistent ==
  \A p \in Procs :
    cache[p] \subseteq Range(file)
      \cup {key[t] : t \in {u \in Getters :
                             ProcOf[u] = p /\ place[u] \in {"write", "flush"}}}

(* Only a thread that another one of its process overtook between the lock   *)
(* and the last line finds its own key gone from the cache.                  *)
OnlyLappedRaise ==
  \A t \in Getters :
    \/ place[t] \notin {"answer", "raised"} \/ lapped[t]
    \/ place[t] = "answer" /\ key[t] \in cache[ProcOf[t]]

(* Nobody waits for ever for the lock and the flock together, and get then   *)
(* has its value, but for a thread that was overtaken.                       *)
GetsReturn ==
  /\ \A t \in Getters :
       place[t] \notin {"new", "idle", "raised"} ~> place[t] \in {"idle", "raised"}
  /\ []OnlyLappedRaise
=============================================================================
