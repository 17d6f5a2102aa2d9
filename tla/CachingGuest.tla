----------------------------- MODULE CachingGuest -----------------------------
(***************************************************************************)
(* CachingGuest (guest_access.py): reads of the game's memory by whole     *)
(* chunks that are kept while a "with guest" block is active, or for ever  *)
(* in imaginary mode, where writes go to the cache only and never to the   *)
(* game.  The memory itself stands still: the debugger holds the game.     *)
(***************************************************************************)
EXTENDS Integers, Sequences, FiniteSetsExt

CONSTANTS
  ChunkSize,     \* chunk_size
  Chunks,        \* number of chunks of the address space
  Readable,      \* chunks the backing guest can read
  Writable,      \* chunks it can write
  Values, MaxActive

ASSUME GuestAssumption ==
  /\ ChunkSize \in Nat \ {0} /\ Chunks \in Nat \ {0} /\ MaxActive \in Nat \ {0}
  /\ Readable \subseteq 0..(Chunks - 1) /\ Writable \subseteq 0..(Chunks - 1)

Addrs == 0..(ChunkSize * Chunks - 1)
ChunkOf(a) == a \div ChunkSize

VARIABLES
  memory,       \* the backing guest's memory
  chunk_cache,  \* cache: chunk number |-> its contents by address
  active_count,
  imaginary,    \* imaginary_mode, which does not change
  seen,         \* history: memory with the changes the caller made
  refused,      \* history: cached bytes whose last write the guest refused
  read          \* history: the last read: what was asked and the bytes returned

guestVars == <<memory, chunk_cache, active_count, imaginary, seen, refused, read>>

NoRead == [addr |-> 0, size |-> 0, bytes |-> <<>>]

GuestInit ==
  /\ \E v \in Values : memory = [a \in Addrs |-> v]
  /\ chunk_cache = <<>> /\ imaginary \in BOOLEAN
  /\ active_count = IF imaginary THEN 1 ELSE 0
  /\ seen = memory /\ refused = {} /\ read = NoRead

Contents(m, c) == [a \in {b \in Addrs : ChunkOf(b) = c} |-> m[a]]

Spanned(a, n) == ChunkOf(a)..ChunkOf(a + n - 1)

-----------------------------------------------------------------------------
(* try_read.  Chunks that are missing are read run by run; a run that cannot *)
(* be read completely ends the loop and gives nothing.                       *)

ReadUpTo(a, n) ==
  LET missing == Spanned(a, n) \ DOMAIN chunk_cache
      bad == missing \ Readable
  IN  IF bad = {} THEN ChunkOf(a + n - 1) + 1
      ELSE Min({c \in missing : c..Min(bad) \subseteq missing})

(* The chunks cached afterwards, and the bytes of a and on that are known.   *)
CacheAfterRead(a, n) ==
  [c \in DOMAIN chunk_cache \cup (ChunkOf(a)..(ReadUpTo(a, n) - 1)) |->
     IF c \in DOMAIN chunk_cache THEN chunk_cache[c] ELSE Contents(memory, c)]

BytesRead(a, n) == Max({0, Min({n, ReadUpTo(a, n) * ChunkSize - a})})

TryRead(a, n) ==
  /\ active_count > 0
  /\ chunk_cache' = CacheAfterRead(a, n)
  /\ read' = [addr |-> a, size |-> n,
              bytes |-> [i \in 1..BytesRead(a, n) |->
                           chunk_cache'[ChunkOf(a + i - 1)][a + i - 1]]]
  /\ UNCHANGED <<memory, active_count, imaginary, seen, refused>>

-----------------------------------------------------------------------------
(* try_write.                                                                *)

Patched(f, a, n, v) == [b \in DOMAIN f |-> IF b \in a..(a + n - 1) THEN v ELSE f[b]]

(* How many of n bytes the backing guest writes.                             *)
BytesWritten(a, n) ==
  CHOOSE l \in 0..n :
    /\ \A i \in 0..(l - 1) : ChunkOf(a + i) \in Writable
    /\ l < n => ChunkOf(a + l) \notin Writable

(* Of those that are cached, the bytes whose last write was refused.         *)
RefusedAfter(a, n) ==
  LET written == BytesWritten(a, n) IN
    (refused \ (a..(a + written - 1)))
      \cup {b \in (a + written)..(a + n - 1) : ChunkOf(b) \in DOMAIN chunk_cache}

(* Mutant: cached chunks are left as they are.                              *)
WriteThroughOnly(a, n, v) ==
  /\ ~imaginary
  /\ memory' = Patched(memory, a, BytesWritten(a, n), v)
  /\ seen' = Patched(seen, a, BytesWritten(a, n), v)
  /\ refused' = RefusedAfter(a, n)
  /\ read' = NoRead
  /\ UNCHANGED <<chunk_cache, active_count, imaginary>>

(* Cached chunks are patched with all of the data, then the backing guest    *)
(* writes as much as it can: what it refuses stays in the cache.             *)
WriteThrough(a, n, v) ==
  /\ ~imaginary
  /\ chunk_cache' = [c \in DOMAIN chunk_cache |-> Patched(chunk_cache[c], a, n, v)]
  /\ memory' = Patched(memory, a, BytesWritten(a, n), v)
  /\ seen' = Patched(seen, a, BytesWritten(a, n), v)
  /\ refused' = RefusedAfter(a, n)
  /\ read' = NoRead
  /\ UNCHANGED <<active_count, imaginary>>

(* Imaginary mode: as many bytes as a read gets are patched in the cache.    *)
(* If that is none, inside a chunk, the loop still visits the chunk and its  *)
(* assertion fails; the outcome is the same.                                 *)
WriteOverlay(a, n, v) ==
  /\ imaginary
  /\ LET count == BytesRead(a, n)
         known == CacheAfterRead(a, n)
     IN  /\ chunk_cache' = [c \in DOMAIN known |-> Patched(known[c], a, count, v)]
         /\ seen' = Patched(seen, a, count, v)
  /\ read' = NoRead
  /\ UNCHANGED <<memory, active_count, imaginary, refused>>

-----------------------------------------------------------------------------
(* "with guest", which nests.                                                *)
Enter ==
  /\ active_count < MaxActive
  /\ active_count' = active_count + 1
  /\ read' = NoRead
  /\ UNCHANGED <<memory, chunk_cache, imaginary, seen, refused>>

Exit ==
  /\ active_count > (IF imaginary THEN 1 ELSE 0)
  /\ active_count' = active_count - 1
  /\ chunk_cache' = IF active_count' = 0 THEN <<>> ELSE chunk_cache
  /\ refused' = IF active_count' = 0 THEN {} ELSE refused
  /\ read' = NoRead
  /\ UNCHANGED <<memory, imaginary, seen>>

(* Outside a block every access goes to the backing guest.                   *)
GuestNext ==
  \/ \E a \in Addrs : \E n \in 1..(ChunkSize * Chunks - a) :
       \/ TryRead(a, n)
       \/ \E v \in Values : WriteThrough(a, n, v) \/ WriteOverlay(a, n, v)
  \/ Enter \/ Exit

GuestSpec == GuestInit /\ [][GuestNext]_guestVars

-----------------------------------------------------------------------------
(* Properties.                                                               *)

(* Types; nothing is cached outside a block, and only what can be read.      *)
GuestTypeOK ==
  /\ memory \in [Addrs -> Values] /\ seen \in [Addrs -> Values]
  /\ active_count \in 0..MaxActive /\ imaginary \in BOOLEAN
  /\ imaginary => active_count > 0
  /\ DOMAIN chunk_cache \subseteq Readable
  /\ active_count = 0 => DOMAIN chunk_cache = {}
  /\ refused \subseteq {a \in Addrs : ChunkOf(a) \in DOMAIN chunk_cache}

(* A read gives the memory with the caller's own changes, whichever chunks   *)
(* were cached, patched or missing, but for bytes of a chunk that is still   *)
(* cached whose last write was refused; and all of it if all can be read.    *)
ReadsAreTrue ==
  /\ \A i \in DOMAIN read.bytes :
       read.addr + i - 1 \notin refused => read.bytes[i] = seen[read.addr + i - 1]
  /\ read.size > 0 /\ Spanned(read.addr, read.size) \subseteq Readable
       => Len(read.bytes) = read.size

(* What imaginary mode changes stays on top of the memory, in the cache;     *)
(* otherwise it is the memory that changes.                                  *)
OverlayKept ==
  \A a \in Addrs : seen[a] # memory[a] => imaginary /\ ChunkOf(a) \in DOMAIN chunk_cache

(* A cached chunk is the memory as the caller changed it, and the changes    *)
(* the caller was refused.                                                   *)
CachedIsSeen ==
  \A c \in DOMAIN chunk_cache :
    /\ DOMAIN chunk_cache[c] = {a \in Addrs : ChunkOf(a) = c}
    /\ \A a \in DOMAIN chunk_cache[c] \ refused : chunk_cache[c][a] = seen[a]

(* The invariant of the cache.                                               *)
GuestInv == GuestTypeOK /\ ReadsAreTrue /\ OverlayKept /\ CachedIsSeen
=============================================================================
