---------------------------- MODULE ClientsProofs ----------------------------
(***************************************************************************)
(* Proofs about the python clients: the cache of game memory, the cache    *)
(* that processes share, and the connection that threads share.            *)
(***************************************************************************)
EXTENDS PyRpcConn, PersistentCache, CachingGuest,
        SequenceTheorems, WellFoundedInduction, TLAPS

-----------------------------------------------------------------------------
(***************************************************************************)
(* The cache of game memory, for every size of chunks and of memory and    *)
(* every set of chunks that can be read.                                   *)
(***************************************************************************)

(* Chunks and addresses.                                                     *)
LEMMA Products ==
  ASSUME NEW n \in Nat, NEW x \in Nat, NEW y \in Nat, x <= y
  PROVE  n * x \in Nat /\ n * y \in Nat /\ n * x <= n * y
  <1>1. y - x \in Nat /\ y = x + (y - x)  OBVIOUS
  <1>2. n * (y - x) \in Nat /\ n * x \in Nat  BY <1>1
  <1>3. n * (x + (y - x)) = n * x + n * (y - x)  BY <1>1
  <1> QED  BY <1>1, <1>2, <1>3

LEMMA ChunkBounds ==
  ASSUME NEW a \in Nat
  PROVE  /\ ChunkOf(a) \in Nat
         /\ ChunkSize * ChunkOf(a) <= a /\ a < ChunkSize * (ChunkOf(a) + 1)
  BY GuestAssumption DEF ChunkOf

LEMMA ChunkBelow ==
  ASSUME NEW a \in Nat, NEW k \in Nat
  PROVE  ChunkOf(a) < k <=> a < ChunkSize * k
  <1>1. /\ ChunkOf(a) \in Nat /\ ChunkSize \in Nat
        /\ ChunkSize * ChunkOf(a) <= a /\ a < ChunkSize * (ChunkOf(a) + 1)
    BY ChunkBounds, GuestAssumption
  <1> DEFINE c == ChunkOf(a)
  <1>2. ASSUME c < k PROVE a < ChunkSize * k
    <2>1. c + 1 \in Nat /\ c + 1 <= k  BY <1>1, <1>2
    <2>2. /\ ChunkSize * (c + 1) \in Nat /\ ChunkSize * k \in Nat
          /\ ChunkSize * (c + 1) <= ChunkSize * k
      BY <1>1, <2>1, Products
    <2> QED  BY <1>1, <2>2
  <1>3. ASSUME ~(c < k) PROVE ~(a < ChunkSize * k)
    <2>1. k <= c  BY <1>1, <1>3
    <2>2. /\ ChunkSize * k \in Nat /\ ChunkSize * c \in Nat
          /\ ChunkSize * k <= ChunkSize * c
      BY <1>1, <2>1, Products
    <2> QED  BY <1>1, <2>2
  <1> QED  BY <1>2, <1>3

LEMMA ChunkOrder ==
  ASSUME NEW a \in Nat, NEW b \in Nat, a <= b
  PROVE  ChunkOf(a) \in Nat /\ ChunkOf(b) \in Nat /\ ChunkOf(a) <= ChunkOf(b)
  <1>1. ChunkOf(a) \in Nat /\ ChunkOf(b) \in Nat  BY ChunkBounds
  <1>2. b < ChunkSize * (ChunkOf(b) + 1)  BY ChunkBounds
  <1>3. ChunkSize * (ChunkOf(b) + 1) \in Nat  BY <1>1, GuestAssumption, Products
  <1>4. a < ChunkSize * (ChunkOf(b) + 1)  BY <1>2, <1>3
  <1>5. ChunkOf(b) + 1 \in Nat  BY <1>1
  <1>6. ChunkOf(a) < ChunkOf(b) + 1  BY <1>4, <1>5, ChunkBelow
  <1> QED  BY <1>1, <1>6

LEMMA AddrChunks ==
  /\ ChunkSize * Chunks \in Nat /\ Addrs \subseteq Nat
  /\ \A a \in Addrs : ChunkOf(a) \in 0..(Chunks - 1)
  <1>1. ChunkSize * Chunks \in Nat  BY GuestAssumption, Products
  <1>2. Addrs \subseteq Nat  BY <1>1 DEF Addrs
  <1>3. ASSUME NEW a \in Addrs PROVE ChunkOf(a) \in 0..(Chunks - 1)
    <2>1. a \in Nat /\ a < ChunkSize * Chunks  BY <1>1 DEF Addrs
    <2>2. Chunks \in Nat /\ ChunkOf(a) \in Nat  BY <2>1, GuestAssumption, ChunkBounds
    <2>3. ChunkOf(a) < Chunks  BY <2>1, <2>2, ChunkBelow
    <2> QED  BY <2>2, <2>3
  <1> QED  BY <1>1, <1>2, <1>3

(* What a caller may ask for.                                                *)
Asked(a, n) == a \in Addrs /\ n \in 1..(ChunkSize * Chunks - a)

LEMMA AskedRange ==
  ASSUME NEW a, NEW n, Asked(a, n)
  PROVE  /\ a \in Nat /\ n \in Nat \ {0} /\ a + n - 1 \in Addrs
         /\ \A i \in 1..n : a + i - 1 \in Addrs /\ a + i - 1 \in Nat
         /\ ChunkOf(a) \in Nat /\ ChunkOf(a + n - 1) \in Nat
         /\ ChunkOf(a) <= ChunkOf(a + n - 1)
  <1>1. ChunkSize * Chunks \in Nat  BY AddrChunks
  <1>2. a \in Nat /\ n \in Nat \ {0} /\ a + n - 1 \in Addrs
    BY <1>1 DEF Asked, Addrs
  <1>3. \A i \in 1..n : a + i - 1 \in Addrs /\ a + i - 1 \in Nat
    BY <1>1 DEF Asked, Addrs
  <1>4. a + n - 1 \in Nat /\ a <= a + n - 1  BY <1>2
  <1> QED  BY <1>2, <1>3, <1>4, ChunkOrder

(* The first of some chunks, and the number of bytes there are.              *)
LEMMA FirstOf ==
  ASSUME NEW T, T \subseteq Nat, T # {}
  PROVE  Min(T) \in T /\ \A x \in T : Min(T) <= x
<1>1. PICK x \in T : \A y \in T : <<y, x>> \notin OpToRel(<, Nat)
  BY WFMin, NatLessThanWellFounded
<1>2. \A y \in T : ~(y < x)
  <2> SUFFICES ASSUME NEW y \in T, y < x PROVE FALSE
    OBVIOUS
  <2>1. x \in Nat /\ y \in Nat
    OBVIOUS
  <2>2. <<y, x>> \in Nat \X Nat /\ <<y, x>>[1] < <<y, x>>[2]
    BY <2>1
  <2>3. <<y, x>> \in OpToRel(<, Nat)
    BY <2>2, Zenon DEF OpToRel
  <2> QED
    BY <2>3, <1>1
<1>3. \A y \in T : x <= y
  BY <1>2
<1> QED
  BY <1>3 DEF Min

LEMMA Clipped ==
  ASSUME NEW n \in Nat, NEW x \in Int
  PROVE  Max({0, Min({n, x})}) = IF x >= n THEN n ELSE IF x >= 0 THEN x ELSE 0
  <1>1. Min({n, x}) = IF x >= n THEN n ELSE x  BY DEF Min
  <1>2. ASSUME NEW y \in Int PROVE Max({0, y}) = IF y >= 0 THEN y ELSE 0  BY DEF Max
  <1> DEFINE m == Min({n, x})
  <1>3. m \in Int  BY <1>1
  <1> HIDE DEF m
  <1>4. Max({0, m}) = IF m >= 0 THEN m ELSE 0  BY <1>2, <1>3
  <1> QED  BY <1>1, <1>4 DEF m

(* try_read gets as far as the chunks are cached or can be read.             *)
LEMMA ReadUpToIs ==
  ASSUME NEW a, NEW n, Asked(a, n), DOMAIN chunk_cache \subseteq Readable
  PROVE  /\ ReadUpTo(a, n) \in ChunkOf(a)..(ChunkOf(a + n - 1) + 1)
         /\ \A c \in ChunkOf(a)..(ReadUpTo(a, n) - 1) : c \in Readable
         /\ Spanned(a, n) \subseteq Readable => ReadUpTo(a, n) = ChunkOf(a + n - 1) + 1
  <1> DEFINE first == ChunkOf(a)
             last == ChunkOf(a + n - 1)
             missing == Spanned(a, n) \ DOMAIN chunk_cache
             bad == missing \ Readable
             u == ReadUpTo(a, n)
  <1>1. first \in Nat /\ last \in Nat /\ first <= last  BY AskedRange
  <1>2. Spanned(a, n) = first..last  BY DEF Spanned
  <1>3. u = IF bad = {} THEN last + 1 ELSE Min({c \in missing : c..Min(bad) \subseteq missing})
    BY DEF ReadUpTo
  <1> HIDE DEF first, last, u
  <1>4. missing \subseteq first..last /\ bad \subseteq Nat /\ missing \subseteq Nat  BY <1>1, <1>2
  <1>5. \A c \in first..last : c \notin bad => c \in Readable  BY <1>2
  <1>6. Spanned(a, n) \subseteq Readable => bad = {}  OBVIOUS
  <1> HIDE DEF missing, bad
  <1>7. CASE bad = {}
    <2>1. u = last + 1  BY <1>3, <1>7
    <2>2. u \in first..(last + 1)  BY <1>1, <2>1
    <2>3. \A c \in first..(u - 1) : c \in Readable  BY <1>1, <1>5, <1>7, <2>1
    <2> QED  BY <2>1, <2>2, <2>3 DEF first, last, u
  <1>8. CASE bad # {}
    <2> DEFINE m == Min(bad)
               T == {c \in missing : c..m \subseteq missing}
    <2>1. m \in bad /\ \A x \in bad : m <= x  BY <1>4, <1>8, FirstOf
    <2>2. m \in missing /\ m \in Nat  BY <1>4, <2>1 DEF bad
    <2>3. u = Min(T)  BY <1>3, <1>8
    <2> HIDE DEF m
    <2>4. m \in T
      <3>1. m..m = {m}  BY <2>2
      <3> QED  BY <2>2, <3>1
    <2>5. T \subseteq Nat /\ T \subseteq missing  BY <1>4
    <2> HIDE DEF T
    <2>6. u \in T /\ u <= m  BY <2>3, <2>4, <2>5, FirstOf
    <2>7. u \in first..last /\ u \in Nat  BY <1>4, <2>5, <2>6
    <2>8. ASSUME NEW c \in first..(u - 1) PROVE c \in Readable
      <3>1. c \in first..last /\ c < m  BY <1>1, <2>2, <2>6, <2>7
      <3>2. c \in Nat  BY <1>1, <3>1
      <3>3. c \notin bad  BY <2>1, <2>2, <3>1, <3>2
      <3> QED  BY <1>5, <3>1, <3>3
    <2>9. u \in first..(last + 1)  BY <1>1, <2>7
    <2> QED  BY <1>6, <1>8, <2>8, <2>9 DEF first, last, u
  <1> QED  BY <1>7, <1>8

(* How many of the n bytes it gets: all if all can be read, and those it     *)
(* gets lie in chunks that are cached or were read just now.                 *)
LEMMA BytesReadIs ==
  ASSUME NEW a, NEW n, Asked(a, n), DOMAIN chunk_cache \subseteq Readable
  PROVE  /\ BytesRead(a, n) \in 0..n
         /\ \A i \in 1..BytesRead(a, n) :
              /\ a + i - 1 \in Addrs
              /\ ChunkOf(a + i - 1) \in ChunkOf(a)..(ReadUpTo(a, n) - 1)
         /\ Spanned(a, n) \subseteq Readable => BytesRead(a, n) = n
  <1> DEFINE u == ReadUpTo(a, n)
             x == u * ChunkSize - a
             count == BytesRead(a, n)
  <1>1. a \in Nat /\ n \in Nat \ {0}  BY AskedRange
  <1>2. ChunkOf(a) \in Nat /\ ChunkOf(a + n - 1) \in Nat  BY AskedRange
  <1>3. u \in Nat  BY <1>2, ReadUpToIs
  <1>4. ChunkSize \in Nat /\ ChunkSize * u \in Nat /\ u * ChunkSize = ChunkSize * u
    BY <1>3, GuestAssumption, Products
  <1>5. x \in Int /\ x = ChunkSize * u - a  BY <1>1, <1>4
  <1>6. count = Max({0, Min({n, x})})  BY DEF BytesRead
  <1> HIDE DEF u, x, count
  <1>7. count = IF x >= n THEN n ELSE IF x >= 0 THEN x ELSE 0  BY <1>1, <1>5, <1>6, Clipped
  <1>8. count \in 0..n /\ (count > 0 => count <= x)  BY <1>1, <1>5, <1>7
  <1>9. ASSUME NEW i \in 1..count
        PROVE  a + i - 1 \in Addrs /\ ChunkOf(a + i - 1) \in ChunkOf(a)..(u - 1)
    <2>1. i \in 1..n /\ i <= x  BY <1>1, <1>5, <1>8
    <2>2. a + i - 1 \in Addrs /\ a + i - 1 \in Nat  BY <2>1, AskedRange
    <2>3. a + i - 1 < ChunkSize * u  BY <1>1, <1>4, <1>5, <2>1
    <2>4. ChunkOf(a + i - 1) < u  BY <1>3, <2>2, <2>3, ChunkBelow
    <2>5. a <= a + i - 1  BY <1>1, <2>1
    <2>6. ChunkOf(a) <= ChunkOf(a + i - 1) /\ ChunkOf(a + i - 1) \in Nat
      BY <1>1, <2>2, <2>5, ChunkOrder
    <2> QED  BY <1>2, <1>3, <2>2, <2>4, <2>6
  <1>10. ASSUME Spanned(a, n) \subseteq Readable PROVE count = n
    <2>1. u = ChunkOf(a + n - 1) + 1  BY <1>10, ReadUpToIs DEF u
    <2>2. a + n - 1 \in Nat  BY <1>1
    <2>3. a + n - 1 < ChunkSize * u  BY <2>1, <2>2, ChunkBounds
    <2>4. x >= n  BY <1>1, <1>4, <1>5, <2>3
    <2> QED  BY <1>7, <2>4
  <1> QED  BY <1>8, <1>9, <1>10 DEF count, u

-----------------------------------------------------------------------------
(* What is cached is the memory with the caller's changes, before a read and *)
(* after it.                                                                 *)
LEMMA ContentsAt ==
  ASSUME NEW m, NEW c
  PROVE  /\ DOMAIN Contents(m, c) = {b \in Addrs : ChunkOf(b) = c}
         /\ \A b \in Addrs : ChunkOf(b) = c => Contents(m, c)[b] = m[b]
  BY DEF Contents

(* Cached chunks that show the caller's memory, but for refused bytes.       *)
Shows(k) ==
  \A c \in DOMAIN k :
    /\ DOMAIN k[c] = {b \in Addrs : ChunkOf(b) = c}
    /\ \A b \in DOMAIN k[c] \ refused : k[c][b] = seen[b]

LEMMA AfterRead ==
  ASSUME NEW a, NEW n, Asked(a, n), GuestTypeOK, OverlayKept, CachedIsSeen
  PROVE  /\ DOMAIN CacheAfterRead(a, n) \subseteq Readable
         /\ DOMAIN chunk_cache \subseteq DOMAIN CacheAfterRead(a, n)
         /\ \A i \in 1..BytesRead(a, n) : ChunkOf(a + i - 1) \in DOMAIN CacheAfterRead(a, n)
         /\ Shows(CacheAfterRead(a, n))
  <1> DEFINE new == ChunkOf(a)..(ReadUpTo(a, n) - 1)
             k == CacheAfterRead(a, n)
  <1>1. DOMAIN chunk_cache \subseteq Readable  BY DEF GuestTypeOK
  <1>2. new \subseteq Readable  BY <1>1, ReadUpToIs
  <1>3. k = [c \in DOMAIN chunk_cache \cup new |->
               IF c \in DOMAIN chunk_cache THEN chunk_cache[c] ELSE Contents(memory, c)]
    BY DEF CacheAfterRead
  <1>4. \A i \in 1..BytesRead(a, n) : ChunkOf(a + i - 1) \in new  BY <1>1, BytesReadIs
  <1> HIDE DEF new, k
  <1>5. ASSUME NEW c \in DOMAIN k
        PROVE  /\ DOMAIN k[c] = {b \in Addrs : ChunkOf(b) = c}
               /\ \A b \in DOMAIN k[c] \ refused : k[c][b] = seen[b]
    <2>1. CASE c \in DOMAIN chunk_cache
      <3>1. k[c] = chunk_cache[c]  BY <1>3, <2>1
      <3> QED  BY <2>1, <3>1 DEF CachedIsSeen
    <2>2. CASE c \notin DOMAIN chunk_cache
      <3>1. k[c] = Contents(memory, c)  BY <1>3, <2>2
      <3>2. \A b \in Addrs : ChunkOf(b) = c => memory[b] = seen[b]  BY <2>2 DEF OverlayKept
      <3> DEFINE f == Contents(memory, c)
      <3>3. DOMAIN f = {b \in Addrs : ChunkOf(b) = c}  BY ContentsAt
      <3>4. \A b \in Addrs : ChunkOf(b) = c => f[b] = memory[b]  BY ContentsAt
      <3> HIDE DEF f
      <3>5. \A b \in DOMAIN f : f[b] = seen[b]  BY <3>2, <3>3, <3>4
      <3> QED  BY <3>1, <3>3, <3>5 DEF f
    <2> QED  BY <2>1, <2>2
  <1>6. DOMAIN k = DOMAIN chunk_cache \cup new  BY <1>3
  <1> QED  BY <1>1, <1>2, <1>4, <1>5, <1>6 DEF k, Shows

(* Patching a memory, and a chunk.                                           *)
LEMMA PatchedMemory ==
  ASSUME NEW m \in [Addrs -> Values], NEW a, NEW n, NEW v \in Values
  PROVE  /\ Patched(m, a, n, v) \in [Addrs -> Values]
         /\ \A b \in Addrs : Patched(m, a, n, v)[b] = IF b \in a..(a + n - 1) THEN v ELSE m[b]
  BY DEF Patched

LEMMA PatchedChunk ==
  ASSUME NEW f, NEW a, NEW n, NEW v
  PROVE  /\ DOMAIN Patched(f, a, n, v) = DOMAIN f
         /\ \A b \in DOMAIN f : Patched(f, a, n, v)[b] = IF b \in a..(a + n - 1) THEN v ELSE f[b]
  BY DEF Patched

-----------------------------------------------------------------------------
(* The steps.                                                                *)
LEMMA GuestInitInv == GuestInit => GuestInv
  <1> SUFFICES ASSUME GuestInit PROVE GuestInv  OBVIOUS
  <1>1. PICK v \in Values : memory = [a \in Addrs |-> v]  BY DEF GuestInit
  <1>2. /\ chunk_cache = <<>> /\ imaginary \in BOOLEAN /\ seen = memory /\ read = NoRead
        /\ refused = {}
        /\ active_count = IF imaginary THEN 1 ELSE 0
    BY DEF GuestInit
  <1>3. DOMAIN chunk_cache = {}  BY <1>2
  <1>4. active_count \in 0..MaxActive /\ (imaginary => active_count > 0)
    <2>1. CASE imaginary  BY <1>2, <2>1, GuestAssumption
    <2>2. CASE ~imaginary  BY <1>2, <2>2, GuestAssumption
    <2> QED  BY <2>1, <2>2
  <1>5. GuestTypeOK  BY <1>1, <1>2, <1>3, <1>4 DEF GuestTypeOK
  <1>6. ReadsAreTrue  BY <1>2 DEF ReadsAreTrue, NoRead
  <1>7. OverlayKept /\ CachedIsSeen  BY <1>2, <1>3 DEF OverlayKept, CachedIsSeen
  <1> QED  BY <1>5, <1>6, <1>7 DEF GuestInv

LEMMA NothingRead == ASSUME read' = NoRead PROVE ReadsAreTrue'
  BY DEF ReadsAreTrue, NoRead

LEMMA TryReadInv ==
  ASSUME GuestInv, NEW a, NEW n, Asked(a, n), TryRead(a, n)
  PROVE  GuestInv'
  <1> DEFINE k == CacheAfterRead(a, n)
             count == BytesRead(a, n)
             bytes == [i \in 1..count |-> k[ChunkOf(a + i - 1)][a + i - 1]]
  <1>1. GuestTypeOK /\ OverlayKept /\ CachedIsSeen  BY DEF GuestInv
  <1>2. /\ active_count > 0 /\ chunk_cache' = k
        /\ read' = [addr |-> a, size |-> n, bytes |-> bytes]
        /\ UNCHANGED <<memory, active_count, imaginary, seen, refused>>
    BY DEF TryRead
  <1>3. /\ DOMAIN k \subseteq Readable /\ DOMAIN chunk_cache \subseteq DOMAIN k
        /\ \A i \in 1..count : ChunkOf(a + i - 1) \in DOMAIN k
        /\ Shows(k)
    BY <1>1, AfterRead
  <1>4. /\ count \in 0..n /\ \A i \in 1..count : a + i - 1 \in Addrs
        /\ Spanned(a, n) \subseteq Readable => count = n
    <2>1. DOMAIN chunk_cache \subseteq Readable  BY <1>1 DEF GuestTypeOK
    <2> QED  BY <2>1, BytesReadIs
  <1>5. n \in Nat \ {0}  BY AskedRange
  <1> HIDE DEF k, count
  <1>6. ASSUME NEW i \in 1..count 
        PROVE  /\ bytes[i] = k[ChunkOf(a + i - 1)][a + i - 1]
               /\ a + i - 1 \notin refused => bytes[i] = seen[a + i - 1]
    <2> DEFINE b == a + i - 1
    <2>1. b \in Addrs /\ ChunkOf(b) \in DOMAIN k  BY <1>3, <1>4
    <2>2. bytes[i] = k[ChunkOf(b)][b]  OBVIOUS
    <2> HIDE DEF b, bytes
    <2>3. b \in DOMAIN k[ChunkOf(b)]  BY <1>3, <2>1 DEF Shows
    <2>4. b \notin refused => k[ChunkOf(b)][b] = seen[b]  BY <1>3, <2>1, <2>3 DEF Shows
    <2> QED  BY <2>2, <2>4 DEF b
  <1>7. DOMAIN bytes = 1..count /\ Len(bytes) = count
    <2>2. DOMAIN bytes = 1..count  OBVIOUS
    <2>3. count \in Nat  BY <1>4, <1>5
    <2>4. bytes = [i \in 1..count |-> bytes[i]]  OBVIOUS
    <2> DEFINE S == {bytes[i] : i \in 1..count}
    <2> HIDE DEF bytes
    <2>5. bytes \in [1..count -> S]  BY <2>2, <2>4
    <2> HIDE DEF S
    <2>6. bytes \in Seq(S)  BY <2>3, <2>5, SeqDef
    <2>7. DOMAIN bytes = 1..Len(bytes) /\ Len(bytes) \in Nat  BY <2>6, LenProperties
    <2> QED  BY <2>2, <2>3, <2>7
  <1> HIDE DEF bytes
  <1>8. read'.addr = a /\ read'.size = n /\ read'.bytes = bytes  BY <1>2
  <1>9. ReadsAreTrue'
    <2>1. \A i \in DOMAIN read'.bytes :
            read'.addr + i - 1 \notin refused' => read'.bytes[i] = seen'[read'.addr + i - 1]
      BY <1>2, <1>6, <1>7, <1>8
    <2>2. Spanned(read'.addr, read'.size) \subseteq Readable => Len(read'.bytes) = read'.size
      BY <1>4, <1>7, <1>8
    <2> QED  BY <2>1, <2>2 DEF ReadsAreTrue
  <1>10. GuestTypeOK'
    <2>1. active_count # 0  BY <1>1, <1>2 DEF GuestTypeOK
    <2> QED  BY <1>1, <1>2, <1>3, <2>1 DEF GuestTypeOK
  <1>11. OverlayKept'  BY <1>1, <1>2, <1>3 DEF OverlayKept
  <1>12. CachedIsSeen'  BY <1>2, <1>3 DEF CachedIsSeen, Shows
  <1> QED  BY <1>9, <1>10, <1>11, <1>12 DEF GuestInv

(* The guest writes up to the first byte it refuses.                         *)
LEMMA WrittenIs ==
  ASSUME NEW a, NEW n, Asked(a, n)
  PROVE  BytesWritten(a, n) \in 0..n
  <1> DEFINE P(l) == /\ \A i \in 0..(l - 1) : ChunkOf(a + i) \in Writable
                     /\ l < n => ChunkOf(a + l) \notin Writable
             T == {i \in 0..(n - 1) : ChunkOf(a + i) \notin Writable}
  <1>1. n \in Nat \ {0} /\ a \in Nat  BY AskedRange
  <1>2. \E l \in 0..n : P(l)
    <2>1. CASE T = {}
      <3>1. \A i \in 0..(n - 1) : ChunkOf(a + i) \in Writable  BY <2>1
      <3>2. n \in 0..n /\ ~(n < n)  BY <1>1
      <3> QED  BY <3>1, <3>2
    <2>2. CASE T # {}
      <3> DEFINE m == Min(T)
      <3>1. T \subseteq Nat  BY <1>1
      <3>2. m \in T /\ \A x \in T : m <= x  BY <2>2, <3>1, FirstOf
      <3> HIDE DEF m
      <3>3. m \in 0..(n - 1) /\ ChunkOf(a + m) \notin Writable  BY <3>2
      <3>4. ASSUME NEW i \in 0..(m - 1) PROVE ChunkOf(a + i) \in Writable
        <4>1. i \in 0..(n - 1) /\ ~(m <= i)  BY <1>1, <3>3
        <4> QED  BY <3>2, <4>1
      <3>5. P(m) /\ m \in 0..n  BY <1>1, <3>3, <3>4
      <3> QED  BY <3>5
    <2> QED  BY <2>1, <2>2
  <1>3. BytesWritten(a, n) = CHOOSE l \in 0..n : P(l)  BY DEF BytesWritten
  <1> HIDE DEF P
  <1> QED  BY <1>2, <1>3

(* What was written is in the memory and in the cache; what was refused is   *)
(* in the cache only, and marked.                                            *)
LEMMA WriteThroughInv ==
  ASSUME GuestInv, NEW a, NEW n, Asked(a, n), NEW v \in Values, WriteThrough(a, n, v)
  PROVE  GuestInv'
  <1> DEFINE w == BytesWritten(a, n)
  <1>1. GuestTypeOK /\ OverlayKept /\ CachedIsSeen  BY DEF GuestInv
  <1>2. /\ ~imaginary /\ memory' = Patched(memory, a, w, v) /\ seen' = Patched(seen, a, w, v)
        /\ chunk_cache' = [c \in DOMAIN chunk_cache |-> Patched(chunk_cache[c], a, n, v)]
        /\ refused' = (refused \ (a..(a + w - 1)))
                        \cup {b \in (a + w)..(a + n - 1) : ChunkOf(b) \in DOMAIN chunk_cache}
        /\ read' = NoRead /\ UNCHANGED <<active_count, imaginary>>
    BY DEF WriteThrough, RefusedAfter
  <1>3. /\ w \in 0..n /\ n \in Nat \ {0} /\ a \in Nat /\ a + n - 1 \in Addrs
    BY WrittenIs, AskedRange
  <1> HIDE DEF w
  <1>4. memory \in [Addrs -> Values] /\ seen \in [Addrs -> Values]  BY <1>1 DEF GuestTypeOK
  <1>5. memory' \in [Addrs -> Values] /\ seen' \in [Addrs -> Values]
    BY <1>2, <1>4, PatchedMemory
  <1>6. DOMAIN chunk_cache' = DOMAIN chunk_cache  BY <1>2
  <1>7. refused' \subseteq {b \in Addrs : ChunkOf(b) \in DOMAIN chunk_cache'}
    <2>1. \A b \in (a + w)..(a + n - 1) : b \in Addrs
      <3> SUFFICES ASSUME NEW b \in (a + w)..(a + n - 1) PROVE b \in Addrs  OBVIOUS
      <3>1. (b - a) + 1 \in 1..n /\ a + ((b - a) + 1) - 1 = b  BY <1>3
      <3> QED  BY <3>1, AskedRange
    <2>2. refused \subseteq {b \in Addrs : ChunkOf(b) \in DOMAIN chunk_cache}
      BY <1>1 DEF GuestTypeOK
    <2> QED  BY <1>2, <1>6, <2>1, <2>2
  <1>8. GuestTypeOK'  BY <1>1, <1>2, <1>5, <1>6, <1>7 DEF GuestTypeOK
  <1>9. \A b \in Addrs : seen'[b] = memory'[b]
    <2>1. \A b \in Addrs : seen[b] = memory[b]  BY <1>1, <1>2 DEF OverlayKept
    <2> QED  BY <1>2, <1>4, <2>1, PatchedMemory
  <1>10. OverlayKept'  BY <1>9 DEF OverlayKept
  <1>11. CachedIsSeen'
    <2> SUFFICES ASSUME NEW c \in DOMAIN chunk_cache
                 PROVE  /\ DOMAIN chunk_cache'[c] = {b \in Addrs : ChunkOf(b) = c}
                        /\ \A b \in DOMAIN chunk_cache'[c] \ refused' :
                             chunk_cache'[c][b] = seen'[b]
      BY <1>6 DEF CachedIsSeen
    <2> DEFINE f == chunk_cache[c]
    <2>1. DOMAIN f = {b \in Addrs : ChunkOf(b) = c} /\ \A b \in DOMAIN f \ refused : f[b] = seen[b]
      BY <1>1 DEF CachedIsSeen
    <2>2. chunk_cache'[c] = Patched(f, a, n, v)  BY <1>2
    <2> HIDE DEF f
    <2>3. /\ DOMAIN chunk_cache'[c] = DOMAIN f
          /\ \A b \in DOMAIN f :
               chunk_cache'[c][b] = IF b \in a..(a + n - 1) THEN v ELSE f[b]
      BY <2>2, PatchedChunk
    <2>4. ASSUME NEW b \in DOMAIN f, b \notin refused' PROVE chunk_cache'[c][b] = seen'[b]
      <3>1. b \in Addrs /\ ChunkOf(b) \in DOMAIN chunk_cache /\ b \in Nat
        BY <2>1, AddrChunks
      <3>2. seen'[b] = IF b \in a..(a + w - 1) THEN v ELSE seen[b]
        BY <1>2, <1>4, <3>1, PatchedMemory
      <3>3. CASE b \in a..(a + w - 1)
        <4>1. b \in a..(a + n - 1)  BY <1>3, <3>1, <3>3
        <4> QED  BY <2>3, <3>2, <3>3, <4>1
      <3>4. CASE b \notin a..(a + w - 1)
        <4>1. b \notin (a + w)..(a + n - 1)  BY <1>2, <2>4, <3>1
        <4>2. b \notin a..(a + n - 1)  BY <1>3, <3>1, <3>4, <4>1
        <4>3. b \notin refused  BY <1>2, <2>4, <3>4
        <4> QED  BY <2>1, <2>3, <3>2, <3>4, <4>2, <4>3
      <3> QED  BY <3>3, <3>4
    <2> QED  BY <2>1, <2>3, <2>4
  <1> QED  BY <1>2, <1>8, <1>10, <1>11, NothingRead DEF GuestInv

LEMMA WriteOverlayInv ==
  ASSUME GuestInv, NEW a, NEW n, Asked(a, n), NEW v \in Values, WriteOverlay(a, n, v)
  PROVE  GuestInv'
  <1> DEFINE k == CacheAfterRead(a, n)
             count == BytesRead(a, n)
  <1>1. GuestTypeOK /\ OverlayKept /\ CachedIsSeen  BY DEF GuestInv
  <1>2. /\ imaginary /\ seen' = Patched(seen, a, count, v)
        /\ chunk_cache' = [c \in DOMAIN k |-> Patched(k[c], a, count, v)]
        /\ read' = NoRead /\ UNCHANGED <<memory, active_count, imaginary, refused>>
    BY DEF WriteOverlay
  <1>3. /\ DOMAIN k \subseteq Readable /\ DOMAIN chunk_cache \subseteq DOMAIN k
        /\ \A i \in 1..count : ChunkOf(a + i - 1) \in DOMAIN k
        /\ Shows(k)
    BY <1>1, AfterRead
  <1>4. count \in 0..n /\ n \in Nat \ {0} /\ a \in Nat
    <2>1. DOMAIN chunk_cache \subseteq Readable  BY <1>1 DEF GuestTypeOK
    <2> QED  BY <2>1, BytesReadIs, AskedRange
  <1> HIDE DEF k, count
  <1>5. seen \in [Addrs -> Values]  BY <1>1 DEF GuestTypeOK
  <1>6. /\ seen' \in [Addrs -> Values]
        /\ \A b \in Addrs : seen'[b] = IF b \in a..(a + count - 1) THEN v ELSE seen[b]
    BY <1>2, <1>5, PatchedMemory
  <1>7. DOMAIN chunk_cache' = DOMAIN k  BY <1>2
  <1>8. GuestTypeOK'
    <2>1. active_count # 0  BY <1>1, <1>2 DEF GuestTypeOK
    <2> QED  BY <1>1, <1>2, <1>3, <1>6, <1>7, <2>1 DEF GuestTypeOK
  <1>9. OverlayKept'
    <2> SUFFICES ASSUME NEW b \in Addrs, seen'[b] # memory[b] PROVE ChunkOf(b) \in DOMAIN k
      BY <1>2, <1>7 DEF OverlayKept
    <2>1. CASE b \in a..(a + count - 1)
      <3>1. (b - a) + 1 \in 1..count /\ a + ((b - a) + 1) - 1 = b  BY <1>4, <2>1
      <3>2. ChunkOf(a + ((b - a) + 1) - 1) \in DOMAIN k  BY <1>3, <3>1
      <3> QED  BY <3>1, <3>2
    <2>2. CASE b \notin a..(a + count - 1)
      <3>1. seen[b] # memory[b]  BY <1>6, <2>2
      <3>2. ChunkOf(b) \in DOMAIN chunk_cache  BY <1>1, <3>1 DEF OverlayKept
      <3> QED  BY <1>3, <3>2
    <2> QED  BY <2>1, <2>2
  <1>10. CachedIsSeen'
    <2> SUFFICES ASSUME NEW c \in DOMAIN k
                 PROVE  /\ DOMAIN chunk_cache'[c] = {b \in Addrs : ChunkOf(b) = c}
                        /\ \A b \in DOMAIN chunk_cache'[c] \ refused :
                             chunk_cache'[c][b] = seen'[b]
      BY <1>2, <1>7 DEF CachedIsSeen
    <2> DEFINE f == k[c]
    <2>1. DOMAIN f = {b \in Addrs : ChunkOf(b) = c} /\ \A b \in DOMAIN f \ refused : f[b] = seen[b]
      BY <1>3 DEF Shows
    <2>2. chunk_cache'[c] = Patched(f, a, count, v)  BY <1>2
    <2> HIDE DEF f
    <2>3. /\ DOMAIN chunk_cache'[c] = DOMAIN f
          /\ \A b \in DOMAIN f :
               chunk_cache'[c][b] = IF b \in a..(a + count - 1) THEN v ELSE f[b]
      BY <2>2, PatchedChunk
    <2> QED  BY <1>6, <2>1, <2>3
  <1> QED  BY <1>2, <1>8, <1>9, <1>10, NothingRead DEF GuestInv

(* Entering and leaving a block.                                             *)
LEMMA BlockInv == ASSUME GuestInv, Enter \/ Exit PROVE GuestInv'
  <1>1. GuestTypeOK /\ OverlayKept /\ CachedIsSeen  BY DEF GuestInv
  <1>2. read' = NoRead /\ UNCHANGED <<memory, imaginary, seen>>  BY DEF Enter, Exit
  <1>3. active_count \in 0..MaxActive /\ MaxActive \in Nat
    BY <1>1, GuestAssumption DEF GuestTypeOK
  <1>4. CASE Enter
    <2>1. /\ active_count' \in 0..MaxActive /\ active_count' > 0 /\ active_count' # 0
          /\ chunk_cache' = chunk_cache /\ refused' = refused
      BY <1>3, <1>4 DEF Enter
    <2>2. GuestTypeOK'  BY <1>1, <1>2, <2>1 DEF GuestTypeOK
    <2>3. OverlayKept' /\ CachedIsSeen'  BY <1>1, <1>2, <2>1 DEF OverlayKept, CachedIsSeen
    <2> QED  BY <1>2, <2>2, <2>3, NothingRead DEF GuestInv
  <1>5. CASE Exit
    <2>1. /\ active_count' = active_count - 1
          /\ chunk_cache' = (IF active_count' = 0 THEN <<>> ELSE chunk_cache)
          /\ refused' = (IF active_count' = 0 THEN {} ELSE refused)
          /\ imaginary => active_count > 1
          /\ active_count > 0
      <3>1. CASE imaginary  BY <1>3, <1>5, <3>1 DEF Exit
      <3>2. CASE ~imaginary  BY <1>3, <1>5, <3>2 DEF Exit
      <3> QED  BY <3>1, <3>2
    <2>2. active_count' \in 0..MaxActive /\ (imaginary => active_count' > 0 /\ active_count' # 0)
      BY <1>3, <2>1
    <2>3. CASE active_count' = 0
      <3>1. ~imaginary /\ DOMAIN chunk_cache' = {} /\ refused' = {}
        <4>1. chunk_cache' = <<>>  BY <2>1, <2>3
        <4>2. DOMAIN chunk_cache' = {}  BY <4>1
        <4>3. refused' = {}  BY <2>1, <2>3
        <4> QED  BY <2>2, <2>3, <4>2, <4>3
      <3>2. GuestTypeOK'  BY <1>1, <1>2, <2>2, <3>1 DEF GuestTypeOK
      <3>3. OverlayKept' /\ CachedIsSeen'  BY <1>1, <1>2, <3>1 DEF OverlayKept, CachedIsSeen
      <3> QED  BY <1>2, <3>2, <3>3, NothingRead DEF GuestInv
    <2>4. CASE active_count' # 0
      <3>1. chunk_cache' = chunk_cache /\ refused' = refused  BY <2>1, <2>4
      <3>2. GuestTypeOK'  BY <1>1, <1>2, <2>2, <2>4, <3>1 DEF GuestTypeOK
      <3>3. OverlayKept' /\ CachedIsSeen'  BY <1>1, <1>2, <3>1 DEF OverlayKept, CachedIsSeen
      <3> QED  BY <1>2, <3>2, <3>3, NothingRead DEF GuestInv
    <2> QED  BY <2>3, <2>4
  <1> QED  BY <1>4, <1>5

(* What a caller of CachingGuest reads is the memory with the caller's own   *)
(* changes, whichever chunks were cached, patched, dropped or never read and *)
(* whatever the guest refuses to write, but for the bytes of refused writes  *)
(* that the cache still shows; and in imaginary mode the changes stay on top *)
(* of a memory that never sees them (guest_access.py:71-140).                *)
THEOREM GuestInvariant == GuestSpec => []GuestInv
  <1>1. GuestInv /\ [GuestNext]_guestVars => GuestInv'
    <2> SUFFICES ASSUME GuestInv, [GuestNext]_guestVars PROVE GuestInv'  OBVIOUS
    <2>1. ASSUME NEW a \in Addrs, NEW n \in 1..(ChunkSize * Chunks - a), TryRead(a, n)
          PROVE  GuestInv'
      BY <2>1, TryReadInv DEF Asked
    <2>2. ASSUME NEW a \in Addrs, NEW n \in 1..(ChunkSize * Chunks - a), NEW v \in Values,
                 WriteThrough(a, n, v) \/ WriteOverlay(a, n, v)
          PROVE  GuestInv'
      BY <2>2, WriteThroughInv, WriteOverlayInv DEF Asked
    <2>3. CASE Enter \/ Exit  BY <2>3, BlockInv
    <2>4. CASE UNCHANGED guestVars
      BY <2>4 DEF guestVars, GuestInv, GuestTypeOK, ReadsAreTrue, OverlayKept, CachedIsSeen
    <2> QED  BY <2>1, <2>2, <2>3, <2>4 DEF GuestNext
  <1> QED  BY <1>1, GuestInitInv, PTL DEF GuestSpec

-----------------------------------------------------------------------------
(***************************************************************************)
(* The cache for every number of processes, threads and keys: both locks   *)
(* are held just where their scopes say, a process keeps nothing in memory *)
(* that is not in the file or about to be written, and get misses its own  *)
(* key only if another thread forgot the cache after the lock was given    *)
(* back.  For the last, the invariant says what the holder of the lock     *)
(* knows of the cache.                                                     *)
(***************************************************************************)
USE CacheAssumption DEF Nobody

(* Between forgetting and reading the cache is empty; from then on until the *)
(* lock is given back it has the key that is written.                        *)
HolderKnows ==
  \A t \in Getters :
    /\ place[t] = "reload" => cache[ProcOf[t]] = {}
    /\ place[t] \in {"write", "flush", "release"} => key[t] \in cache[ProcOf[t]]

CacheInv == CacheTypeOK /\ MemoryIsPersistent /\ HolderKnows /\ OnlyLappedRaise

(* What each part depends on.                                                *)
LEMMA KeepLocks ==
  ASSUME LocksHeld, UNCHANGED <<held, flock>>, NEW t \in Getters,
         \A u \in Getters \ {t} : place'[u] = place[u],
         place'[t] \in Places <=> place[t] \in Places,
         place'[t] \in {"load", "reload", "write", "unflock"}
           <=> place[t] \in {"load", "reload", "write", "unflock"}
  PROVE  LocksHeld'
  BY DEF LocksHeld

LEMMA KeepPersistent ==
  ASSUME MemoryIsPersistent, UNCHANGED <<cache, file>>, NEW t \in Getters,
         \A u \in Getters \ {t} : place'[u] = place[u] /\ key'[u] = key[u],
         place[t] \in {"write", "flush"} => place'[t] \in {"write", "flush"} /\ key'[t] = key[t]
  PROVE  MemoryIsPersistent'
  BY DEF MemoryIsPersistent

LEMMA KeepAnswers ==
  ASSUME HolderKnows, OnlyLappedRaise, UNCHANGED <<cache, lapped>>, NEW t \in Getters,
         \A u \in Getters \ {t} : place'[u] = place[u] /\ key'[u] = key[u],
         place'[t] \notin {"reload", "answer", "raised"},
         place'[t] \in {"write", "flush", "release"}
           => place[t] \in {"write", "flush", "release"} /\ key'[t] = key[t]
  PROVE  HolderKnows' /\ OnlyLappedRaise'
  BY DEF HolderKnows, OnlyLappedRaise

(* The file of earlier sessions, and nobody has started.                     *)
LEMMA CacheInitInv == CacheInit => CacheInv
  <1> SUFFICES ASSUME CacheInit PROVE CacheInv  OBVIOUS
  <1>1. file \in Seq(Keys)
    <2>1. PICK n \in 0..MaxOld : file \in [1..n -> Keys]  BY DEF CacheInit
    <2>2. n \in Nat  BY <2>1
    <2> QED  BY <2>1, <2>2, SeqDef
  <1>2. CacheTypes  BY <1>1 DEF CacheInit, CacheTypes, Spots, Places
  <1>3. LocksHeld  BY DEF CacheInit, LocksHeld, Places
  <1>4. \A t \in Getters : pos[t] <= Len(file)  BY <1>1, LenProperties DEF CacheInit
  <1>5. MemoryIsPersistent  BY DEF CacheInit, MemoryIsPersistent
  <1>6. HolderKnows /\ OnlyLappedRaise  BY DEF CacheInit, HolderKnows, OnlyLappedRaise
  <1> QED  BY <1>2, <1>3, <1>4, <1>5, <1>6 DEF CacheInv, CacheTypeOK

(* The parts, for use in the steps.                                          *)
LEMMA CacheParts ==
  ASSUME CacheInv
  PROVE  /\ CacheTypes /\ LocksHeld /\ MemoryIsPersistent /\ HolderKnows /\ OnlyLappedRaise
         /\ file \in Seq(Keys) /\ flock \in Getters \cup {Nobody}
         /\ held \in [Procs -> Getters \cup {Nobody}] /\ cache \in [Procs -> SUBSET Keys]
         /\ place \in [Getters -> Spots]
         /\ key \in [Getters -> Keys] /\ pos \in [Getters -> Nat]
         /\ lapped \in [Getters -> BOOLEAN]
         /\ \A t \in Getters : pos[t] <= Len(file)
  BY DEF CacheInv, CacheTypeOK, CacheTypes

(* A step of one thread from one place to another.                           *)
LEMMA Moved ==
  ASSUME NEW t \in Getters, NEW from, NEW to, Go(t, from, to),
         place \in [Getters -> Spots], to \in Spots
  PROVE  /\ place[t] = from /\ place'[t] = to
         /\ place' \in [Getters -> Spots]
         /\ \A u \in Getters \ {t} : place'[u] = place[u]
  BY DEF Go

(* What a file is read into is in it.                                        *)
LEMMA FileRange == ASSUME CacheInv PROVE Range(file) \subseteq Keys
  <1>1. file \in Seq(Keys)  BY CacheParts
  <1> QED  BY <1>1 DEF Range

(* __init__: no thread of the process is in get yet.                         *)
LEMMA StartIInv == ASSUME CacheInv, NEW p \in Procs, Start(p) PROVE CacheInv'
  <1>1. /\ UNCHANGED <<file, flock, held, key, pos, lapped>>
        /\ cache' = [cache EXCEPT ![p] = Range(file)]
        /\ place' = [t \in Getters |-> IF ProcOf[t] = p THEN "idle" ELSE place[t]]
        /\ \A t \in Getters : ProcOf[t] = p => place[t] = "new"
    BY DEF Start
  <1>2. /\ \A t \in Getters : ProcOf[t] = p => place[t] = "new" /\ place'[t] = "idle"
        /\ \A t \in Getters : ProcOf[t] # p => place'[t] = place[t]
        /\ place' \in [Getters -> Spots]
    BY <1>1, CacheParts DEF Spots
  <1>3. /\ cache' \in [Procs -> SUBSET Keys] /\ cache'[p] = Range(file)
        /\ \A q \in Procs \ {p} : cache'[q] = cache[q]
    BY <1>1, CacheParts, FileRange
  <1>4. CacheTypes'  BY <1>1, <1>2, <1>3, CacheParts DEF CacheTypes
  <1>5. LocksHeld'  BY <1>1, <1>2, CacheParts DEF LocksHeld, Places
  <1>6. MemoryIsPersistent'
    <2> SUFFICES ASSUME NEW q \in Procs, NEW k \in cache'[q], k \notin Range(file)
                 PROVE  \E u \in Getters : ProcOf[u] = q /\ place'[u] \in {"write", "flush"}
                                             /\ key'[u] = k
      BY <1>1 DEF MemoryIsPersistent
    <2>1. q # p /\ k \in cache[q]  BY <1>3
    <2>2. PICK u \in Getters : ProcOf[u] = q /\ place[u] \in {"write", "flush"} /\ key[u] = k
      BY <2>1, CacheParts DEF MemoryIsPersistent
    <2> QED  BY <1>1, <1>2, <2>1, <2>2
  <1>7. HolderKnows' /\ OnlyLappedRaise'
    BY <1>1, <1>2, <1>3, CacheParts DEF HolderKnows, OnlyLappedRaise
  <1> QED  BY <1>1, <1>4, <1>5, <1>6, <1>7, CacheParts DEF CacheInv, CacheTypeOK

LEMMA LookIInv == ASSUME CacheInv, NEW t \in Getters, NEW k \in Keys, Look(t, k) PROVE CacheInv'
  <1>1. /\ place[t] \in {"idle", "raised"} /\ place'[t] \in {"idle", "compute"}
        /\ place' \in [Getters -> Spots]
        /\ \A u \in Getters \ {t} : place'[u] = place[u]
    BY CacheParts DEF Look, Spots
  <1>2. /\ UNCHANGED <<file, flock, held, cache, pos, lapped>> /\ key' \in [Getters -> Keys]
        /\ \A u \in Getters \ {t} : key'[u] = key[u]
    BY CacheParts DEF Look
  <1>3. CacheTypes'  BY <1>1, <1>2, CacheParts DEF CacheTypes
  <1>4. LocksHeld'  BY <1>1, <1>2, CacheParts, KeepLocks DEF Places
  <1>5. MemoryIsPersistent'  BY <1>1, <1>2, CacheParts, KeepPersistent
  <1>6. HolderKnows' /\ OnlyLappedRaise'  BY <1>1, <1>2, CacheParts, KeepAnswers
  <1> QED  BY <1>2, <1>3, <1>4, <1>5, <1>6, CacheParts DEF CacheInv, CacheTypeOK

LEMMA RelookIInv == ASSUME CacheInv, NEW t \in Getters, Relook(t) PROVE CacheInv'
  <1>1. UNCHANGED <<file, flock, cache, key, pos, lapped>> /\ held[ProcOf[t]] = Nobody  BY DEF Relook
  <1>2. CASE key[t] \in cache[ProcOf[t]]
    <2>1. Go(t, "compute", "idle") /\ held' = held  BY <1>2 DEF Relook
    <2>2. /\ place[t] = "compute" /\ place'[t] = "idle"
          /\ place' \in [Getters -> Spots]
          /\ \A u \in Getters \ {t} : place'[u] = place[u]
      BY <2>1, CacheParts, Moved DEF Spots
    <2>3. CacheTypes'  BY <1>1, <2>1, <2>2, CacheParts DEF CacheTypes
    <2>4. LocksHeld'  BY <1>1, <2>1, <2>2, CacheParts, KeepLocks DEF Places
    <2>5. MemoryIsPersistent'  BY <1>1, <2>2, CacheParts, KeepPersistent
    <2>6. HolderKnows' /\ OnlyLappedRaise'  BY <1>1, <2>2, CacheParts, KeepAnswers
    <2> QED  BY <1>1, <2>3, <2>4, <2>5, <2>6, CacheParts DEF CacheInv, CacheTypeOK
  <1>3. CASE key[t] \notin cache[ProcOf[t]]
    <2>1. Go(t, "compute", "open") /\ held' = [held EXCEPT ![ProcOf[t]] = t]
      BY <1>3 DEF Relook
    <2>2. /\ place[t] = "compute" /\ place'[t] = "open"
          /\ place' \in [Getters -> Spots]
          /\ \A u \in Getters \ {t} : place'[u] = place[u]
      BY <2>1, CacheParts, Moved DEF Spots, Places
    <2>3. /\ held' \in [Procs -> Getters \cup {Nobody}] /\ held'[ProcOf[t]] = t
          /\ \A q \in Procs \ {ProcOf[t]} : held'[q] = held[q]
      BY <2>1, CacheParts
    <2>4. CacheTypes'  BY <1>1, <2>2, <2>3, CacheParts DEF CacheTypes
    <2>5. LocksHeld'  BY <1>1, <2>2, <2>3, CacheParts DEF LocksHeld, Places
    <2>6. MemoryIsPersistent'  BY <1>1, <2>2, CacheParts, KeepPersistent
    <2>7. HolderKnows' /\ OnlyLappedRaise'  BY <1>1, <2>2, CacheParts, KeepAnswers
    <2> QED  BY <1>1, <2>4, <2>5, <2>6, <2>7, CacheParts DEF CacheInv, CacheTypeOK
  <1> QED  BY <1>2, <1>3

LEMMA OpenIInv == ASSUME CacheInv, NEW t \in Getters, Open(t) PROVE CacheInv'
  <1>1. /\ UNCHANGED <<file, flock, held, cache, key, lapped>> /\ Go(t, "open", "flock")
        /\ pos' = [pos EXCEPT ![t] = Len(file)]
    BY DEF Open
  <1>2. /\ place[t] = "open" /\ place'[t] = "flock"
        /\ place' \in [Getters -> Spots]
        /\ \A u \in Getters \ {t} : place'[u] = place[u]
    BY <1>1, CacheParts, Moved DEF Spots, Places
  <1>3. Len(file) \in Nat  BY CacheParts
  <1>4. pos' \in [Getters -> Nat] /\ \A u \in Getters : pos'[u] <= Len(file')
    BY <1>1, <1>3, CacheParts
  <1>5. CacheTypes'  BY <1>1, <1>2, <1>4, CacheParts DEF CacheTypes
  <1>6. LocksHeld'  BY <1>1, <1>2, CacheParts, KeepLocks DEF Places
  <1>7. MemoryIsPersistent'  BY <1>1, <1>2, CacheParts, KeepPersistent
  <1>8. HolderKnows' /\ OnlyLappedRaise'  BY <1>1, <1>2, CacheParts, KeepAnswers
  <1> QED  BY <1>4, <1>5, <1>6, <1>7, <1>8 DEF CacheInv, CacheTypeOK

LEMMA FlockIInv == ASSUME CacheInv, NEW t \in Getters, Flock(t) PROVE CacheInv'
  <1>1. /\ UNCHANGED <<file, held, cache, key, pos, lapped>> /\ Go(t, "flock", "load")
        /\ flock = Nobody /\ flock' = t
    BY DEF Flock
  <1>2. /\ place[t] = "flock" /\ place'[t] = "load"
        /\ place' \in [Getters -> Spots]
        /\ \A u \in Getters \ {t} : place'[u] = place[u]
    BY <1>1, CacheParts, Moved DEF Spots, Places
  <1>3. CacheTypes'  BY <1>1, <1>2, CacheParts DEF CacheTypes
  <1>4. LocksHeld'  BY <1>1, <1>2, CacheParts DEF LocksHeld, Places
  <1>5. MemoryIsPersistent'  BY <1>1, <1>2, CacheParts, KeepPersistent
  <1>6. HolderKnows' /\ OnlyLappedRaise'  BY <1>1, <1>2, CacheParts, KeepAnswers
  <1> QED  BY <1>1, <1>3, <1>4, <1>5, <1>6, CacheParts DEF CacheInv, CacheTypeOK

(* Who is overtaken is marked; who writes holds the lock, and is not.        *)
LEMMA ForgetIInv == ASSUME CacheInv, NEW t \in Getters, Forget(t) PROVE CacheInv'
  <1>1. /\ UNCHANGED <<file, flock, held, key, pos>> /\ Go(t, "load", "reload")
        /\ cache' = [cache EXCEPT ![ProcOf[t]] = {}]
        /\ lapped' = [u \in Getters |->
                       lapped[u] \/ (ProcOf[u] = ProcOf[t] /\ place[u] = "answer")]
    BY DEF Forget
  <1>2. /\ place[t] = "load" /\ place'[t] = "reload"
        /\ place' \in [Getters -> Spots]
        /\ \A u \in Getters \ {t} : place'[u] = place[u]
    BY <1>1, CacheParts, Moved DEF Spots, Places
  <1>3. /\ cache' \in [Procs -> SUBSET Keys] /\ cache'[ProcOf[t]] = {}
        /\ \A q \in Procs \ {ProcOf[t]} : cache'[q] = cache[q]
    BY <1>1, CacheParts
  <1>4. /\ lapped' \in [Getters -> BOOLEAN]
        /\ \A u \in Getters : lapped[u] => lapped'[u]
        /\ \A u \in Getters : ProcOf[u] = ProcOf[t] /\ place[u] = "answer" => lapped'[u]
    BY <1>1, CacheParts
  <1>5. CacheTypes'  BY <1>1, <1>2, <1>3, <1>4, CacheParts DEF CacheTypes
  <1>6. LocksHeld'  BY <1>1, <1>2, CacheParts, KeepLocks DEF Places
  <1>7. MemoryIsPersistent'
    <2> SUFFICES ASSUME NEW q \in Procs, NEW k \in cache'[q], k \notin Range(file)
                 PROVE  \E u \in Getters : ProcOf[u] = q /\ place'[u] \in {"write", "flush"}
                                             /\ key'[u] = k
      BY <1>1 DEF MemoryIsPersistent
    <2>1. q # ProcOf[t] /\ k \in cache[q]  BY <1>3
    <2>2. PICK u \in Getters : ProcOf[u] = q /\ place[u] \in {"write", "flush"} /\ key[u] = k
      BY <2>1, CacheParts DEF MemoryIsPersistent
    <2> QED  BY <1>1, <1>2, <2>1, <2>2
  <1>8. \A u \in Getters \ {t} : ProcOf[u] = ProcOf[t] => place[u] \notin Places
    <2>1. held[ProcOf[t]] = t  BY <1>2, CacheParts DEF LocksHeld, Places
    <2> QED  BY <2>1, CacheParts DEF LocksHeld
  <1>9. HolderKnows'
    <2> SUFFICES ASSUME NEW u \in Getters
                 PROVE  /\ place'[u] = "reload" => cache'[ProcOf[u]] = {}
                        /\ place'[u] \in {"write", "flush", "release"}
                             => key'[u] \in cache'[ProcOf[u]]
      BY DEF HolderKnows
    <2>1. CASE u = t  BY <1>2, <1>3, <2>1
    <2>2. CASE u # t /\ ProcOf[u] = ProcOf[t]  BY <1>2, <1>8, <2>2 DEF Places
    <2>3. CASE ProcOf[u] # ProcOf[t]
      BY <1>1, <1>2, <1>3, <2>3, CacheParts DEF HolderKnows
    <2> QED  BY <2>1, <2>2, <2>3
  <1>10. OnlyLappedRaise'
    <2> SUFFICES ASSUME NEW u \in Getters, place'[u] \in {"answer", "raised"}, ~lapped'[u]
                 PROVE  place'[u] = "answer" /\ key'[u] \in cache'[ProcOf[u]]
      BY DEF OnlyLappedRaise
    <2>1. u # t /\ place'[u] = place[u] /\ ~lapped[u]  BY <1>2, <1>4
    <2>2. place[u] = "answer" /\ key[u] \in cache[ProcOf[u]]
      BY <2>1, CacheParts DEF OnlyLappedRaise
    <2>3. ProcOf[u] # ProcOf[t]  BY <1>4, <2>2
    <2> QED  BY <1>1, <1>3, <2>1, <2>2, <2>3
  <1> QED  BY <1>1, <1>5, <1>6, <1>7, <1>9, <1>10, CacheParts DEF CacheInv, CacheTypeOK

(* What load() leaves in memory is in the file, but for the thread's key.    *)
LEMMA LoadIInv == ASSUME CacheInv, NEW t \in Getters, Load(t) PROVE CacheInv'
  <1> DEFINE loaded == Range(SubSeq(file, pos[t] + 1, Len(file)))
  <1>1. /\ UNCHANGED <<file, flock, held, key, pos, lapped>>
        /\ cache' = [cache EXCEPT ![ProcOf[t]] = loaded \cup {key[t]}]
        /\ Go(t, "reload", IF key[t] \in loaded THEN "unflock" ELSE "write")
    BY DEF Load
  <1>2. loaded \subseteq Range(file)
    <2>1. file \in Seq(Keys) /\ pos[t] \in Nat  BY CacheParts
    <2> DEFINE m == pos[t] + 1  n == Len(file)  part == SubSeq(file, m, n)
    <2>2. m \in Nat \ {0} /\ n \in Nat /\ \A i \in m..n : file[i] \in Range(file)
      BY <2>1 DEF Range
    <2>3. part \in Seq(Range(file))  BY <2>2, SubSeqProperties
    <2>4. loaded = Range(part)  OBVIOUS
    <2> HIDE DEF part, loaded
    <2> QED  BY <2>3, <2>4 DEF Range
  <1>3. Range(file) \subseteq Keys  BY FileRange
  <1> HIDE DEF loaded
  <1>4. /\ place[t] = "reload" /\ place'[t] = (IF key[t] \in loaded THEN "unflock" ELSE "write")
        /\ place' \in [Getters -> Spots]
        /\ \A u \in Getters \ {t} : place'[u] = place[u]
    <2>1. (IF key[t] \in loaded THEN "unflock" ELSE "write") \in Spots
      BY DEF Spots, Places
    <2> QED  BY <1>1, <2>1, CacheParts, Moved
  <1>5. /\ cache' \in [Procs -> SUBSET Keys] /\ cache'[ProcOf[t]] = loaded \cup {key[t]}
        /\ \A q \in Procs \ {ProcOf[t]} : cache'[q] = cache[q]
    <2>1. loaded \cup {key[t]} \in SUBSET Keys  BY <1>2, <1>3, CacheParts
    <2> QED  BY <1>1, <2>1, CacheParts
  <1>6. CacheTypes'  BY <1>1, <1>4, <1>5, CacheParts DEF CacheTypes
  <1>7. LocksHeld'
    <2>1. place'[t] \in {"unflock", "write"}  BY <1>4
    <2> QED  BY <1>1, <1>4, <2>1, CacheParts, KeepLocks DEF Places
  <1>8. MemoryIsPersistent'
    <2> SUFFICES ASSUME NEW q \in Procs, NEW k \in cache'[q], k \notin Range(file)
                 PROVE  \E u \in Getters : ProcOf[u] = q /\ place'[u] \in {"write", "flush"}
                                             /\ key'[u] = k
      BY <1>1 DEF MemoryIsPersistent
    <2>1. CASE q = ProcOf[t]
      <3>1. k = key[t] /\ key[t] \notin loaded  BY <1>2, <1>5, <2>1
      <3> QED  BY <1>1, <1>4, <2>1, <3>1
    <2>2. CASE q # ProcOf[t]
      <3>1. k \in cache[q]  BY <1>5, <2>2
      <3>2. PICK u \in Getters : ProcOf[u] = q /\ place[u] \in {"write", "flush"} /\ key[u] = k
        BY <3>1, CacheParts DEF MemoryIsPersistent
      <3> QED  BY <1>1, <1>4, <2>2, <3>2
    <2> QED  BY <2>1, <2>2
  <1>9. \A u \in Getters \ {t} : ProcOf[u] = ProcOf[t] => place[u] \notin Places
    <2>1. held[ProcOf[t]] = t  BY <1>4, CacheParts DEF LocksHeld, Places
    <2> QED  BY <2>1, CacheParts DEF LocksHeld
  <1>10. HolderKnows'
    <2> SUFFICES ASSUME NEW u \in Getters
                 PROVE  /\ place'[u] = "reload" => cache'[ProcOf[u]] = {}
                        /\ place'[u] \in {"write", "flush", "release"}
                             => key'[u] \in cache'[ProcOf[u]]
      BY DEF HolderKnows
    <2>1. CASE u = t  BY <1>1, <1>4, <1>5, <2>1
    <2>2. CASE u # t /\ ProcOf[u] = ProcOf[t]  BY <1>4, <1>9, <2>2 DEF Places
    <2>3. CASE ProcOf[u] # ProcOf[t]
      BY <1>1, <1>4, <1>5, <2>3, CacheParts DEF HolderKnows
    <2> QED  BY <2>1, <2>2, <2>3
  <1>11. OnlyLappedRaise'
    <2> SUFFICES ASSUME NEW u \in Getters, place'[u] \in {"answer", "raised"}, ~lapped[u]
                 PROVE  place'[u] = "answer" /\ key[u] \in cache'[ProcOf[u]]
      BY <1>1 DEF OnlyLappedRaise
    <2>1. u # t /\ place'[u] = place[u]  BY <1>4
    <2>2. place[u] = "answer" /\ key[u] \in cache[ProcOf[u]]
      BY <2>1, CacheParts DEF OnlyLappedRaise
    <2>3. cache[ProcOf[t]] = {}  BY <1>4, CacheParts DEF HolderKnows
    <2> QED  BY <1>5, <2>1, <2>2, <2>3
  <1> QED  BY <1>1, <1>6, <1>7, <1>8, <1>10, <1>11, CacheParts DEF CacheInv, CacheTypeOK

LEMMA UnflockIInv == ASSUME CacheInv, NEW t \in Getters, Unflock(t) PROVE CacheInv'
  <1>1. UNCHANGED <<file, held, cache, key, pos, lapped>> /\ flock' = Nobody  BY DEF Unflock
  <1>2. /\ \/ place[t] = "unflock" /\ place'[t] = "close"
           \/ place[t] = "write" /\ place'[t] = "flush"
        /\ place' \in [Getters -> Spots]
        /\ \A u \in Getters \ {t} : place'[u] = place[u]
    <2>1. CASE Go(t, "unflock", "close")  BY <2>1, CacheParts, Moved DEF Spots, Places
    <2>2. CASE Go(t, "write", "flush")  BY <2>2, CacheParts, Moved DEF Spots, Places
    <2> QED  BY <2>1, <2>2 DEF Unflock
  <1>3. CacheTypes'  BY <1>1, <1>2, CacheParts DEF CacheTypes
  <1>4. LocksHeld'  BY <1>1, <1>2, CacheParts DEF LocksHeld, Places
  <1>5. MemoryIsPersistent'  BY <1>1, <1>2, CacheParts, KeepPersistent
  <1>6. HolderKnows' /\ OnlyLappedRaise'  BY <1>1, <1>2, CacheParts, KeepAnswers
  <1> QED  BY <1>1, <1>3, <1>4, <1>5, <1>6, CacheParts DEF CacheInv, CacheTypeOK

LEMMA FlushIInv == ASSUME CacheInv, NEW t \in Getters, Flush(t) PROVE CacheInv'
  <1>1. /\ UNCHANGED <<flock, held, cache, key, pos, lapped>> /\ Go(t, "flush", "release")
        /\ file' = Append(file, key[t])
    BY DEF Flush
  <1>2. /\ place[t] = "flush" /\ place'[t] = "release"
        /\ place' \in [Getters -> Spots]
        /\ \A u \in Getters \ {t} : place'[u] = place[u]
    BY <1>1, CacheParts, Moved DEF Spots, Places
  <1>3. file' \in Seq(Keys) /\ Len(file') = Len(file) + 1 /\ Len(file) \in Nat
    BY <1>1, CacheParts
  <1>4. Range(file) \subseteq Range(file') /\ key[t] \in Range(file')
    <2>1. file \in Seq(Keys) /\ key[t] \in Keys  BY CacheParts
    <2>2. /\ \A i \in DOMAIN file : i \in DOMAIN file' /\ file'[i] = file[i]
          /\ Len(file) + 1 \in DOMAIN file' /\ file'[Len(file) + 1] = key[t]
      BY <1>1, <2>1
    <2> QED  BY <2>2 DEF Range
  <1>5. CacheTypes'  BY <1>1, <1>2, <1>3, CacheParts DEF CacheTypes
  <1>6. LocksHeld'  BY <1>1, <1>2, CacheParts, KeepLocks DEF Places
  <1>7. \A u \in Getters : pos'[u] <= Len(file')  BY <1>1, <1>3, CacheParts
  <1>8. MemoryIsPersistent'
    <2> SUFFICES ASSUME NEW q \in Procs, NEW k \in cache[q], k \notin Range(file')
                 PROVE  \E u \in Getters : ProcOf[u] = q /\ place'[u] \in {"write", "flush"}
                                             /\ key'[u] = k
      BY <1>1 DEF MemoryIsPersistent
    <2>1. PICK u \in Getters : ProcOf[u] = q /\ place[u] \in {"write", "flush"} /\ key[u] = k
      BY <1>4, CacheParts DEF MemoryIsPersistent
    <2>2. u # t  BY <1>4, <2>1
    <2> QED  BY <1>1, <1>2, <2>1, <2>2
  <1>9. HolderKnows' /\ OnlyLappedRaise'  BY <1>1, <1>2, CacheParts, KeepAnswers
  <1> QED  BY <1>5, <1>6, <1>7, <1>8, <1>9 DEF CacheInv, CacheTypeOK

(* Whoever leaves the lock to fetch its value has its key in the cache.      *)
LEMMA ReleaseIInv == ASSUME CacheInv, NEW t \in Getters, Release(t) PROVE CacheInv'
  <1>1. /\ UNCHANGED <<file, flock, cache, key, pos>>
        /\ held' = [held EXCEPT ![ProcOf[t]] = Nobody]
        /\ lapped' = [lapped EXCEPT ![t] = FALSE]
    BY DEF Release
  <1>2. /\ \/ place[t] = "close" /\ place'[t] = "idle"
           \/ place[t] = "release" /\ place'[t] = "answer"
        /\ place' \in [Getters -> Spots]
        /\ \A u \in Getters \ {t} : place'[u] = place[u]
    <2>1. CASE Go(t, "close", "idle")  BY <2>1, CacheParts, Moved DEF Spots
    <2>2. CASE Go(t, "release", "answer")  BY <2>2, CacheParts, Moved DEF Spots
    <2> QED  BY <2>1, <2>2 DEF Release
  <1>3. /\ held' \in [Procs -> Getters \cup {Nobody}] /\ held'[ProcOf[t]] = Nobody
        /\ \A q \in Procs \ {ProcOf[t]} : held'[q] = held[q]
    BY <1>1, CacheParts
  <1>4. /\ lapped' \in [Getters -> BOOLEAN]
        /\ \A u \in Getters \ {t} : lapped'[u] = lapped[u]
    BY <1>1, CacheParts
  <1>5. CacheTypes'  BY <1>1, <1>2, <1>3, <1>4, CacheParts DEF CacheTypes
  <1>6. LocksHeld'
    <2>1. held[ProcOf[t]] = t  BY <1>2, CacheParts DEF LocksHeld, Places
    <2> QED  BY <1>1, <1>2, <1>3, <2>1, CacheParts DEF LocksHeld, Places
  <1>7. MemoryIsPersistent'  BY <1>1, <1>2, CacheParts, KeepPersistent
  <1>8. HolderKnows'  BY <1>1, <1>2, CacheParts DEF HolderKnows
  <1>9. OnlyLappedRaise'
    <2> SUFFICES ASSUME NEW u \in Getters, place'[u] \in {"answer", "raised"}, ~lapped'[u]
                 PROVE  place'[u] = "answer" /\ key[u] \in cache[ProcOf[u]]
      BY <1>1 DEF OnlyLappedRaise
    <2>1. CASE u = t  BY <1>2, <2>1, CacheParts DEF HolderKnows
    <2>2. CASE u # t  BY <1>2, <1>4, <2>2, CacheParts DEF OnlyLappedRaise
    <2> QED  BY <2>1, <2>2
  <1> QED  BY <1>1, <1>5, <1>6, <1>7, <1>8, <1>9, CacheParts DEF CacheInv, CacheTypeOK

LEMMA ReturnIInv == ASSUME CacheInv, NEW t \in Getters, Return(t) PROVE CacheInv'
  <1>1. /\ UNCHANGED <<file, flock, held, cache, key, pos, lapped>>
        /\ Go(t, "answer", IF key[t] \in cache[ProcOf[t]] THEN "idle" ELSE "raised")
    BY DEF Return
  <1>2. /\ place[t] = "answer"
        /\ place'[t] = (IF key[t] \in cache[ProcOf[t]] THEN "idle" ELSE "raised")
        /\ place' \in [Getters -> Spots]
        /\ \A u \in Getters \ {t} : place'[u] = place[u]
    <2>1. (IF key[t] \in cache[ProcOf[t]] THEN "idle" ELSE "raised") \in Spots  BY DEF Spots
    <2> QED  BY <1>1, <2>1, CacheParts, Moved
  <1>3. place'[t] \in {"idle", "raised"}  BY <1>2
  <1>4. CacheTypes'  BY <1>1, <1>2, CacheParts DEF CacheTypes
  <1>5. LocksHeld'  BY <1>1, <1>2, <1>3, CacheParts, KeepLocks DEF Places
  <1>6. MemoryIsPersistent'  BY <1>1, <1>2, CacheParts, KeepPersistent
  <1>7. HolderKnows'  BY <1>1, <1>2, <1>3, CacheParts DEF HolderKnows
  <1>8. OnlyLappedRaise'
    <2> SUFFICES ASSUME NEW u \in Getters, place'[u] \in {"answer", "raised"}, ~lapped[u]
                 PROVE  place'[u] = "answer" /\ key[u] \in cache[ProcOf[u]]
      BY <1>1 DEF OnlyLappedRaise
    <2>1. CASE u = t
      <3>1. key[t] \in cache[ProcOf[t]]  BY <1>2, <2>1, CacheParts DEF OnlyLappedRaise
      <3> QED  BY <1>2, <2>1, <3>1
    <2>2. CASE u # t  BY <1>2, <2>2, CacheParts DEF OnlyLappedRaise
    <2> QED  BY <2>1, <2>2
  <1> QED  BY <1>1, <1>4, <1>5, <1>6, <1>7, <1>8, CacheParts DEF CacheInv, CacheTypeOK

LEMMA CacheStepInv == CacheInv /\ [CacheNext]_cacheVars => CacheInv'
  <1> SUFFICES ASSUME CacheInv, [CacheNext]_cacheVars PROVE CacheInv'  OBVIOUS
  <1>1. CASE UNCHANGED cacheVars
    BY <1>1 DEF CacheInv, CacheTypeOK, CacheTypes, LocksHeld, MemoryIsPersistent, HolderKnows,
                OnlyLappedRaise, cacheVars
  <1>2. ASSUME NEW t \in Getters, Steps(t) PROVE CacheInv'
    BY <1>2, RelookIInv, OpenIInv, FlockIInv, ForgetIInv, LoadIInv, UnflockIInv, FlushIInv,
       ReleaseIInv, ReturnIInv DEF Steps
  <1> QED  BY <1>1, <1>2, StartIInv, LookIInv DEF CacheNext

LEMMA CacheInvariant == CacheSpec => []CacheInv
  BY CacheInitInv, CacheStepInv, PTL DEF CacheSpec

(* Types, and that "with self.lock" and the flock are held exactly in their  *)
(* scopes (guest_access.py:156-188), for every number of threads.            *)
THEOREM CacheTypeCorrect == CacheSpec => []CacheTypeOK
  <1>1. CacheInv => CacheTypeOK  BY DEF CacheInv
  <1> QED  BY <1>1, CacheInvariant, PTL

(* No process answers from memory what is not in the file or being written   *)
(* (guest_access.py:176-187), whichever processes share it.                  *)
THEOREM NothingOnlyInMemory == CacheSpec => []MemoryIsPersistent
  <1>1. CacheInv => MemoryIsPersistent  BY DEF CacheInv
  <1> QED  BY <1>1, CacheInvariant, PTL

(* get's last line, which reads the cache without the lock                   *)
(* (guest_access.py:188), finds the key unless another thread of the process *)
(* forgot the cache in between: nothing else takes the key away.             *)
THEOREM KeyErrorOnlyIfLapped == CacheSpec => []OnlyLappedRaise
  <1>1. CacheInv => OnlyLappedRaise  BY DEF CacheInv
  <1> QED  BY <1>1, CacheInvariant, PTL

-----------------------------------------------------------------------------
(***************************************************************************)
(* The python connection for every number of callers and calls: the        *)
(* sending lock is held as its scope says, and no caller closes a          *)
(* connection that is open.  The invariant says which connections are      *)
(* closed for certain: those whose receiving thread has seen an exception, *)
(* and so those whose futures failed and whose callers are reconnecting.   *)
(***************************************************************************)
HIDE CacheAssumption DEF Nobody
USE PyRpcAssumption DEF Conns

LEMMA EmptySeqs == \A S : <<>> \in Seq(S)
  OBVIOUS

(* One open connection, nobody calling.                                     *)
LEMMA ConnInitIInv == Init => IInv
  <1> SUFFICES ASSUME Init PROVE IInv  OBVIOUS
  <1>1. fut \in [Threads -> [is : {"pending", "closed", "answer"}, of : Messages]]
    BY DEF Init, Future, Messages
  <1>2. \A t \in Threads : fut[t].is = "pending"  BY DEF Init, Future
  <1>3. Types
    <2>1. /\ requests \in [Conns -> Seq(Messages)] /\ answers \in [Conns -> Seq(Messages)]
          /\ queue \in [Conns -> Seq(Threads)]
      BY EmptySeqs DEF Init
    <2>2. /\ current \in Conns /\ ws \in [Conns -> {"none", "open", "closed"}]
          /\ shut \in [Conns -> BOOLEAN] /\ theExc \in [Conns -> BOOLEAN]
          /\ lock \in [Conns -> Threads \cup {None}]
          /\ recv \in [Conns -> {"recv", "get", "finally", "done"}]
          /\ resp \in [Conns -> Messages \cup {None}]
      BY DEF Init
    <2>3. /\ pc \in [Threads -> {"idle", "lock", "send", "put", "result", "connect"}]
          /\ on \in [Threads -> Conns] /\ attempt \in [Threads -> {1, 2}]
      BY DEF Init
    <2>4. calls \in [Threads -> 0..MaxCalls]  BY DEF Init
    <2>5. mispaired \in BOOLEAN  BY Zenon DEF Init
    <2> QED  BY <1>1, <2>1, <2>2, <2>3, <2>4, <2>5 DEF Types
  <1>4. Turns  BY DEF Init, Turns
  <1>5. LockHeld  BY DEF Init, LockHeld
  <1>6. Callers
    <2>1. current = 1 /\ \A t \in Threads : on[t] = 1 /\ pc[t] = "idle"  BY DEF Init
    <2>2. 1 <= 1  OBVIOUS
    <2>3. \A t \in Threads : on[t] <= current  BY <2>1, <2>2, Zenon
    <2> QED  BY <1>2, <2>1, <2>3, Zenon DEF Callers
  <1>7. Broken  BY DEF Init, Broken
  <1>8. Queued  BY DEF Init, Queued
  <1> QED  BY <1>3, <1>4, <1>5, <1>6, <1>7, <1>8 DEF IInv, TypeOK

(* What each part of the invariant depends on.                              *)
LEMMA KeepTurns == ASSUME Turns, UNCHANGED <<ws, current>> PROVE Turns'
  BY DEF Turns
LEMMA KeepLock == ASSUME LockHeld, UNCHANGED <<lock, pc, on>> PROVE LockHeld'
  BY DEF LockHeld
LEMMA KeepCallers ==
  ASSUME Callers, UNCHANGED <<ws, current, on, pc, fut>> PROVE Callers'
  BY DEF Callers
LEMMA KeepBroken == ASSUME Broken, UNCHANGED <<ws, theExc>> PROVE Broken'
  BY DEF Broken
LEMMA KeepQueued == ASSUME Queued, UNCHANGED <<queue, pc, on, fut>> PROVE Queued'
  BY DEF Queued

(* Requests and futures leave a queue from its front.                       *)
LEMMA FrontOfQueue ==
  ASSUME NEW S, NEW s \in Seq(S), s # <<>>
  PROVE  /\ Head(s) \in S /\ Tail(s) \in Seq(S)
         /\ 1 \in DOMAIN s /\ Head(s) = s[1]
         /\ \A i \in DOMAIN Tail(s) : i + 1 \in DOMAIN s /\ Tail(s)[i] = s[i + 1] /\ i + 1 # 1
  OBVIOUS

(* A future joins at the end.                                               *)
LEMMA EndOfQueue ==
  ASSUME NEW S, NEW s \in Seq(S), NEW e \in S
  PROVE  /\ Append(s, e) \in Seq(S)
         /\ \A i \in DOMAIN Append(s, e) :
              \/ i \in DOMAIN s /\ Append(s, e)[i] = s[i]
              \/ i = Len(s) + 1 /\ i \notin DOMAIN s /\ Append(s, e)[i] = e
  OBVIOUS

(* Steps of the server and of a receiving thread.                           *)
LEMMA AnswerIInv == ASSUME IInv, NEW k \in Conns, Answer(k) PROVE IInv'
  <1> USE DEF Answer, callVars, recvVars, connVars
  <1>1. Types /\ Turns /\ LockHeld /\ Callers /\ Broken /\ Queued
    BY DEF IInv, TypeOK
  <1>2. Types'
    <2>1. Head(requests[k]) \in Messages /\ Tail(requests[k]) \in Seq(Messages)
      BY <1>1, FrontOfQueue DEF Types
    <2>2. requests' \in [Conns -> Seq(Messages)]  BY <1>1, <2>1 DEF Types
    <2>3. answers' \in [Conns -> Seq(Messages)]  BY <1>1, <2>1 DEF Types
    <2> QED  BY <1>1, <2>2, <2>3 DEF Types
  <1>3. Turns'  BY <1>1, KeepTurns
  <1>4. LockHeld'  BY <1>1, KeepLock
  <1>5. Callers'  BY <1>1, KeepCallers
  <1>6. Broken'  BY <1>1, KeepBroken
  <1>7. Queued'  BY <1>1, KeepQueued
  <1> QED  BY <1>2, <1>3, <1>4, <1>5, <1>6, <1>7 DEF IInv, TypeOK

LEMMA ServerClosesIInv == ASSUME IInv, NEW k \in Conns, ServerCloses(k) PROVE IInv'
  <1> USE DEF ServerCloses, callVars, recvVars, connVars
  <1>1. Types /\ Turns /\ LockHeld /\ Callers /\ Broken /\ Queued
    BY DEF IInv, TypeOK
  <1>2. Types'
    <2>1. ws' \in [Conns -> {"none", "open", "closed"}]  BY <1>1 DEF Types
    <2>2. requests' \in [Conns -> Seq(Messages)]  BY <1>1 DEF Types
    <2> QED  BY <1>1, <2>1, <2>2 DEF Types
  <1>3. ws \in [Conns -> {"none", "open", "closed"}] /\ on \in [Threads -> Conns]
    BY <1>1 DEF Types
  <1>9. Turns'  BY <1>1, <1>3 DEF Turns
  <1>4. LockHeld'  BY <1>1, KeepLock
  <1>5. Callers'  BY <1>1, <1>3 DEF Callers
  <1>6. Broken'  BY <1>1, <1>3 DEF Broken
  <1>7. Queued'  BY <1>1, KeepQueued
  <1> QED  BY <1>2, <1>4, <1>5, <1>6, <1>7, <1>9 DEF IInv, TypeOK

LEMMA RecvAnswerIInv == ASSUME IInv, NEW k \in Conns, RecvAnswer(k) PROVE IInv'
  <1> USE DEF RecvAnswer, callVars, recvVars, connVars
  <1>1. Types /\ Turns /\ LockHeld /\ Callers /\ Broken /\ Queued
    BY DEF IInv, TypeOK
  <1>2. Types'
    <2>1. Head(answers[k]) \in Messages /\ Tail(answers[k]) \in Seq(Messages)
      BY <1>1, FrontOfQueue DEF Types
    <2>2. answers' \in [Conns -> Seq(Messages)]  BY <1>1, <2>1 DEF Types
    <2>3. resp' \in [Conns -> Messages \cup {None}]  BY <1>1, <2>1 DEF Types
    <2>4. recv' \in [Conns -> {"recv", "get", "finally", "done"}]  BY <1>1 DEF Types
    <2> QED  BY <1>1, <2>2, <2>3, <2>4 DEF Types
  <1>3. Turns'  BY <1>1, KeepTurns
  <1>4. LockHeld'  BY <1>1, KeepLock
  <1>5. Callers'  BY <1>1, KeepCallers
  <1>6. Broken'  BY <1>1, KeepBroken
  <1>7. Queued'  BY <1>1, KeepQueued
  <1> QED  BY <1>2, <1>3, <1>4, <1>5, <1>6, <1>7 DEF IInv, TypeOK

LEMMA RecvClosedIInv == ASSUME IInv, NEW k \in Conns, RecvClosed(k) PROVE IInv'
  <1> USE DEF RecvClosed, callVars, recvVars, connVars
  <1>1. Types /\ Turns /\ LockHeld /\ Callers /\ Broken /\ Queued
    BY DEF IInv, TypeOK
  <1>2. Types'  BY <1>1 DEF Types
  <1>3. Turns'  BY <1>1, KeepTurns
  <1>4. LockHeld'  BY <1>1, KeepLock
  <1>5. Callers'  BY <1>1, KeepCallers
  <1>6. Broken'
    <2>1. theExc \in [Conns -> BOOLEAN]  BY <1>1 DEF Types
    <2> QED  BY <1>1, <2>1 DEF Broken
  <1>7. Queued'  BY <1>1, KeepQueued
  <1> QED  BY <1>2, <1>3, <1>4, <1>5, <1>6, <1>7 DEF IInv, TypeOK

LEMMA GetFutureIInv == ASSUME IInv, NEW k \in Conns, GetFuture(k) PROVE IInv'
  <1> USE DEF GetFuture, callVars, recvVars, connVars
  <1>1. Types /\ Turns /\ LockHeld /\ Callers /\ Broken /\ Queued
    BY DEF IInv, TypeOK
  <1> DEFINE t == Head(queue[k])
  <1>8. /\ queue \in [Conns -> Seq(Threads)] /\ resp[k] \in Messages \cup {None}
        /\ fut \in [Threads -> [is : {"pending", "closed", "answer"}, of : Messages]]
        /\ recv \in [Conns -> {"recv", "get", "finally", "done"}]
    BY <1>1 DEF Types
  <1>9. ASSUME queue[k] # <<>>
        PROVE  /\ t \in Threads /\ queue' = [queue EXCEPT ![k] = Tail(@)]
               /\ queue' \in [Conns -> Seq(Threads)]
               /\ pc[t] = "result" /\ on[t] = k
               /\ \A i \in DOMAIN Tail(queue[k]) : Tail(queue[k])[i] # t
    <2>1. /\ t \in Threads /\ Tail(queue[k]) \in Seq(Threads)
          /\ 1 \in DOMAIN queue[k] /\ t = queue[k][1]
          /\ \A i \in DOMAIN Tail(queue[k]) :
               i + 1 \in DOMAIN queue[k] /\ Tail(queue[k])[i] = queue[k][i + 1] /\ i + 1 # 1
      BY <1>8, <1>9, FrontOfQueue
    <2>2. queue' = [queue EXCEPT ![k] = Tail(@)]  BY <1>9
    <2>3. pc[t] = "result" /\ on[t] = k  BY <1>1, <2>1 DEF Queued
    <2>4. \A i \in DOMAIN Tail(queue[k]) : Tail(queue[k])[i] # t
      BY <1>1, <2>1 DEF Queued
    <2> QED  BY <1>8, <2>1, <2>2, <2>3, <2>4
  <1>10. \/ fut' = fut
         \/ queue[k] # <<>> /\ fut' = [fut EXCEPT ![t] = Future("answer", resp[k])]
              /\ resp[k] \in Messages
    BY <1>8
  <1>2. Types'
    <2>1. queue' \in [Conns -> Seq(Threads)]  BY <1>8, <1>9
    <2>2. fut' \in [Threads -> [is : {"pending", "closed", "answer"}, of : Messages]]
      <3>1. resp[k] \in Messages =>
              Future("answer", resp[k]) \in [is : {"pending", "closed", "answer"}, of : Messages]
        BY DEF Future
      <3> QED  BY <1>8, <1>9, <1>10, <3>1
    <2>3. recv' \in [Conns -> {"recv", "get", "finally", "done"}]  BY <1>8
    <2>4. mispaired' \in BOOLEAN  BY <1>1, Zenon DEF Types
    <2> QED  BY <1>1, <2>1, <2>2, <2>3, <2>4 DEF Types
  <1>3. Turns'  BY <1>1, KeepTurns
  <1>4. LockHeld'  BY <1>1, KeepLock
  <1>5. Callers'
    <2>1. \A u \in Threads : fut'[u].is = fut[u].is \/ (pc[u] = "result" /\ fut'[u].is = "answer")
      <3>1. Future("answer", resp[k]).is = "answer"  BY DEF Future
      <3>2. CASE fut' = fut  BY <3>2
      <3>3. CASE queue[k] # <<>> /\ fut' = [fut EXCEPT ![t] = Future("answer", resp[k])]
        <4>1. t \in Threads /\ pc[t] = "result"  BY <3>3, <1>9
        <4>2. \A u \in Threads : u # t => fut'[u] = fut[u]  BY <3>3, <1>8
        <4>3. fut'[t] = Future("answer", resp[k])  BY <3>3, <1>8, <4>1
        <4> QED  BY <3>1, <4>1, <4>2, <4>3
      <3> QED  BY <1>10, <3>2, <3>3
    <2> QED  BY <1>1, <2>1 DEF Callers
  <1>6. Broken'  BY <1>1, KeepBroken
  <1>7. Queued'
    <2>1. ASSUME NEW c \in Conns, NEW i \in DOMAIN queue'[c]
          PROVE  \E j \in DOMAIN queue[c] :
                   queue'[c][i] = queue[c][j] /\ (queue[k] # <<>> => queue'[c][i] # t)
                     /\ j = (IF queue[k] # <<>> /\ c = k THEN i + 1 ELSE i)
      <3>1. CASE queue[k] = <<>>  BY <3>1, <2>1
      <3>2. CASE queue[k] # <<>> /\ c = k
        BY <3>2, <2>1, <1>8, <1>9, FrontOfQueue
      <3>3. CASE queue[k] # <<>> /\ c # k
        <4>1. queue'[c] = queue[c]  BY <3>3, <1>8, <1>9
        <4>2. on[queue[c][i]] = c  BY <4>1, <2>1, <1>1 DEF Queued
        <4> QED  BY <4>1, <4>2, <3>3, <1>9, <2>1
      <3> QED  BY <3>1, <3>2, <3>3
    <2>2. ASSUME NEW c \in Conns, NEW i \in DOMAIN queue'[c]
          PROVE  fut'[queue'[c][i]].is = "pending"
      <3>1. PICK j \in DOMAIN queue[c] :
              queue'[c][i] = queue[c][j] /\ (queue[k] # <<>> => queue'[c][i] # t)
        BY <2>1, <2>2
      <3>2. fut[queue[c][j]].is = "pending"  BY <1>1, <3>1 DEF Queued
      <3>3. queue[c][j] \in Threads  BY <1>8, <3>1
      <3> QED  BY <1>8, <1>10, <3>1, <3>2, <3>3
    <2>3. ASSUME NEW c \in Conns, NEW i \in DOMAIN queue'[c], NEW j \in DOMAIN queue'[c], i # j
          PROVE  queue'[c][i] # queue'[c][j]
      <3>1. queue'[c] \in Seq(Threads)  BY <1>8, <1>9
      <3>2. i \in Nat /\ j \in Nat  BY <2>3, <3>1
      <3> QED  BY <1>1, <2>1, <2>3, <3>2 DEF Queued
    <2> QED  BY <1>1, <2>1, <2>2, <2>3 DEF Queued
  <1> QED  BY <1>2, <1>3, <1>4, <1>5, <1>6, <1>7 DEF IInv, TypeOK

LEMMA FinallyIInv == ASSUME IInv, NEW k \in Conns, Finally(k) PROVE IInv'
  <1> USE DEF Finally, callVars, recvVars, connVars
  <1>1. Types /\ Turns /\ LockHeld /\ Callers /\ Broken /\ Queued
    BY DEF IInv, TypeOK
  <1>8. /\ queue \in [Conns -> Seq(Threads)]
        /\ fut \in [Threads -> [is : {"pending", "closed", "answer"}, of : Messages]]
        /\ calls \in [Threads -> 0..MaxCalls]
    BY <1>1 DEF Types
  <1>9. \A u \in Threads : \/ fut'[u] = fut[u]
                            \/ /\ theExc[k] /\ \E i \in DOMAIN queue[k] : queue[k][i] = u
                               /\ fut'[u].is = "closed"
    BY <1>8 DEF Future
  <1>2. Types'
    <2>1. queue' \in [Conns -> Seq(Threads)]
      <3>1. <<>> \in Seq(Threads)  BY EmptySeqs
      <3>2. queue' = queue \/ queue' = [queue EXCEPT ![k] = <<>>]  OBVIOUS
      <3> QED  BY <1>8, <3>1, <3>2
    <2>2. fut' \in [Threads -> [is : {"pending", "closed", "answer"}, of : Messages]]
      <3>1. \A u \in Threads :
              Future("closed", Me(u)) \in [is : {"pending", "closed", "answer"}, of : Messages]
        BY <1>8 DEF Future, Me, Messages
      <3>2. CASE theExc[k]
        <4>1. fut' = [u \in Threads |-> IF \E i \in DOMAIN queue[k] : queue[k][i] = u
                                         THEN Future("closed", Me(u)) ELSE fut[u]]
          BY <3>2
        <4>2. \A u \in Threads :
                fut[u] \in [is : {"pending", "closed", "answer"}, of : Messages]
          BY <1>8
        <4> QED  BY <3>1, <4>1, <4>2
      <3>3. CASE ~theExc[k]  BY <3>3, <1>8
      <3> QED  BY <3>2, <3>3
    <2>3. recv' \in [Conns -> {"recv", "get", "finally", "done"}] /\ shut' \in [Conns -> BOOLEAN]
      BY <1>1 DEF Types
    <2> QED  BY <1>1, <2>1, <2>2, <2>3 DEF Types
  <1>3. Turns'  BY <1>1, KeepTurns
  <1>4. LockHeld'  BY <1>1, KeepLock
  <1>5. Callers'
    <2>1. \A u \in Threads :
            fut'[u] = fut[u] \/ (pc[u] = "result" /\ ws[on[u]] = "closed")
      BY <1>1, <1>9 DEF Queued, Broken
    <2> QED  BY <1>1, <2>1 DEF Callers
  <1>6. Broken'  BY <1>1, KeepBroken
  <1>7. Queued'
    <2>1. ASSUME NEW c \in Conns, NEW i \in DOMAIN queue'[c]
          PROVE  /\ queue'[c] = queue[c]
                 /\ fut'[queue[c][i]] = fut[queue[c][i]]
      <3>1. queue'[c] = queue[c] /\ (theExc[k] => c # k)  BY <1>8, <2>1
      <3>2. on[queue[c][i]] = c  BY <1>1, <2>1, <3>1 DEF Queued
      <3>3. queue[c][i] \in Threads  BY <1>8, <2>1, <3>1
      <3>4. theExc[k] => \A j \in DOMAIN queue[k] : queue[k][j] # queue[c][i]
        BY <1>1, <3>1, <3>2 DEF Queued
      <3> QED  BY <1>9, <3>1, <3>3, <3>4
    <2> QED  BY <1>1, <2>1 DEF Queued
  <1> QED  BY <1>2, <1>3, <1>4, <1>5, <1>6, <1>7 DEF IInv, TypeOK

(* A step of one caller leaves the others' part of the invariant alone, and  *)
(* the queues, if it is not waiting in one.                                  *)
LEMMA OthersCalls ==
  ASSUME NEW t \in Threads, Callers, UNCHANGED <<ws, current>>,
         \A u \in Threads \ {t} : pc'[u] = pc[u] /\ on'[u] = on[u] /\ fut'[u] = fut[u],
         on'[t] <= current,
         pc'[t] \in {"send", "put"} => fut'[t].is = "pending",
         pc'[t] = "connect" \/ (pc'[t] = "result" /\ fut'[t].is = "closed")
           => ws[on'[t]] = "closed"
  PROVE  Callers'
  BY DEF Callers

LEMMA OthersQueued ==
  ASSUME NEW t \in Threads, Queued, queue \in [Conns -> Seq(Threads)], UNCHANGED queue,
         pc[t] # "result" \/ fut[t].is # "pending",
         \A u \in Threads \ {t} : pc'[u] = pc[u] /\ on'[u] = on[u] /\ fut'[u] = fut[u]
  PROVE  Queued'
  <1>1. ASSUME NEW k \in Conns, NEW i \in DOMAIN queue[k]
        PROVE  queue[k][i] \in Threads \ {t}
    BY <1>1 DEF Queued
  <1>2. ASSUME NEW k \in Conns, NEW i \in DOMAIN queue[k]
        PROVE  /\ pc'[queue[k][i]] = "result" /\ on'[queue[k][i]] = k
               /\ fut'[queue[k][i]].is = "pending"
               /\ \A j \in DOMAIN queue[k] : i # j => queue[k][i] # queue[k][j]
    <2>1. /\ pc[queue[k][i]] = "result" /\ on[queue[k][i]] = k
          /\ fut[queue[k][i]].is = "pending"
          /\ \A j \in DOMAIN queue[k] : i # j => queue[k][i] # queue[k][j]
      BY DEF Queued
    <2>2. queue[k][i] \in Threads \ {t}  BY <1>1
    <2> QED  BY <2>1, <2>2
  <1>3. queue' = queue  OBVIOUS
  <1> QED  BY <1>2, <1>3 DEF Queued

(* A caller that neither held nor takes a lock.                              *)
LEMMA OthersLock ==
  ASSUME NEW t \in Threads, LockHeld, UNCHANGED <<lock>>,
         pc[t] \notin {"send", "put"}, pc'[t] \notin {"send", "put"},
         \A u \in Threads \ {t} : pc'[u] = pc[u] /\ on'[u] = on[u]
  PROVE  LockHeld'
  BY DEF LockHeld

(* Steps of the callers.                                                     *)
LEMMA CallIInv == ASSUME IInv, NEW t \in Threads, Call(t) PROVE IInv'
  <1> USE DEF Call, callVars, recvVars, connVars
  <1>1. Types /\ Turns /\ LockHeld /\ Callers /\ Broken /\ Queued
    BY DEF IInv, TypeOK
  <1>2. /\ current \in Conns /\ queue \in [Conns -> Seq(Threads)] /\ on \in [Threads -> Conns]
        /\ pc \in [Threads -> {"idle", "lock", "send", "put", "result", "connect"}]
        /\ calls \in [Threads -> 0..MaxCalls] /\ attempt \in [Threads -> {1, 2}]
    BY <1>1 DEF Types
  <1>3. /\ pc[t] = "idle" /\ pc'[t] = "lock" /\ on'[t] = current
        /\ \A u \in Threads \ {t} : pc'[u] = pc[u] /\ on'[u] = on[u] /\ fut'[u] = fut[u]
    BY <1>2
  <1>4. Types'
    <2>1. calls' \in [Threads -> 0..MaxCalls]  BY <1>2
    <2>2. on' \in [Threads -> Conns] /\ attempt' \in [Threads -> {1, 2}]
          /\ pc' \in [Threads -> {"idle", "lock", "send", "put", "result", "connect"}]
      BY <1>2
    <2> QED  BY <1>1, <2>1, <2>2 DEF Types
  <1>5. Turns'  BY <1>1, KeepTurns
  <1>6. LockHeld'  BY <1>1, <1>3 DEF LockHeld
  <1>7. Callers'  BY <1>1, <1>2, <1>3, OthersCalls
  <1>8. Broken'  BY <1>1, KeepBroken
  <1>9. Queued'  BY <1>1, <1>2, <1>3, OthersQueued
  <1> QED  BY <1>4, <1>5, <1>6, <1>7, <1>8, <1>9 DEF IInv, TypeOK

LEMMA LockIInv == ASSUME IInv, NEW t \in Threads, Lock(t) PROVE IInv'
  <1> USE DEF Lock, callVars, recvVars, connVars
  <1>1. Types /\ Turns /\ LockHeld /\ Callers /\ Broken /\ Queued
    BY DEF IInv, TypeOK
  <1>2. /\ queue \in [Conns -> Seq(Threads)] /\ on \in [Threads -> Conns]
        /\ pc \in [Threads -> {"idle", "lock", "send", "put", "result", "connect"}]
        /\ calls \in [Threads -> 0..MaxCalls] /\ lock \in [Conns -> Threads \cup {None}]
        /\ fut \in [Threads -> [is : {"pending", "closed", "answer"}, of : Messages]]
    BY <1>1 DEF Types
  <1>3. Future("pending", Me(t)) \in [is : {"pending", "closed", "answer"}, of : Messages]
        /\ Future("pending", Me(t)).is = "pending"
    BY <1>2 DEF Future, Me, Messages
  <1>4. /\ pc[t] = "lock" /\ pc'[t] = "send" /\ on' = on /\ fut'[t].is = "pending"
        /\ \A u \in Threads \ {t} : pc'[u] = pc[u] /\ on'[u] = on[u] /\ fut'[u] = fut[u]
    BY <1>2, <1>3
  <1>5. Types'
    <2>1. lock' \in [Conns -> Threads \cup {None}]  BY <1>2
    <2>2. pc' \in [Threads -> {"idle", "lock", "send", "put", "result", "connect"}]
      BY <1>2
    <2>3. fut' \in [Threads -> [is : {"pending", "closed", "answer"}, of : Messages]]
      BY <1>2, <1>3
    <2> QED  BY <1>1, <2>1, <2>2, <2>3 DEF Types
  <1>6. Turns'  BY <1>1, KeepTurns
  <1>7. LockHeld'
    <2>1. /\ lock[on[t]] = None /\ lock'[on[t]] = t
          /\ \A c \in Conns : c # on[t] => lock'[c] = lock[c]
      BY <1>2
    <2> QED  BY <1>1, <1>2, <1>4, <2>1 DEF LockHeld
  <1>8. Callers'
    <2>1. on[t] <= current  BY <1>1 DEF Callers
    <2> QED  BY <1>1, <1>4, <2>1, OthersCalls
  <1>9. Broken'  BY <1>1, KeepBroken
  <1>10. Queued'  BY <1>1, <1>2, <1>4, OthersQueued
  <1> QED  BY <1>5, <1>6, <1>7, <1>8, <1>9, <1>10 DEF IInv, TypeOK

(* A call that ends, or is to be tried again.                                *)
LEMMA EndOfCall ==
  ASSUME NEW t \in Threads, NEW how, EndCall(t, how),
         pc \in [Threads -> {"idle", "lock", "send", "put", "result", "connect"}]
  PROVE  /\ pc' \in [Threads -> {"idle", "lock", "send", "put", "result", "connect"}]
         /\ pc'[t] = "idle" \/ (pc'[t] = "connect" /\ how = "closed")
         /\ \A u \in Threads \ {t} : pc'[u] = pc[u]
  BY DEF EndCall

(* A caller that is not sending lets go of the lock.                         *)
LEMMA LetGo ==
  ASSUME NEW t \in Threads, LockHeld, pc[t] \in {"send", "put"},
         on[t] \in Conns, lock \in [Conns -> Threads \cup {None}],
         lock' = [lock EXCEPT ![on[t]] = None], UNCHANGED on,
         pc'[t] \notin {"send", "put"}, \A u \in Threads \ {t} : pc'[u] = pc[u]
  PROVE  LockHeld' /\ lock' \in [Conns -> Threads \cup {None}]
  <1>1. /\ lock[on[t]] = t /\ lock'[on[t]] = None
        /\ \A c \in Conns : c # on[t] => lock'[c] = lock[c]
    BY DEF LockHeld
  <1> QED  BY <1>1 DEF LockHeld

LEMMA SendIInv == ASSUME IInv, NEW t \in Threads, Send(t) PROVE IInv'
  <1> USE DEF Send, callVars, recvVars, connVars
  <1>1. Types /\ Turns /\ LockHeld /\ Callers /\ Broken /\ Queued
    BY DEF IInv, TypeOK
  <1>2. /\ queue \in [Conns -> Seq(Threads)] /\ on \in [Threads -> Conns]
        /\ pc \in [Threads -> {"idle", "lock", "send", "put", "result", "connect"}]
        /\ calls \in [Threads -> 0..MaxCalls] /\ lock \in [Conns -> Threads \cup {None}]
        /\ requests \in [Conns -> Seq(Messages)]
        /\ ws \in [Conns -> {"none", "open", "closed"}] /\ pc[t] = "send"
    BY <1>1 DEF Types
  <1>3. on[t] <= current /\ on[t] \in Conns /\ fut[t].is = "pending"  BY <1>1, <1>2 DEF Callers
  <1>4. /\ pc' \in [Threads -> {"idle", "lock", "send", "put", "result", "connect"}]
        /\ \A u \in Threads \ {t} : pc'[u] = pc[u]
        /\ IF ws[on[t]] = "open" THEN pc'[t] = "put" ELSE pc'[t] \in {"idle", "connect"}
    <2>1. CASE ws[on[t]] = "open"
      <3>1. pc' = [pc EXCEPT ![t] = "put"]  BY <2>1
      <3> QED  BY <1>2, <2>1, <3>1
    <2>2. CASE ws[on[t]] # "open"
      <3>1. EndCall(t, "closed")  BY <2>2
      <3> QED  BY <1>2, <2>2, <3>1, EndOfCall
    <2> QED  BY <2>1, <2>2
  <1>5. lock' \in [Conns -> Threads \cup {None}] /\ LockHeld'
    <2>1. CASE ws[on[t]] = "open"
      <3>1. lock' = lock /\ on' = on /\ pc'[t] = "put"  BY <1>4, <2>1
      <3>2. \A u \in Threads : pc'[u] \in {"send", "put"} <=> pc[u] \in {"send", "put"}
        BY <1>2, <1>4, <3>1
      <3>3. LockHeld'  BY <1>1, <3>1, <3>2 DEF LockHeld
      <3> QED  BY <1>2, <3>1, <3>3
    <2>2. CASE ws[on[t]] # "open"
      <3>1. lock' = [lock EXCEPT ![on[t]] = None] /\ on' = on  BY <2>2
      <3> QED  BY <1>1, <1>2, <1>3, <1>4, <2>2, <3>1, LetGo
    <2> QED  BY <2>1, <2>2
  <1>6. requests' \in [Conns -> Seq(Messages)]
    <2>1. Me(t) \in Messages  BY <1>2 DEF Me, Messages
    <2>2. requests[on[t]] \in Seq(Messages)  BY <1>2, <1>3
    <2>3. Append(requests[on[t]], Me(t)) \in Seq(Messages)  BY <2>1, <2>2
    <2>4. \/ requests' = requests
          \/ requests' = [requests EXCEPT ![on[t]] = Append(requests[on[t]], Me(t))]
      OBVIOUS
    <2> QED  BY <1>2, <2>3, <2>4
  <1>7. Types'  BY <1>1, <1>4, <1>5, <1>6 DEF Types
  <1>8. Turns'  BY <1>1, KeepTurns
  <1>9. Callers'
    <2>1. pc'[t] = "connect" => ws[on[t]] = "closed"
      BY <1>1, <1>2, <1>3, <1>4 DEF Turns
    <2> QED  BY <1>1, <1>3, <1>4, <2>1, OthersCalls
  <1>10. Broken'  BY <1>1, KeepBroken
  <1>11. Queued'  BY <1>1, <1>2, <1>4, OthersQueued
  <1> QED  BY <1>5, <1>7, <1>8, <1>9, <1>10, <1>11 DEF IInv, TypeOK

LEMMA PutIInv == ASSUME IInv, NEW t \in Threads, Put(t) PROVE IInv'
  <1>0. /\ pc[t] = "put" /\ lock' = [lock EXCEPT ![on[t]] = None]
        /\ shut[on[t]] => EndCall(t, "shut down") /\ queue' = queue
        /\ ~shut[on[t]] => /\ queue' = [queue EXCEPT ![on[t]] = Append(queue[on[t]], t)]
                           /\ pc' = [pc EXCEPT ![t] = "result"]
        /\ UNCHANGED <<current, ws, requests, answers, shut, recv, resp, theExc, mispaired,
                       on, attempt, calls, fut>>
    BY DEF Put
  <1>1. Types /\ Turns /\ LockHeld /\ Callers /\ Broken /\ Queued
    BY DEF IInv, TypeOK
  <1>2. /\ queue \in [Conns -> Seq(Threads)] /\ on \in [Threads -> Conns]
        /\ pc \in [Threads -> {"idle", "lock", "send", "put", "result", "connect"}]
        /\ lock \in [Conns -> Threads \cup {None}] /\ pc[t] = "put"
    BY <1>0, <1>1 DEF Types
  <1>3. on[t] <= current /\ on[t] \in Conns /\ fut[t].is = "pending"  BY <1>1, <1>2 DEF Callers
  <1>4. /\ pc' \in [Threads -> {"idle", "lock", "send", "put", "result", "connect"}]
        /\ \A u \in Threads \ {t} : pc'[u] = pc[u]
        /\ shut[on[t]] => pc'[t] = "idle"
        /\ ~shut[on[t]] => pc'[t] = "result"
    <2>1. CASE shut[on[t]]
      <3>1. EndCall(t, "shut down")  BY <1>0, <2>1
      <3>2. /\ pc' \in [Threads -> {"idle", "lock", "send", "put", "result", "connect"}]
            /\ pc'[t] = "idle" \/ (pc'[t] = "connect" /\ "shut down" = "closed")
            /\ \A u \in Threads \ {t} : pc'[u] = pc[u]
        BY <1>2, <3>1, EndOfCall, Zenon
      <3> QED  BY <2>1, <3>2
    <2>2. CASE ~shut[on[t]]
      <3>1. pc' = [pc EXCEPT ![t] = "result"]  BY <1>0, <2>2
      <3> QED  BY <1>2, <2>2, <3>1
    <2> QED  BY <2>1, <2>2
  <1>5. lock' \in [Conns -> Threads \cup {None}] /\ LockHeld'
    BY <1>0, <1>1, <1>2, <1>3, <1>4, LetGo
  <1>6. queue' \in [Conns -> Seq(Threads)]
    <2>1. queue[on[t]] \in Seq(Threads)  BY <1>2, <1>3
    <2>2. Append(queue[on[t]], t) \in Seq(Threads)  BY <2>1
    <2>3. queue' = queue \/ queue' = [queue EXCEPT ![on[t]] = Append(queue[on[t]], t)]
      BY <1>0
    <2> QED  BY <1>2, <2>2, <2>3
  <1>7. Types'  BY <1>0, <1>1, <1>4, <1>5, <1>6 DEF Types
  <1>8. Turns'  BY <1>0, <1>1, KeepTurns
  <1>9. Callers'  BY <1>0, <1>1, <1>3, <1>4, OthersCalls
  <1>10. Broken'  BY <1>0, <1>1, KeepBroken
  <1>11. Queued'
    <2>1. CASE shut[on[t]]  BY <1>0, <1>1, <1>2, <1>3, <1>4, <2>1, OthersQueued
    <2>2. CASE ~shut[on[t]]
      <3>1. \A c \in Conns : \A i \in DOMAIN queue[c] : queue[c][i] \in Threads \ {t}
        <4> SUFFICES ASSUME NEW c \in Conns, NEW i \in DOMAIN queue[c]
                     PROVE  queue[c][i] \in Threads \ {t}
          OBVIOUS
        <4>1. pc[queue[c][i]] = "result"  BY <1>1 DEF Queued
        <4>2. queue[c] \in Seq(Threads)  BY <1>2
        <4>3. queue[c][i] \in Threads  BY <4>2
        <4> QED  BY <1>0, <4>1, <4>3
      <3>2. \A c \in Conns \ {on[t]} : queue'[c] = queue[c]  BY <1>0, <1>2, <2>2
      <3>3. \A i \in DOMAIN queue'[on[t]] :
              \/ i \in DOMAIN queue[on[t]] /\ queue'[on[t]][i] = queue[on[t]][i]
              \/ /\ i = Len(queue[on[t]]) + 1 /\ i \notin DOMAIN queue[on[t]]
                 /\ queue'[on[t]][i] = t
        <4>1. queue'[on[t]] = Append(queue[on[t]], t) /\ queue[on[t]] \in Seq(Threads)
          BY <1>0, <1>2, <1>3, <2>2
        <4>2. \A i \in DOMAIN Append(queue[on[t]], t) :
                \/ /\ i \in DOMAIN queue[on[t]]
                   /\ Append(queue[on[t]], t)[i] = queue[on[t]][i]
                \/ /\ i = Len(queue[on[t]]) + 1 /\ i \notin DOMAIN queue[on[t]]
                   /\ Append(queue[on[t]], t)[i] = t
          BY <4>1, EndOfQueue
        <4> QED  BY <4>1, <4>2
      <3>4. pc'[t] = "result" /\ on'[t] = on[t] /\ fut' = fut /\ on' = on
        BY <1>0, <1>4, <2>2
      <3>5. ASSUME NEW c \in Conns, NEW i \in DOMAIN queue'[c]
            PROVE  \/ /\ i \in DOMAIN queue[c] /\ queue'[c][i] = queue[c][i]
                      /\ queue[c][i] \in Threads \ {t}
                   \/ /\ c = on[t] /\ queue'[c][i] = t
                      /\ i = Len(queue[c]) + 1 /\ i \notin DOMAIN queue[c]
        <4>1. CASE c = on[t]  BY <3>1, <3>3, <3>5, <4>1
        <4>2. CASE c # on[t]  BY <3>1, <3>2, <3>5, <4>2
        <4> QED  BY <4>1, <4>2
      <3>6. ASSUME NEW c \in Conns, NEW i \in DOMAIN queue'[c]
            PROVE  /\ pc'[queue'[c][i]] = "result" /\ on'[queue'[c][i]] = c
                   /\ fut'[queue'[c][i]].is = "pending"
        <4>1. CASE i \in DOMAIN queue[c] /\ queue'[c][i] = queue[c][i]
                     /\ queue[c][i] \in Threads \ {t}
          <5>1. /\ pc[queue[c][i]] = "result" /\ on[queue[c][i]] = c
                /\ fut[queue[c][i]].is = "pending"
            BY <1>1, <4>1 DEF Queued
          <5> QED  BY <1>4, <3>4, <4>1, <5>1
        <4>2. CASE c = on[t] /\ queue'[c][i] = t  BY <1>3, <3>4, <4>2
        <4> QED  BY <3>5, <3>6, <4>1, <4>2
      <3>7. ASSUME NEW c \in Conns, NEW i \in DOMAIN queue'[c], NEW j \in DOMAIN queue'[c],
                   i # j
            PROVE  queue'[c][i] # queue'[c][j]
        <4>1. ASSUME i \in DOMAIN queue[c], j \in DOMAIN queue[c]
              PROVE  queue[c][i] # queue[c][j]
          BY <1>1, <3>7, <4>1 DEF Queued
        <4> QED  BY <3>5, <3>7, <4>1
      <3> QED  BY <3>6, <3>7 DEF Queued
    <2> QED  BY <2>1, <2>2
  <1> QED  BY <1>5, <1>7, <1>8, <1>9, <1>10, <1>11 DEF IInv, TypeOK

LEMMA ResultIInv == ASSUME IInv, NEW t \in Threads, Result(t) PROVE IInv'
  <1> USE DEF Result, callVars, recvVars, connVars
  <1>1. Types /\ Turns /\ LockHeld /\ Callers /\ Broken /\ Queued
    BY DEF IInv, TypeOK
  <1>2. /\ queue \in [Conns -> Seq(Threads)] /\ on \in [Threads -> Conns]
        /\ pc \in [Threads -> {"idle", "lock", "send", "put", "result", "connect"}]
    BY <1>1 DEF Types
  <1>3. /\ pc[t] = "result" /\ fut[t].is # "pending" /\ on[t] <= current
        /\ fut[t].is = "closed" => ws[on[t]] = "closed"
    BY <1>1 DEF Callers
  <1>4. /\ pc' \in [Threads -> {"idle", "lock", "send", "put", "result", "connect"}]
        /\ \A u \in Threads \ {t} : pc'[u] = pc[u]
        /\ pc'[t] = "idle" \/ (pc'[t] = "connect" /\ fut[t].is = "closed")
    <2> DEFINE how == IF fut[t].is = "closed" THEN "closed"
                      ELSE IF fut[t].of = Me(t) THEN "answered" ELSE "another's answer"
    <2>1. EndCall(t, how)  OBVIOUS
    <2>2. how = "closed" => fut[t].is = "closed"  OBVIOUS
    <2> HIDE DEF how
    <2> QED  BY <1>2, <2>1, <2>2, EndOfCall
  <1>5. Types'  BY <1>1, <1>4 DEF Types
  <1>6. Turns'  BY <1>1, KeepTurns
  <1>7. LockHeld'
    <2>1. pc[t] \notin {"send", "put"} /\ pc'[t] \notin {"send", "put"}  BY <1>3, <1>4
    <2> QED  BY <1>1, <1>4, <2>1, OthersLock
  <1>8. Callers'  BY <1>1, <1>3, <1>4, OthersCalls
  <1>9. Broken'  BY <1>1, KeepBroken
  <1>10. Queued'  BY <1>1, <1>2, <1>3, <1>4, OthersQueued
  <1> QED  BY <1>5, <1>6, <1>7, <1>8, <1>9, <1>10 DEF IInv, TypeOK

(* The connection a caller replaces is closed already, and there is a next.  *)
LEMMA Replaced ==
  ASSUME IInv, NEW t \in Threads, Reconnect(t)
  PROVE  /\ ws[on[t]] = "closed" /\ on[t] \in Conns /\ on[t] <= current
         /\ current = on[t] => current + 1 \in Conns /\ ws[current + 1] = "none"
         /\ current' \in Conns /\ current <= current'
         /\ ws' \in [Conns -> {"none", "open", "closed"}]
         /\ \A k \in Conns : ws'[k] = ws[k] \/ (k = current' /\ k = current + 1 /\ ws'[k] = "open")
         /\ ws'[current'] # "none"
  <1>1. Types /\ Turns /\ Callers  BY DEF IInv, TypeOK
  <1>2. current \in Conns /\ ws \in [Conns -> {"none", "open", "closed"}]
        /\ on \in [Threads -> Conns]
    BY <1>1 DEF Types
  <1>3. ws[on[t]] = "closed" /\ on[t] <= current  BY <1>1 DEF Reconnect, Callers
  <1>4. CASE current = on[t]
    <2>1. current \in Nat /\ current # MaxConns /\ current \in 1..MaxConns
      BY <1>1, <1>2, <1>3, <1>4 DEF Turns
    <2>2. current + 1 \in Conns /\ current # current + 1  BY <2>1
    <2>3. ws[current + 1] = "none"  BY <1>1, <1>2, <2>1, <2>2 DEF Turns
    <2>4. current' = current + 1 /\ ws' = [ws EXCEPT ![current] = "closed", ![current + 1] = "open"]
      BY <1>4 DEF Reconnect
    <2>5. \A k \in Conns : ws'[k] = IF k = current + 1 THEN "open" ELSE ws[k]
      BY <1>2, <1>3, <1>4, <2>2, <2>4
    <2> QED  BY <1>2, <1>3, <1>4, <2>1, <2>2, <2>3, <2>4, <2>5
  <1>5. CASE current # on[t]
    <2>1. current' = current /\ ws' = ws  BY <1>5 DEF Reconnect
    <2> QED  BY <1>1, <1>2, <1>3, <1>5, <2>1 DEF Turns
  <1> QED  BY <1>4, <1>5

LEMMA ReconnectIInv == ASSUME IInv, NEW t \in Threads, Reconnect(t) PROVE IInv'
  <1> USE DEF Reconnect, callVars, recvVars, connVars
  <1>1. Types /\ Turns /\ LockHeld /\ Callers /\ Broken /\ Queued
    BY DEF IInv, TypeOK
  <1>2. /\ queue \in [Conns -> Seq(Threads)] /\ on \in [Threads -> Conns]
        /\ pc \in [Threads -> {"idle", "lock", "send", "put", "result", "connect"}]
        /\ attempt \in [Threads -> {1, 2}] /\ current \in Conns
        /\ ws \in [Conns -> {"none", "open", "closed"}]
    BY <1>1 DEF Types
  <1>3. /\ pc[t] = "connect" /\ pc'[t] = "lock" /\ on'[t] = current' /\ fut' = fut
        /\ \A u \in Threads \ {t} : pc'[u] = pc[u] /\ on'[u] = on[u] /\ fut'[u] = fut[u]
    BY <1>2, Replaced
  <1>4. \A k \in Conns : ws[k] = "closed" => ws'[k] = "closed"
    BY <1>1, <1>2, Replaced DEF Turns
  <1>5. Types'
    <2>1. /\ pc' \in [Threads -> {"idle", "lock", "send", "put", "result", "connect"}]
          /\ attempt' \in [Threads -> {1, 2}]
      BY <1>2
    <2>2. on' \in [Threads -> Conns]  BY <1>2, Replaced
    <2> QED  BY <1>1, <2>1, <2>2, Replaced DEF Types
  <1>6. Turns'
    <2>1. \A k \in Conns : ws'[k] # "none" <=> k <= current'
      <3>1. CASE current = on[t]
        <4>1. current' = current + 1  BY <3>1
        <4>2. current + 1 \in Conns /\ ws'[current + 1] # "none"  BY <3>1, <4>1, Replaced
        <4>3. \A k \in Conns : k # current + 1 => ws'[k] = ws[k]  BY <4>1, Replaced
        <4>4. \A k \in Conns : ws[k] # "none" <=> k <= current  BY <1>1 DEF Turns
        <4> QED  BY <1>2, <4>1, <4>2, <4>3, <4>4
      <3>2. CASE current # on[t]
        <4>1. current' = current /\ ws' = ws  BY <3>2
        <4> QED  BY <1>1, <4>1 DEF Turns
      <3> QED  BY <3>1, <3>2
    <2>2. ws'[MaxConns] # "closed"
      <3>1. MaxConns \in Conns  OBVIOUS
      <3> QED  BY <1>1, <3>1, Replaced DEF Turns
    <2> QED  BY <2>1, <2>2 DEF Turns
  <1>7. LockHeld'  BY <1>1, <1>3 DEF LockHeld
  <1>8. Callers'
    <2>1. \A u \in Threads : on'[u] <= current'
      <3>1. \A u \in Threads : on[u] <= current /\ on[u] \in Nat  BY <1>1, <1>2 DEF Callers
      <3>2. current \in Nat /\ current' \in Nat /\ current <= current'  BY <1>2, Replaced
      <3> QED  BY <1>3, <3>1, <3>2
    <2> QED  BY <1>1, <1>2, <1>3, <1>4, <2>1 DEF Callers
  <1>9. Broken'  BY <1>1, <1>4 DEF Broken
  <1>10. Queued'  BY <1>1, <1>2, <1>3, OthersQueued
  <1> QED  BY <1>5, <1>6, <1>7, <1>8, <1>9, <1>10 DEF IInv, TypeOK

LEMMA ConnStepIInv == IInv /\ [Next]_vars => IInv'
  <1> SUFFICES ASSUME IInv, [Next]_vars PROVE IInv'  OBVIOUS
  <1>1. CASE UNCHANGED vars
    <2>1. Types'  BY <1>1 DEF IInv, TypeOK, Types, vars, connVars, recvVars, callVars
    <2>2. UNCHANGED <<ws, current, lock, pc, on, fut, theExc, queue>>
      BY <1>1 DEF vars, connVars, recvVars, callVars
    <2> QED  BY <2>1, <2>2, KeepTurns, KeepLock, KeepCallers, KeepBroken, KeepQueued
             DEF IInv, TypeOK
  <1>2. ASSUME NEW k \in Conns,
               Answer(k) \/ ServerCloses(k) \/ RecvAnswer(k) \/ RecvClosed(k)
                 \/ GetFuture(k) \/ Finally(k)
        PROVE  IInv'
    BY <1>2, AnswerIInv, ServerClosesIInv, RecvAnswerIInv, RecvClosedIInv, GetFutureIInv,
       FinallyIInv
  <1>3. ASSUME NEW t \in Threads,
               Call(t) \/ Lock(t) \/ Send(t) \/ Put(t) \/ Result(t) \/ Reconnect(t)
        PROVE  IInv'
    BY <1>3, CallIInv, LockIInv, SendIInv, PutIInv, ResultIInv, ReconnectIInv
  <1> QED  BY <1>1, <1>2, <1>3 DEF Next

(* The invariant holds for every number of callers, calls and connections.   *)
THEOREM ConnInvariant == Spec => []IInv
  BY ConnInitIInv, ConnStepIInv, PTL DEF Spec

(* Types; connections are opened in turn; RPCConn.lock is held exactly while *)
(* its `with` runs (rpc_guest.py:49-54), whoever breaks the connection.      *)
THEOREM ConnTypeCorrect == Spec => []TypeOK
  <1>1. IInv => TypeOK  BY DEF IInv
  <1> QED  BY <1>1, ConnInvariant, PTL

(* "reconnect, unless someone else did" (rpc_guest.py:166): connections are  *)
(* closed by the server alone; the one a caller replaces is closed already.  *)
THEOREM HealthyStayOpen == Spec => NeverClosesHealthy
  <1>1. IInv /\ [Next]_vars =>
          [\A k \in Conns : ws[k] = "open" /\ ws'[k] = "closed" => ServerCloses(k)]_vars
    <2> SUFFICES ASSUME IInv, Next,
                        NEW k \in Conns, ws[k] = "open", ws'[k] = "closed"
                 PROVE  ServerCloses(k)
      BY DEF vars
    <2>1. ASSUME NEW c \in Conns, ServerCloses(c) PROVE c = k
      <3>1. ws \in [Conns -> {"none", "open", "closed"}]  BY DEF IInv, TypeOK, Types
      <3> QED  BY <2>1, <3>1 DEF ServerCloses
    <2>2. ASSUME NEW t \in Threads, Reconnect(t) PROVE FALSE
      BY <2>2, Replaced
    <2>3. \A c \in Conns : Answer(c) \/ RecvAnswer(c) \/ RecvClosed(c) \/ GetFuture(c)
                             \/ Finally(c) => ws' = ws
      BY DEF Answer, RecvAnswer, RecvClosed, GetFuture, Finally, connVars
    <2>4. \A t \in Threads : Call(t) \/ Lock(t) \/ Send(t) \/ Put(t) \/ Result(t) => ws' = ws
      BY DEF Call, Lock, Send, Put, Result, connVars
    <2> QED  BY <2>1, <2>2, <2>3, <2>4 DEF Next
  <1> QED  BY <1>1, ConnInvariant, PTL DEF Spec, NeverClosesHealthy

-----------------------------------------------------------------------------
(* Pairing.                                                                 *)

(* The answer in hand, those that have arrived, those still to come.        *)
Coming(k) ==
  (IF recv[k] = "get" THEN <<resp[k]>> ELSE <<>>) \o answers[k] \o requests[k]

(* Those who wait, the one that is between sending and queueing last.       *)
Waiting(k) ==
  queue[k] \o (IF lock[k] # None /\ pc[lock[k]] = "put" THEN <<lock[k]>> ELSE <<>>)

Listening(k) == recv[k] \in {"recv", "get"} /\ ~theExc[k]

(* The i-th answer is for the i-th that waits; only a connection that broke *)
(* leaves some without an answer.                                           *)
Aligned(k) ==
  Listening(k) =>
    /\ Len(Coming(k)) <= Len(Waiting(k))
    /\ ws[k] # "closed" => Len(Coming(k)) = Len(Waiting(k))
    /\ \A i \in 1..Len(Coming(k)) : Coming(k)[i] = Me(Waiting(k)[i])

ShutIsDone == \A k \in Conns : shut[k] => recv[k] = "done"

PairInv == IInv /\ PairedWhileOpen /\ ShutIsDone /\ \A k \in Conns : Aligned(k)

(* Those who wait are in the middle of a call on this connection.           *)
LEMMA Waiters ==
  ASSUME IInv, NEW k \in Conns
  PROVE  /\ Waiting(k) \in Seq(Threads)
         /\ \A i \in 1..Len(Waiting(k)) : pc[Waiting(k)[i]] \in {"result", "put"}
  <1>1. /\ queue[k] \in Seq(Threads) /\ lock[k] \in Threads \cup {None}
    BY DEF IInv, TypeOK, Types
  <1>2. \A i \in 1..Len(queue[k]) : pc[queue[k][i]] = "result"
    BY <1>1 DEF IInv, Queued
  <1> DEFINE last == IF lock[k] # None /\ pc[lock[k]] = "put" THEN <<lock[k]>> ELSE <<>>
  <1>3. /\ last \in Seq(Threads)
        /\ \A i \in 1..Len(last) : pc[last[i]] = "put"
    BY <1>1
  <1>4. Waiting(k) = queue[k] \o last  BY DEF Waiting
  <1> HIDE DEF last
  <1>5. /\ Waiting(k) \in Seq(Threads) /\ Len(Waiting(k)) = Len(queue[k]) + Len(last)
        /\ \A i \in 1..Len(queue[k]) + Len(last) :
             Waiting(k)[i] = IF i <= Len(queue[k]) THEN queue[k][i] ELSE last[i - Len(queue[k])]
    BY <1>1, <1>3, <1>4, ConcatProperties
  <1>6. ASSUME NEW i \in 1..Len(Waiting(k)) PROVE pc[Waiting(k)[i]] \in {"result", "put"}
    <2>1. Len(queue[k]) \in Nat /\ Len(last) \in Nat  BY <1>1, <1>3
    <2>2. CASE i <= Len(queue[k])
      <3>1. i \in 1..Len(queue[k]) /\ Waiting(k)[i] = queue[k][i]  BY <1>5, <2>1, <2>2
      <3> QED  BY <3>1, <1>2
    <2>3. CASE ~(i <= Len(queue[k]))
      <3>1. i - Len(queue[k]) \in 1..Len(last) /\ Waiting(k)[i] = last[i - Len(queue[k])]
        BY <1>5, <2>1, <2>3
      <3> QED  BY <3>1, <1>3
    <2> QED  BY <2>2, <2>3
  <1> QED  BY <1>5, <1>6

LEMMA ComingType ==
  ASSUME IInv, NEW k \in Conns
  PROVE  Coming(k) \in Seq(Messages \cup {None})
  <1>1. /\ requests[k] \in Seq(Messages \cup {None}) /\ answers[k] \in Seq(Messages \cup {None})
        /\ resp[k] \in Messages \cup {None}
    BY DEF IInv, TypeOK, Types
  <1> DEFINE M == Messages \cup {None}
             hand == IF recv[k] = "get" THEN <<resp[k]>> ELSE <<>>
  <1> HIDE DEF M
  <1>2. hand \in Seq(M)
    <2>1. CASE recv[k] = "get"  BY <1>1, <2>1 DEF M
    <2>2. CASE recv[k] # "get"  BY <2>2
    <2> QED  BY <2>1, <2>2
  <1> HIDE DEF hand
  <1>3. hand \o answers[k] \in Seq(M)  BY <1>1, <1>2, ConcatProperties DEF M
  <1>4. (hand \o answers[k]) \o requests[k] \in Seq(M)  BY <1>1, <1>3, ConcatProperties DEF M
  <1> QED  BY <1>4 DEF Coming, hand, M

(* What the pairing on one connection depends on.                           *)
LEMMA WaitingKept ==
  ASSUME NEW k \in Conns, queue'[k] = queue[k], lock'[k] = lock[k],
         lock[k] # None => (pc'[lock[k]] = "put" <=> pc[lock[k]] = "put")
  PROVE  Waiting(k)' = Waiting(k)
  BY Zenon DEF Waiting

LEMMA ComingKept ==
  ASSUME NEW k \in Conns, recv'[k] = recv[k], resp'[k] = resp[k], answers'[k] = answers[k],
         requests'[k] = requests[k]
  PROVE  Coming(k)' = Coming(k)
  BY Zenon DEF Coming

LEMMA AlignedKept ==
  ASSUME IInv, NEW k \in Conns, Aligned(k), recv'[k] = recv[k] \/ Listening(k),
         theExc'[k] = theExc[k], ws'[k] = "closed" <=> ws[k] = "closed",
         Coming(k)' = Coming(k), Waiting(k)' = Waiting(k),
         \A u \in Threads : pc[u] \in {"result", "put"} => calls'[u] = calls[u]
  PROVE  Aligned(k)'
  <1> SUFFICES ASSUME Listening(k)' PROVE Aligned(k)'  BY DEF Aligned
  <1>1. Listening(k)  BY DEF Listening
  <1>2. /\ Len(Coming(k)) <= Len(Waiting(k))
        /\ ws[k] # "closed" => Len(Coming(k)) = Len(Waiting(k))
        /\ \A i \in 1..Len(Coming(k)) : Coming(k)[i] = Me(Waiting(k)[i])
    BY <1>1 DEF Aligned
  <1>3. ASSUME NEW i \in 1..Len(Coming(k)) PROVE Me(Waiting(k)[i])' = Me(Waiting(k)[i])
    <2>1. Len(Coming(k)) \in Nat /\ Len(Waiting(k)) \in Nat  BY ComingType, Waiters
    <2>2. i \in 1..Len(Waiting(k))  BY <1>2, <2>1
    <2>3. Waiting(k)[i] \in Threads /\ pc[Waiting(k)[i]] \in {"result", "put"}  BY <2>2, Waiters
    <2>4. Waiting(k)'[i] = Waiting(k)[i]  OBVIOUS
    <2> QED  BY <2>3, <2>4 DEF Me
  <1>4. \A i \in 1..Len(Coming(k)') : Coming(k)'[i] = Me(Waiting(k)[i])'
    BY <1>2, <1>3
  <1>5. /\ Len(Coming(k)') <= Len(Waiting(k)')
        /\ ws'[k] # "closed" => Len(Coming(k)') = Len(Waiting(k)')
    BY <1>2
  <1> QED  BY <1>4, <1>5, Zenon DEF Aligned

LEMMA HeadAndTail ==
  ASSUME NEW S, NEW s \in Seq(S), s # <<>>
  PROVE  <<Head(s)>> \o Tail(s) = s /\ Head(s) \in S /\ Tail(s) \in Seq(S)
  <1>1. Head(s) \in S /\ Tail(s) \in Seq(S) /\ Len(Tail(s)) = Len(s) - 1 /\ Len(s) \in Nat /\ Len(s) > 0
    BY HeadTailProperties
  <1>2. <<Head(s)>> \in Seq(S) /\ Len(<<Head(s)>>) = 1 /\ <<Head(s)>>[1] = s[1]
    BY <1>1
  <1>3. <<Head(s)>> \o Tail(s) \in Seq(S) /\ Len(<<Head(s)>> \o Tail(s)) = Len(s)
    BY <1>1, <1>2, ConcatProperties
  <1>4. ASSUME NEW i \in 1..Len(s) PROVE (<<Head(s)>> \o Tail(s))[i] = s[i]
    <2>1. (<<Head(s)>> \o Tail(s))[i] = IF i <= 1 THEN <<Head(s)>>[i] ELSE Tail(s)[i - 1]
      BY <1>1, <1>2, ConcatProperties
    <2>2. CASE i = 1  BY <1>2, <2>1, <2>2
    <2>3. CASE i # 1
      <3>1. i - 1 \in 1..Len(Tail(s)) /\ (i - 1) + 1 = i  BY <1>1, <2>3
      <3>2. Tail(s)[i - 1] = s[(i - 1) + 1]  BY <3>1, HeadTailProperties
      <3> QED  BY <1>1, <2>1, <2>3, <3>1, <3>2
    <2> QED  BY <2>2, <2>3
  <1>5. <<Head(s)>> \o Tail(s) = s  BY <1>3, <1>4, SeqEqual
  <1> QED  BY <1>1, <1>5

Msgs == Messages \cup {None}

(* A message moves from the front of one queue to the end of the one before. *)
LEMMA MovesUp ==
  ASSUME NEW g \in Seq(Msgs), NEW a \in Seq(Msgs), NEW r \in Seq(Msgs), r # <<>>
  PROVE  (g \o Append(a, Head(r))) \o Tail(r) = (g \o a) \o r
  <1> DEFINE h == <<Head(r)>>
             t == Tail(r)
  <1>1. h \o t = r /\ Head(r) \in Msgs /\ h \in Seq(Msgs) /\ t \in Seq(Msgs)
    BY HeadAndTail
  <1>2. Append(a, Head(r)) = a \o h  BY <1>1, AppendIsConcat
  <1> HIDE DEF h, t
  <1>3. g \o a \in Seq(Msgs) /\ a \o h \in Seq(Msgs)  BY <1>1, ConcatProperties
  <1>4. g \o (a \o h) = (g \o a) \o h
    <2>1. h \in Seq(Msgs)  BY <1>1
    <2> QED  BY <2>1, ConcatAssociative, SMTT(30)
  <1>5. ((g \o a) \o h) \o t = (g \o a) \o (h \o t)
    <2> DEFINE ga == g \o a
    <2>1. ga \in Seq(Msgs) /\ h \in Seq(Msgs) /\ t \in Seq(Msgs)  BY <1>1, <1>3
    <2> HIDE DEF ga
    <2>2. (ga \o h) \o t = ga \o (h \o t)  BY <2>1, ConcatAssociative, SMTT(30)
    <2> QED  BY <2>2 DEF ga
  <1> QED  BY <1>1, <1>2, <1>4, <1>5 DEF t

(* The server's steps and the receiving thread's arrival of an answer move  *)
(* answers along; a server that closes drops those still to come.           *)
LEMMA ServerAligned ==
  ASSUME PairInv, NEW c \in Conns, Answer(c) \/ RecvAnswer(c), NEW k \in Conns
  PROVE  Aligned(k)'
  <1>1. IInv /\ Aligned(k)  BY DEF PairInv
  <1>2. UNCHANGED <<queue, lock, pc, theExc, ws, calls>>
    BY DEF Answer, RecvAnswer, callVars, recvVars
  <1>3. Waiting(k)' = Waiting(k)  BY <1>2, WaitingKept
  <1> DEFINE hand == IF recv[k] = "get" THEN <<resp[k]>> ELSE <<>>
  <1>4. /\ requests \in [Conns -> Seq(Messages)] /\ answers \in [Conns -> Seq(Messages)]
        /\ requests[k] \in Seq(Msgs) /\ answers[k] \in Seq(Msgs) /\ resp[k] \in Msgs
        /\ resp \in [Conns -> Msgs] /\ recv \in [Conns -> {"recv", "get", "finally", "done"}]
    BY <1>1 DEF IInv, TypeOK, Types, Msgs
  <1>5. hand \in Seq(Msgs)
    <2>1. CASE recv[k] = "get"  BY <1>4, <2>1
    <2>2. CASE recv[k] # "get"  BY <2>2
    <2> QED  BY <2>1, <2>2
  <1>6. Coming(k)' = Coming(k)
    <2>1. CASE k # c
      <3>1. recv'[k] = recv[k] /\ resp'[k] = resp[k] /\ answers'[k] = answers[k] /\ requests'[k] = requests[k]
        BY <1>4, <2>1 DEF Answer, RecvAnswer, recvVars
      <3> QED  BY <3>1, ComingKept
    <2>2. CASE k = c /\ Answer(c)
      <3>1. /\ answers'[k] = Append(answers[k], Head(requests[k])) /\ requests'[k] = Tail(requests[k])
            /\ recv' = recv /\ resp' = resp /\ requests[k] # <<>>
        BY <1>4, <2>2 DEF Answer, recvVars
      <3>2. (hand \o Append(answers[k], Head(requests[k]))) \o Tail(requests[k])
              = (hand \o answers[k]) \o requests[k]
        <4>1. hand \in Seq(Msgs) /\ answers[k] \in Seq(Msgs) /\ requests[k] \in Seq(Msgs) /\ requests[k] # <<>>
          BY <1>4, <1>5, <3>1
        <4> HIDE DEF hand
        <4> DEFINE a == answers[k]
                   r == requests[k]
        <4> HIDE DEF a, r
        <4>2. hand \in Seq(Msgs) /\ a \in Seq(Msgs) /\ r \in Seq(Msgs) /\ r # <<>>  BY <4>1 DEF a, r
        <4>3. (hand \o Append(a, Head(r))) \o Tail(r) = (hand \o a) \o r  BY <4>2, MovesUp
        <4> QED  BY <4>3 DEF a, r
      <3> QED  BY <3>1, <3>2 DEF Coming
    <2>3. CASE k = c /\ RecvAnswer(c)
      <3>1. /\ recv[k] = "recv" /\ recv'[k] = "get" /\ resp'[k] = Head(answers[k])
            /\ answers'[k] = Tail(answers[k]) /\ requests' = requests /\ answers[k] # <<>>
        BY <1>4, <2>3 DEF RecvAnswer
      <3>2. <<Head(answers[k])>> \o Tail(answers[k]) = answers[k]
        BY <1>4, <3>1, HeadAndTail
      <3>3. <<>> \o answers[k] = answers[k]  BY <1>4, ConcatEmptySeq
      <3> QED  BY <3>1, <3>2, <3>3 DEF Coming
    <2> QED  BY <2>1, <2>2, <2>3
  <1>7. recv'[k] = recv[k] \/ Listening(k) \/ ~Listening(k)'
    BY <1>2, <1>4 DEF Answer, RecvAnswer, recvVars, Listening
  <1> QED  BY <1>1, <1>2, <1>3, <1>6, <1>7, AlignedKept DEF Aligned

LEMMA ServerClosesAligned ==
  ASSUME PairInv, NEW c \in Conns, ServerCloses(c), NEW k \in Conns
  PROVE  Aligned(k)'
  <1>1. IInv /\ Aligned(k)  BY DEF PairInv
  <1>2. UNCHANGED <<queue, lock, pc, theExc, calls, recv, resp, answers>>
    BY DEF ServerCloses, callVars, recvVars
  <1>3. Waiting(k)' = Waiting(k)  BY <1>2, WaitingKept
  <1> DEFINE hand == IF recv[k] = "get" THEN <<resp[k]>> ELSE <<>>
  <1>4. /\ requests \in [Conns -> Seq(Messages)] /\ ws \in [Conns -> {"none", "open", "closed"}]
        /\ requests[k] \in Seq(Msgs) /\ answers[k] \in Seq(Msgs) /\ resp[k] \in Msgs
    <2>1. Types  BY <1>1 DEF IInv, TypeOK
    <2>2. requests[k] \in Seq(Messages) /\ answers[k] \in Seq(Messages)  BY <2>1 DEF Types, Msgs
    <2>3. requests[k] \in Seq(Msgs) /\ answers[k] \in Seq(Msgs)  BY <2>2 DEF Msgs
    <2> QED  BY <2>1, <2>3 DEF Types, Msgs
  <1>5. CASE k # c
    <2>1. requests'[k] = requests[k] /\ ws'[k] = ws[k]
      BY <1>4, <1>5 DEF ServerCloses
    <2>2. Coming(k)' = Coming(k)  BY <1>2, <2>1, ComingKept
    <2> QED  BY <1>1, <1>2, <1>3, <2>1, <2>2, AlignedKept
  <1>6. CASE k = c
    <2>1. requests'[k] = <<>> /\ ws'[k] = "closed"  BY <1>4, <1>6 DEF ServerCloses
    <2>2. hand \in Seq(Msgs)
      <3>1. CASE recv[k] = "get"  BY <1>4, <3>1
      <3>2. CASE recv[k] # "get"  BY <3>2
      <3> QED  BY <3>1, <3>2
    <2> DEFINE p == hand \o answers[k]
    <2>3. Coming(k)' = p \o <<>> /\ Coming(k) = p \o requests[k]
      BY <1>2, <2>1 DEF Coming
    <2>4. p \in Seq(Msgs)  BY <1>4, <2>2, ConcatProperties
    <2> HIDE DEF p, hand
    <2>5. Coming(k)' = p  BY <2>3, <2>4, ConcatEmptySeq
    <2>6. /\ Len(p) <= Len(Coming(k)) /\ Len(p) \in Nat /\ Len(Coming(k)) \in Nat
          /\ \A i \in 1..Len(p) : Coming(k)[i] = p[i]
      <3>1. /\ Len(p \o requests[k]) = Len(p) + Len(requests[k])
            /\ \A i \in 1..Len(p) + Len(requests[k]) :
                 (p \o requests[k])[i] = IF i <= Len(p) THEN p[i] ELSE requests[k][i - Len(p)]
        BY <1>4, <2>4, ConcatProperties
      <3>2. Len(p) \in Nat /\ Len(requests[k]) \in Nat  BY <1>4, <2>4
      <3> QED  BY <2>3, <3>1, <3>2
    <2>7. Len(Waiting(k)) \in Nat  BY <1>1, Waiters
    <2>8. Listening(k)' = Listening(k)  BY <1>2 DEF Listening
    <2>9. \A u : Me(u)' = Me(u)  BY <1>2 DEF Me
    <2>10. ASSUME Listening(k)
           PROVE  /\ Len(p) <= Len(Waiting(k))
                  /\ \A i \in 1..Len(p) : p[i] = Me(Waiting(k)[i])
      BY <1>1, <2>6, <2>7, <2>10 DEF Aligned
    <2> QED  BY <1>3, <2>1, <2>5, <2>8, <2>9, <2>10 DEF Aligned
  <1> QED  BY <1>5, <1>6

LEMMA InFront ==
  ASSUME NEW S, NEW h \in S, NEW rest \in Seq(S)
  PROVE  /\ <<h>> \o rest \in Seq(S) /\ Len(<<h>> \o rest) = Len(rest) + 1 /\ (<<h>> \o rest)[1] = h
         /\ \A i \in 1..Len(rest) : (<<h>> \o rest)[i + 1] = rest[i]
  <1>1. <<h>> \in Seq(S) /\ Len(<<h>>) = 1 /\ <<h>>[1] = h  OBVIOUS
  <1>2. /\ <<h>> \o rest \in Seq(S) /\ Len(<<h>> \o rest) = 1 + Len(rest)
        /\ \A i \in 1..1 + Len(rest) :
             (<<h>> \o rest)[i] = IF i <= 1 THEN <<h>>[i] ELSE rest[i - 1]
    BY <1>1, ConcatProperties
  <1>3. Len(rest) \in Nat  OBVIOUS
  <1>4. ASSUME NEW i \in 1..Len(rest) PROVE (<<h>> \o rest)[i + 1] = rest[i]
    <2>1. i + 1 \in 1..1 + Len(rest) /\ ~(i + 1 <= 1) /\ (i + 1) - 1 = i  BY <1>3
    <2> QED  BY <1>2, <2>1
  <1> QED  BY <1>1, <1>2, <1>3, <1>4

(* Taking the answer in hand to the first that waits.                       *)
LEMMA TakenFromBoth ==
  ASSUME IInv, NEW k \in Conns, recv[k] = "get", queue[k] # <<>>,
         recv'[k] = "recv", queue'[k] = Tail(queue[k]),
         UNCHANGED <<answers, requests, lock, pc>>
  PROVE  /\ Coming(k)' \in Seq(Msgs) /\ Coming(k) = <<resp[k]>> \o Coming(k)'
         /\ Waiting(k)' \in Seq(Threads) /\ Waiting(k) = <<Head(queue[k])>> \o Waiting(k)'
         /\ Head(queue[k]) \in Threads
  <1> DEFINE a == answers[k]
             r == requests[k]
             h == <<resp[k]>>
  <1>1. a \in Seq(Msgs) /\ r \in Seq(Msgs) /\ h \in Seq(Msgs)
    <2>1. a \in Seq(Messages) /\ r \in Seq(Messages) /\ resp[k] \in Messages \cup {None}
      BY DEF IInv, TypeOK, Types
    <2> QED  BY <2>1 DEF Msgs
  <1>2. Coming(k) = (h \o a) \o r /\ Coming(k)' = (<<>> \o a) \o r  BY DEF Coming
  <1> HIDE DEF a, r
  <1>3. Coming(k)' = a \o r /\ a \o r \in Seq(Msgs)
    BY <1>1, <1>2, ConcatEmptySeq, ConcatProperties
  <1>4. (h \o a) \o r = h \o (a \o r)
    <2> HIDE DEF h
    <2> QED  BY <1>1, ConcatAssociative, SMTT(30)
  <1> DEFINE t == Tail(queue[k])
             w == <<Head(queue[k])>>
             last == IF lock[k] # None /\ pc[lock[k]] = "put" THEN <<lock[k]>> ELSE <<>>
  <1>5. queue[k] \in Seq(Threads) /\ lock[k] \in Threads \cup {None}  BY DEF IInv, TypeOK, Types
  <1>6. w \o t = queue[k] /\ Head(queue[k]) \in Threads /\ t \in Seq(Threads)
    BY <1>5, HeadAndTail
  <1>7. w \in Seq(Threads)  BY <1>6
  <1>8. last \in Seq(Threads)
    <2>1. CASE lock[k] # None  BY <1>5, <2>1
    <2>2. CASE lock[k] = None  BY <2>2
    <2> QED  BY <2>1, <2>2
  <1>9. Waiting(k) = queue[k] \o last /\ Waiting(k)' = t \o last  BY DEF Waiting
  <1> HIDE DEF t, w, last
  <1>10. (w \o t) \o last = w \o (t \o last)
    <2>1. w \in Seq(Threads) /\ t \in Seq(Threads) /\ last \in Seq(Threads)  BY <1>6, <1>7, <1>8
    <2> QED  BY <2>1, ConcatAssociative, SMTT(30)
  <1>11. t \o last \in Seq(Threads)  BY <1>6, <1>8, ConcatProperties
  <1> QED  BY <1>2, <1>3, <1>4, <1>6, <1>9, <1>10, <1>11 DEF w

LEMMA GetFutureAligned ==
  ASSUME PairInv, NEW c \in Conns, GetFuture(c)
  PROVE  PairedWhileOpen' /\ \A k \in Conns : Aligned(k)'
  <1>1. /\ IInv /\ PairedWhileOpen /\ \A k \in Conns : Aligned(k)
        /\ queue \in [Conns -> Seq(Threads)] /\ recv \in [Conns -> {"recv", "get", "finally", "done"}]
    BY DEF PairInv, IInv, TypeOK, Types
  <1>2. UNCHANGED <<answers, requests, lock, pc, resp, theExc, ws, calls>> /\ recv[c] = "get"
    BY DEF GetFuture, connVars
  <1>3. recv' = [recv EXCEPT ![c] = recv'[c]] /\ queue' = [queue EXCEPT ![c] = queue'[c]]
    BY <1>1 DEF GetFuture
  <1>4. ASSUME NEW k \in Conns, k # c PROVE Aligned(k)'
    <2>1. recv'[k] = recv[k] /\ queue'[k] = queue[k]  BY <1>1, <1>3, <1>4
    <2>2. Waiting(k)' = Waiting(k) /\ Coming(k)' = Coming(k)
      BY <1>2, <2>1, WaitingKept, ComingKept
    <2> QED  BY <1>1, <1>2, <2>1, <2>2, AlignedKept
  <1>5. CASE queue[c] # <<>> /\ resp[c] # None
    <2>1. /\ queue'[c] = Tail(queue[c]) /\ recv'[c] = "recv"
          /\ mispaired' = (mispaired \/ (~theExc[c] /\ resp[c] # Me(Head(queue[c]))))
      BY <1>1, <1>5 DEF GetFuture
    <2> DEFINE rest == Coming(c)'
               left == Waiting(c)'
    <2>2. /\ rest \in Seq(Msgs) /\ Coming(c) = <<resp[c]>> \o rest /\ resp[c] \in Msgs
          /\ left \in Seq(Threads) /\ Waiting(c) = <<Head(queue[c])>> \o left
          /\ Head(queue[c]) \in Threads
      <3>1. resp[c] \in Messages \cup {None}  BY <1>1 DEF IInv, TypeOK, Types
      <3> QED  BY <1>1, <1>2, <1>5, <2>1, <3>1, TakenFromBoth DEF Msgs
    <2> HIDE DEF rest, left
    <2>3. /\ Len(Coming(c)) = Len(rest) + 1 /\ Coming(c)[1] = resp[c]
          /\ \A i \in 1..Len(rest) : Coming(c)[i + 1] = rest[i]
      BY <2>2, InFront
    <2>4. /\ Len(Waiting(c)) = Len(left) + 1 /\ Waiting(c)[1] = Head(queue[c])
          /\ \A i \in 1..Len(left) : Waiting(c)[i + 1] = left[i]
      BY <2>2, InFront
    <2>5. Len(rest) \in Nat /\ Len(left) \in Nat  BY <2>2
    <2>6. CASE theExc[c]
      <3>1. ~mispaired'  BY <1>1, <2>1, <2>6, Zenon DEF PairedWhileOpen
      <3>2. ~Listening(c)'  BY <1>2, <2>6 DEF Listening
      <3>3. Aligned(c)'  BY <3>2, Zenon DEF Aligned
      <3> QED  BY <1>4, <3>1, <3>3, Zenon DEF PairedWhileOpen
    <2>7. CASE ~theExc[c]
      <3>1. /\ Len(Coming(c)) <= Len(Waiting(c))
            /\ ws[c] # "closed" => Len(Coming(c)) = Len(Waiting(c))
            /\ \A i \in 1..Len(Coming(c)) : Coming(c)[i] = Me(Waiting(c)[i])
        BY <1>1, <1>2, <2>7 DEF Aligned, Listening
      <3>2. resp[c] = Me(Head(queue[c]))  BY <2>3, <2>4, <2>5, <3>1
      <3>3. ASSUME NEW i \in 1..Len(rest) PROVE rest[i] = Me(left[i])
        <4>1. i + 1 \in 1..Len(Coming(c)) /\ i \in 1..Len(left)  BY <2>3, <2>4, <2>5, <3>1
        <4> QED  BY <2>3, <2>4, <3>1, <4>1
      <3>4. Len(rest) <= Len(left) /\ (ws[c] # "closed" => Len(rest) = Len(left))
        BY <2>3, <2>4, <2>5, <3>1
      <3>5. \A u : Me(u)' = Me(u)  BY <1>2 DEF Me
      <3>6. Aligned(c)'
        <4>1. /\ Len(Coming(c)') <= Len(Waiting(c)')
              /\ ws'[c] # "closed" => Len(Coming(c)') = Len(Waiting(c)')
              /\ \A i \in 1..Len(Coming(c)') : Coming(c)'[i] = Me(Waiting(c)[i])'
          BY <1>2, <3>3, <3>4, <3>5 DEF rest, left, Me
        <4> QED  BY <4>1, Zenon DEF Aligned
      <3>7. ~mispaired'  BY <1>1, <2>1, <3>2, Zenon DEF PairedWhileOpen
      <3> QED  BY <1>4, <3>6, <3>7, Zenon DEF PairedWhileOpen
    <2> QED  BY <2>6, <2>7
  <1>6. CASE ~(queue[c] # <<>> /\ resp[c] # None)
    <2>1. recv'[c] = "finally" /\ mispaired' = mispaired  BY <1>1, <1>6 DEF GetFuture
    <2>2. Aligned(c)'  BY <2>1 DEF Aligned, Listening
    <2> QED  BY <1>1, <1>4, <2>1, <2>2 DEF PairedWhileOpen
  <1> QED  BY <1>5, <1>6

(* A receiving thread that has seen an exception, or ended, pairs no more.  *)
LEMMA EndingAligned ==
  ASSUME PairInv, NEW c \in Conns, RecvClosed(c) \/ Finally(c), NEW k \in Conns
  PROVE  Aligned(k)'
  <1>1. /\ IInv /\ Aligned(k) /\ queue \in [Conns -> Seq(Threads)]
        /\ recv \in [Conns -> {"recv", "get", "finally", "done"}] /\ theExc \in [Conns -> BOOLEAN]
    BY DEF PairInv, IInv, TypeOK, Types
  <1>2. UNCHANGED <<answers, requests, lock, pc, resp, ws, calls>>
    BY DEF RecvClosed, Finally, connVars, callVars
  <1>3. CASE k = c
    <2>1. ~Listening(k)'  BY <1>1, <1>3 DEF RecvClosed, Finally, Listening
    <2> QED  BY <2>1, Zenon DEF Aligned
  <1>4. CASE k # c
    <2>1. recv'[k] = recv[k] /\ queue'[k] = queue[k] /\ theExc'[k] = theExc[k]
      BY <1>1, <1>4 DEF RecvClosed, Finally
    <2>2. Waiting(k)' = Waiting(k) /\ Coming(k)' = Coming(k)
      BY <1>2, <2>1, WaitingKept, ComingKept
    <2> QED  BY <1>1, <1>2, <2>1, <2>2, AlignedKept
  <1> QED  BY <1>3, <1>4

(* The sending lock keeps a caller's request and future together: what      *)
(* others do with their own connections does not show here.                 *)
LEMMA OthersAligned ==
  ASSUME PairInv, NEW k \in Conns, UNCHANGED <<recv, theExc, answers, resp>>,
         ws'[k] = "closed" <=> ws[k] = "closed",
         requests'[k] = requests[k], Waiting(k)' = Waiting(k),
         \A u \in Threads : pc[u] \in {"result", "put"} => calls'[u] = calls[u]
  PROVE  Aligned(k)'
  <1>1. IInv /\ Aligned(k)  BY DEF PairInv
  <1>2. Coming(k)' = Coming(k)  BY ComingKept
  <1> QED  BY <1>1, <1>2, AlignedKept

LEMMA QuietCallerAligned ==
  ASSUME PairInv, NEW t \in Threads, Call(t) \/ Lock(t) \/ Result(t) \/ Reconnect(t), NEW k \in Conns
  PROVE  Aligned(k)'
  <1>1. /\ IInv /\ Types /\ LockHeld
    BY DEF PairInv, IInv, TypeOK
  <1>2. UNCHANGED <<recv, theExc, answers, resp, queue, requests>>
    BY DEF Call, Lock, Result, Reconnect, connVars, recvVars
  <1>3. /\ pc \in [Threads -> {"idle", "lock", "send", "put", "result", "connect"}]
        /\ lock \in [Conns -> Threads \cup {None}] /\ calls \in [Threads -> 0..MaxCalls]
        /\ on \in [Threads -> Conns] /\ ws \in [Conns -> {"none", "open", "closed"}]
    BY <1>1 DEF Types
  <1>4. /\ pc[t] \notin {"send", "put"} /\ pc'[t] # "put"
        /\ \A u \in Threads : u # t => pc'[u] = pc[u]
    BY <1>3 DEF Call, Lock, Result, Reconnect, EndCall
  <1>5. lock[k] # None => lock'[k] = lock[k] /\ lock[k] # t
    <2>1. lock[k] # t  BY <1>1, <1>4 DEF LockHeld
    <2>2. lock[k] # None => lock'[k] = lock[k]
      BY <1>3 DEF Call, Lock, Result, Reconnect, connVars
    <2> QED  BY <2>1, <2>2
  <1>6. lock[k] = None => lock'[k] \in {None, t}
    BY <1>3 DEF Call, Lock, Result, Reconnect, connVars
  <1>7. Waiting(k)' = Waiting(k)
    <2>1. CASE lock[k] # None
      <3>1. lock[k] \in Threads \ {t}  BY <1>3, <1>5, <2>1
      <3>2. pc'[lock[k]] = pc[lock[k]] /\ lock'[k] = lock[k]  BY <1>4, <1>5, <2>1, <3>1
      <3> QED  BY <1>2, <3>2, Zenon DEF Waiting
    <2>2. CASE lock[k] = None
      <3>1. ~(lock'[k] # None /\ pc'[lock'[k]] = "put") /\ ~(lock[k] # None /\ pc[lock[k]] = "put")
        BY <1>4, <1>6, <2>2
      <3> QED  BY <1>2, <3>1, Zenon DEF Waiting
    <2> QED  BY <2>1, <2>2
  <1>8. \A u \in Threads : pc[u] \in {"result", "put"} => calls'[u] = calls[u]
    BY <1>3 DEF Call, Lock, Result, Reconnect
  <1>9. ws'[k] = "closed" <=> ws[k] = "closed"
    <2>1. CASE Reconnect(t)
      <3>1. /\ current' \in Conns /\ (k = current + 1 /\ k = current' => ws[current + 1] = "none")
            /\ ws'[k] = ws[k] \/ (k = current' /\ k = current + 1 /\ ws'[k] = "open")
        <4>1. current = on[t] => current + 1 \in Conns /\ ws[current + 1] = "none"
          BY <1>1, <2>1, Replaced
        <4>2. current' \in Conns
          BY <1>1, <2>1, Replaced
        <4>3. ws'[k] = ws[k] \/ (k = current' /\ k = current + 1 /\ ws'[k] = "open")
          BY <1>1, <2>1, Replaced
        <4>4. current \in Conns  BY <1>1 DEF Types
        <4>5. current # on[t] => current' = current  BY <2>1 DEF Reconnect
        <4> QED  BY <4>1, <4>2, <4>3, <4>4, <4>5
      <3> QED  BY <3>1
    <2>2. CASE ~Reconnect(t)
      BY <2>2 DEF Call, Lock, Result, connVars
    <2> QED  BY <2>1, <2>2
  <1> QED  BY <1>2, <1>7, <1>8, <1>9, OthersAligned

(* A message and the one who waits for its answer join together.            *)
LEMMA BothJoin ==
  ASSUME NEW p \in Seq(Msgs), NEW r \in Seq(Msgs), NEW m \in Msgs
  PROVE  p \o Append(r, m) = Append(p \o r, m)
  <1> DEFINE x == <<m>>
  <1>1. x \in Seq(Msgs) /\ Append(r, m) = r \o x  BY AppendIsConcat
  <1>2. p \o r \in Seq(Msgs)  BY ConcatProperties
  <1>3. Append(p \o r, m) = (p \o r) \o x  BY <1>2, AppendIsConcat
  <1> HIDE DEF x
  <1>4. (p \o r) \o x = p \o (r \o x)  BY <1>1, ConcatAssociative, SMTT(30)
  <1> QED  BY <1>1, <1>3, <1>4

LEMMA SendAligned ==
  ASSUME PairInv, NEW t \in Threads, Send(t), NEW k \in Conns
  PROVE  Aligned(k)'
  <1>1. /\ IInv /\ Types /\ LockHeld /\ Aligned(k)
    BY DEF PairInv, IInv, TypeOK
  <1>2. UNCHANGED <<recv, theExc, answers, resp, queue, ws, calls, on>> /\ pc[t] = "send"
    BY DEF Send, connVars, recvVars
  <1>3. /\ pc \in [Threads -> {"idle", "lock", "send", "put", "result", "connect"}]
        /\ lock \in [Conns -> Threads \cup {None}] /\ on \in [Threads -> Conns]
        /\ requests \in [Conns -> Seq(Messages)] /\ queue[k] \in Seq(Threads)
    BY <1>1 DEF Types
  <1>4. \A u \in Threads : u # t => pc'[u] = pc[u]
    BY <1>3 DEF Send, EndCall
  <1>5. CASE k # on[t]
    <2>1. lock[k] # t /\ lock'[k] = lock[k] /\ requests'[k] = requests[k]
      BY <1>1, <1>3, <1>5 DEF LockHeld, Send
    <2>2. lock[k] # None => pc'[lock[k]] = pc[lock[k]]  BY <1>3, <1>4, <2>1
    <2>3. Waiting(k)' = Waiting(k)  BY <1>2, <2>1, <2>2, WaitingKept
    <2> QED  BY <1>2, <2>1, <2>3, OthersAligned
  <1>6. k = on[t] => lock[k] = t /\ Waiting(k) = queue[k]
    <2> SUFFICES ASSUME k = on[t] PROVE lock[k] = t /\ Waiting(k) = queue[k]  OBVIOUS
    <2>1. lock[k] = t  BY <1>1, <1>2 DEF LockHeld
    <2>2. Waiting(k) = queue[k] \o <<>>  BY <1>2, <2>1 DEF Waiting
    <2> QED  BY <1>3, <2>1, <2>2, ConcatEmptySeq
  <1>7. CASE k = on[t] /\ ws[k] # "open"
    <2>1. lock'[k] = None /\ requests'[k] = requests[k]  BY <1>3, <1>7 DEF Send
    <2>2. Waiting(k)' = queue[k] \o <<>>  BY <1>2, <2>1 DEF Waiting
    <2>3. Waiting(k)' = Waiting(k)  BY <1>3, <1>6, <1>7, <2>2, ConcatEmptySeq
    <2> QED  BY <1>2, <2>1, <2>3, OthersAligned
  <1>8. CASE k = on[t] /\ ws[k] = "open"
    <2>1. /\ lock'[k] = t /\ pc'[t] = "put"
          /\ requests'[k] = Append(requests[k], Me(t))
      BY <1>3, <1>6, <1>8 DEF Send
    <2>2. Waiting(k)' = Append(Waiting(k), t) /\ Waiting(k) \in Seq(Threads)
      <3>1. t # None  OBVIOUS
      <3>2. Waiting(k)' = queue[k] \o <<t>>  BY <1>2, <2>1, <3>1 DEF Waiting
      <3>3. queue[k] \o <<t>> = Append(queue[k], t)  BY <1>3, AppendIsConcat
      <3> QED  BY <1>3, <1>6, <1>8, <3>2, <3>3
    <2>3. Me(t) \in Msgs /\ requests[k] \in Seq(Msgs) /\ answers[k] \in Seq(Msgs) /\ resp[k] \in Msgs
      <3>1. Me(t) \in Messages  BY <1>1 DEF Types, Me, Messages
      <3>2. requests[k] \in Seq(Messages) /\ answers[k] \in Seq(Messages) /\ resp[k] \in Msgs
        BY <1>1 DEF Types, Msgs
      <3> QED  BY <3>1, <3>2 DEF Msgs
    <2> DEFINE hand == IF recv[k] = "get" THEN <<resp[k]>> ELSE <<>>
               p == hand \o answers[k]
    <2>4. p \in Seq(Msgs)
      <3>1. hand \in Seq(Msgs)
        <4>1. CASE recv[k] = "get"  BY <2>3, <4>1
        <4>2. CASE recv[k] # "get"  BY <4>2
        <4> QED  BY <4>1, <4>2
      <3> QED  BY <2>3, <3>1, ConcatProperties
    <2>5. Coming(k) = p \o requests[k] /\ Coming(k)' = p \o Append(requests[k], Me(t))
      BY <1>2, <2>1 DEF Coming
    <2> DEFINE m == Me(t)
               out == Coming(k)
               in == Waiting(k)
    <2>m. m \in Msgs  BY <2>3
    <2> HIDE DEF p, m
    <2>6. out' = Append(out, m) /\ out \in Seq(Msgs)
      <3>1. Coming(k)' = p \o Append(requests[k], m)  BY <2>5 DEF m
      <3>2. p \o Append(requests[k], m) = Append(p \o requests[k], m)
        BY <2>3, <2>4, <2>m, BothJoin
      <3> QED  BY <2>3, <2>4, <2>5, <3>1, <3>2, ConcatProperties
    <2>7. in' = Append(in, t) /\ in \in Seq(Threads)  BY <2>2
    <2>8. \A u : Me(u)' = Me(u)  BY <1>2 DEF Me
    <2>9. ASSUME Listening(k)'
          PROVE  /\ Len(out') = Len(in')
                 /\ \A i \in 1..Len(out') : out'[i] = Me(in'[i])
      <3>1. Listening(k)  BY <1>2, <2>9 DEF Listening
      <3>2. Len(out) = Len(in) /\ \A i \in 1..Len(out) : out[i] = Me(in[i])
        BY <1>1, <1>8, <3>1 DEF Aligned
      <3> HIDE DEF out, in
      <3> DEFINE o == out'
                 n == in'
      <3>3. o = Append(out, m) /\ n = Append(in, t)  BY <2>6, <2>7
      <3> HIDE DEF o, n
      <3>4. /\ Len(o) = Len(out) + 1 /\ Len(n) = Len(in) + 1 /\ Len(out) \in Nat
            /\ o[Len(out) + 1] = m /\ n[Len(in) + 1] = t
            /\ \A i \in 1..Len(out) : o[i] = out[i] /\ n[i] = in[i]
        BY <2>6, <2>7, <2>m, <3>2, <3>3, AppendProperties
      <3>5. ASSUME NEW i \in 1..Len(o) PROVE o[i] = Me(n[i])
        <4>1. CASE i = Len(out) + 1  BY <3>2, <3>4, <4>1 DEF m
        <4>2. CASE i # Len(out) + 1
          <5>1. i \in 1..Len(out)  BY <3>4, <4>2
          <5> QED  BY <3>2, <3>4, <5>1
        <4> QED  BY <4>1, <4>2
      <3> QED  BY <3>2, <3>4, <3>5 DEF o, n
    <2>10. ASSUME Listening(k)'
           PROVE  /\ Len(out') <= Len(in')
                  /\ \A i \in 1..Len(out') : out'[i] = Me(in[i])'
      <3>1. Len(out') \in Nat
        BY <2>6, AppendProperties, <2>m
      <3> QED  BY <2>8, <2>9, <2>10, <3>1 DEF Me
    <2> QED  BY <2>9, <2>10, Zenon DEF Aligned
  <1> QED  BY <1>5, <1>7, <1>8

(* Queueing a future releases the lock: the caller stays where it was in    *)
(* line. A thread that has shut its queue down pairs no more.               *)
LEMMA PutAligned ==
  ASSUME PairInv, NEW t \in Threads, Put(t), NEW k \in Conns
  PROVE  Aligned(k)'
  <1>1. IInv /\ Types /\ LockHeld /\ ShutIsDone
    BY DEF PairInv, IInv, TypeOK
  <1>2. /\ UNCHANGED <<recv, theExc, answers, resp, ws, calls, requests>> /\ pc[t] = "put"
        /\ lock' = [lock EXCEPT ![on[t]] = None]
        /\ queue' # queue => queue' = [queue EXCEPT ![on[t]] = Append(queue[on[t]], t)]
        /\ ~shut[on[t]] => queue' = [queue EXCEPT ![on[t]] = Append(queue[on[t]], t)]
    BY DEF Put
  <1>3. /\ pc \in [Threads -> {"idle", "lock", "send", "put", "result", "connect"}]
        /\ lock \in [Conns -> Threads \cup {None}] /\ on \in [Threads -> Conns]
        /\ queue \in [Conns -> Seq(Threads)]
    BY <1>1 DEF Types
  <1>4. \A u \in Threads : u # t => pc'[u] = pc[u]
    BY <1>3 DEF Put, EndCall
  <1>5. CASE k # on[t]
    <2>1. lock[k] # t /\ lock'[k] = lock[k] /\ queue'[k] = queue[k]
      BY <1>1, <1>2, <1>3, <1>5 DEF LockHeld
    <2>2. lock[k] # None => pc'[lock[k]] = pc[lock[k]]  BY <1>3, <1>4, <2>1
    <2>3. Waiting(k)' = Waiting(k)  BY <1>2, <2>1, <2>2, WaitingKept
    <2> QED  BY <1>2, <2>3, OthersAligned
  <1>6. CASE k = on[t] /\ shut[k]
    <2>1. ~Listening(k)'  BY <1>1, <1>2, <1>6 DEF ShutIsDone, Listening
    <2> QED  BY <2>1, Zenon DEF Aligned
  <1>7. CASE k = on[t] /\ ~shut[k]
    <2>1. lock[k] = t /\ lock'[k] = None /\ t # None
      BY <1>1, <1>2, <1>3, <1>7, PyRpcAssumption DEF LockHeld
    <2>2. queue'[k] = Append(queue[k], t) /\ queue[k] \in Seq(Threads)  BY <1>2, <1>3, <1>7
    <2>3. Waiting(k) = queue[k] \o <<t>>  BY <1>2, <2>1, Zenon DEF Waiting
    <2>4. Waiting(k)' = Append(queue[k], t) \o <<>>  BY <2>1, <2>2, Zenon DEF Waiting
    <2>5. Append(queue[k], t) \in Seq(Threads) /\ queue[k] \o <<t>> = Append(queue[k], t)
      BY <2>2, AppendIsConcat
    <2>6. Waiting(k)' = Waiting(k)  BY <2>3, <2>4, <2>5, ConcatEmptySeq
    <2> QED  BY <1>2, <2>6, OthersAligned
  <1> QED  BY <1>5, <1>6, <1>7

LEMMA PairInit == Init => PairInv
  <1> SUFFICES ASSUME Init PROVE PairInv  OBVIOUS
  <1>1. IInv  BY ConnInitIInv
  <1>2. PairedWhileOpen  BY Zenon DEF Init, PairedWhileOpen
  <1>3. ShutIsDone  BY DEF Init, ShutIsDone
  <1>4. ASSUME NEW k \in Conns PROVE Aligned(k)
    <2>1. /\ recv[k] = "recv" /\ answers[k] = <<>> /\ requests[k] = <<>> /\ queue[k] = <<>>
          /\ lock[k] = None
      BY DEF Init
    <2>2. Coming(k) = (<<>> \o <<>>) \o <<>>  BY <2>1 DEF Coming
    <2>3. Waiting(k) = <<>> \o <<>>  BY <2>1 DEF Waiting
    <2>4. <<>> \o <<>> = <<>>  BY EmptySeqs, ConcatEmptySeq
    <2>5. Coming(k) = <<>> /\ Waiting(k) = <<>>  BY <2>2, <2>3, <2>4
    <2>6. Len(Coming(k)) = 0 /\ Len(Waiting(k)) = 0  BY <2>5
    <2> QED  BY <2>6 DEF Aligned
  <1> QED  BY <1>1, <1>2, <1>3, <1>4 DEF PairInv

LEMMA PairStep == PairInv /\ [Next]_vars => PairInv'
  <1> SUFFICES ASSUME PairInv, [Next]_vars PROVE PairInv'  OBVIOUS
  <1>1. IInv /\ IInv' /\ PairedWhileOpen /\ ShutIsDone  BY ConnStepIInv DEF PairInv
  <1>2. ShutIsDone'
    <2>0. /\ recv \in [Conns -> {"recv", "get", "finally", "done"}] /\ shut \in [Conns -> BOOLEAN]
      BY <1>1 DEF IInv, TypeOK, Types
    <2> SUFFICES ASSUME NEW k \in Conns, shut'[k] PROVE recv'[k] = "done"  BY DEF ShutIsDone
    <2>1. shut[k] => recv[k] = "done"  BY <1>1 DEF ShutIsDone
    <2>2. CASE \E c \in Conns : Finally(c)
      BY <2>0, <2>1, <2>2 DEF Finally
    <2>3. CASE \E c \in Conns : RecvAnswer(c) \/ RecvClosed(c) \/ GetFuture(c)
      BY <2>0, <2>1, <2>3 DEF RecvAnswer, RecvClosed, GetFuture
    <2>4. CASE UNCHANGED <<shut, recv>>  BY <2>1, <2>4
    <2>5. CASE UNCHANGED vars  BY <2>1, <2>5 DEF vars, recvVars
    <2>6. ASSUME NEW c \in Conns, Answer(c) \/ ServerCloses(c) PROVE UNCHANGED <<shut, recv>>
      BY <2>6 DEF Answer, ServerCloses, recvVars
    <2>7. ASSUME NEW t \in Threads,
                 Call(t) \/ Lock(t) \/ Send(t) \/ Put(t) \/ Result(t) \/ Reconnect(t)
          PROVE  UNCHANGED <<shut, recv>>
      BY <2>7 DEF Call, Lock, Send, Put, Result, Reconnect, recvVars
    <2> QED  BY <2>2, <2>3, <2>4, <2>5, <2>6, <2>7 DEF Next
  <1>3. ASSUME mispaired' = mispaired PROVE PairedWhileOpen'
    BY <1>1, <1>3, Zenon DEF PairedWhileOpen
  <1>4. CASE UNCHANGED vars
    <2>1. UNCHANGED <<recv, theExc, answers, resp, ws, requests, calls, queue, lock, pc, mispaired>>
      BY <1>4 DEF vars, connVars, recvVars, callVars
    <2>2. ASSUME NEW k \in Conns PROVE Aligned(k)'
      <3>1. Waiting(k)' = Waiting(k)  BY <2>1, WaitingKept
      <3> QED  BY <2>1, <3>1, OthersAligned
    <2> QED  BY <1>1, <1>2, <1>3, <2>1, <2>2 DEF PairInv
  <1>5. ASSUME NEW c \in Conns, GetFuture(c) PROVE PairInv'
    BY <1>1, <1>2, <1>5, GetFutureAligned DEF PairInv
  <1>6. ASSUME NEW c \in Conns,
               Answer(c) \/ RecvAnswer(c) \/ ServerCloses(c) \/ RecvClosed(c) \/ Finally(c)
        PROVE  PairInv'
    <2>1. mispaired' = mispaired
      BY <1>6 DEF Answer, RecvAnswer, ServerCloses, RecvClosed, Finally, recvVars
    <2>2. \A k \in Conns : Aligned(k)'
      BY <1>6, ServerAligned, ServerClosesAligned, EndingAligned
    <2> QED  BY <1>1, <1>2, <1>3, <2>1, <2>2 DEF PairInv
  <1>7. ASSUME NEW t \in Threads,
               Call(t) \/ Lock(t) \/ Send(t) \/ Put(t) \/ Result(t) \/ Reconnect(t)
        PROVE  PairInv'
    <2>1. mispaired' = mispaired
      BY <1>7 DEF Call, Lock, Send, Put, Result, Reconnect, recvVars
    <2>2. \A k \in Conns : Aligned(k)'
      BY <1>7, QuietCallerAligned, SendAligned, PutAligned
    <2> QED  BY <1>1, <1>2, <1>3, <2>1, <2>2 DEF PairInv
  <1> QED  BY <1>4, <1>5, <1>6, <1>7 DEF Next

(* However calls, answers and closes interleave, the receiving thread of a  *)
(* connection that has seen no exception gives each answer to the call it   *)
(* answers (rpc_guest.py:49-76): the lock over send and put keeps requests  *)
(* and futures in one order, and get_nowait ends the thread when an answer  *)
(* overtakes its future.                                                    *)
THEOREM AnswersPaired == Spec => []PairedWhileOpen
  <1>1. Spec => []PairInv  BY PairInit, PairStep, PTL DEF Spec
  <1>2. PairInv => PairedWhileOpen  BY DEF PairInv
  <1> QED  BY <1>1, <1>2, PTL
==============================================================================
