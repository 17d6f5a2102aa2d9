------------------------------ MODULE MemRegions ------------------------------
(***************************************************************************)
(* Which memory a request may touch (serve.cpp, mem_regions and            *)
(* safe_memcpy).  The server keeps a sorted list of the regions the kernel *)
(* reported and reloads it when an address is in none of them, while the   *)
(* game goes on mapping memory.  Addresses wrap at 2^64, here at Space,    *)
(* and the kernel's last block, which ends exactly there, is inaccessible  *)
(* but of a type of its own (MemType_Reserved), not unmapped.  All         *)
(* requests come from the RPC thread, so the mutex of mem_regions is never *)
(* contended.                                                              *)
(***************************************************************************)
EXTENDS Integers, Sequences, FiniteSets, FiniteSetsExt

CONSTANTS
  Space,   \* size of the address space
  Sizes,   \* sizes of the copies that clients ask for
  MaxMaps  \* bound: mappings the game makes

ASSUME RegionsAssumption ==
  /\ Space \in Nat \ {0, 1, 2} /\ MaxMaps \in Nat
  /\ Sizes \subseteq 1..Space

VARIABLES
  memory,   \* the kernel's view: the kind of each address
  cached,   \* cached_regions_
  pc,       \* where accessible_bytes_at is
  query,    \* meminfo.addr + meminfo.size
  first, count,               \* std::lower_bound: where it searches
  addr, left, copied, write,  \* the request's cursor in safe_memcpy
  before,   \* history: memory when the request began
  maps      \* history: mappings so far

search == <<first, count>>
request == <<addr, left, copied, write, before>>
regionVars == <<memory, cached, pc, query, search, request, maps>>

Addrs == 0..(Space - 1)

(* Code and read-only data differ for the kernel but not in permissions.    *)
Mappable == {"code", "rodata", "data"}
Perm(k) == IF k \in {"code", "rodata"} THEN {"R"}
           ELSE IF k = "data" THEN {"R", "W"} ELSE {}

RegionsInit ==
  /\ memory = [a \in Addrs |-> IF a = Space - 1 THEN "reserved" ELSE "unmapped"]
  /\ cached = <<>>
  /\ pc = "idle" /\ query = 0 /\ first = 0 /\ count = 0
  /\ addr = 0 /\ left = 0 /\ copied = 0 /\ write = FALSE
  /\ before = memory
  /\ maps = 0

-----------------------------------------------------------------------------
(* The game maps memory that was not mapped; it never unmaps any.           *)
Map(lo, hi, k) ==
  /\ maps < MaxMaps /\ maps' = maps + 1
  /\ \A a \in lo..hi : memory[a] = "unmapped"
  /\ memory' = [a \in Addrs |-> IF a \in lo..hi THEN k ELSE memory[a]]
  /\ UNCHANGED <<cached, pc, query, search, request>>

(* svcQueryMemory: the largest block of one kind around an address.         *)
Block(a) ==
  LET same == {b \in Addrs : \A c \in Addrs :
                 (a <= c /\ c <= b) \/ (b <= c /\ c <= a) => memory[c] = memory[a]}
  IN  [start |-> Min(same), size |-> Max(same) - Min(same) + 1]

SearchIn(regions) == first' = 0 /\ count' = Len(regions)

-----------------------------------------------------------------------------
(* load_cached_regions, one step per query; then a search begins.           *)

(* A block that continues the last region with the same permissions is      *)
(* absorbed; an unmapped one is ignored.                                    *)
Absorbed(regions, r, kind) ==
  LET last == regions[Len(regions)] IN
  IF kind = "unmapped" THEN regions
  ELSE IF regions # <<>> /\ last.perm = r.perm /\ (last.start + last.size) % Space = r.start
  THEN [regions EXCEPT ![Len(regions)].size = (@ + r.size) % Space]
  ELSE Append(regions, r)

Query ==
  /\ pc = "load"
  /\ LET b == Block(query) IN
       /\ cached' = Absorbed(cached, [start |-> b.start, size |-> b.size,
                                      perm |-> Perm(memory[query])], memory[query])
       /\ query' = (b.start + b.size) % Space
  /\ IF query' = 0 THEN pc' = "again" /\ SearchIn(cached')
     ELSE pc' = "load" /\ UNCHANGED search
  /\ UNCHANGED <<memory, request, maps>>

-----------------------------------------------------------------------------
(* find_cached_region: std::lower_bound, one step per comparison, with the  *)
(* comparison of the code, which adds start and size.                       *)

Searching == pc \in {"find", "again"}

Precedes(r, a) == (r.start + r.size) % Space <= a

Halve ==
  /\ Searching /\ count > 0
  /\ LET half == count \div 2 IN
       IF Precedes(cached[first + half + 1], addr)
       THEN first' = first + half + 1 /\ count' = count - half - 1
       ELSE count' = half /\ UNCHANGED first
  /\ UNCHANGED <<memory, cached, pc, query, request, maps>>

(* Mutant: the region found need not contain the address.                   *)
FoundUnchecked == IF first < Len(cached) THEN {cached[first + 1]} ELSE {}

Found ==
  {r \in {cached[i] : i \in DOMAIN cached \cap {first + 1}} :
     (addr - r.start) % Space < r.size}

(* accessible_bytes_at of a region that was found.                          *)
Bytes(r) ==
  IF (IF write THEN {"R", "W"} ELSE {"R"}) \subseteq r.perm
  THEN (r.size - (addr - r.start)) % Space ELSE 0

-----------------------------------------------------------------------------
(* safe_memcpy by the RPC thread.                                           *)

SafeMemcpy(a, n, w) ==
  /\ pc = "idle" /\ pc' = "find" /\ SearchIn(cached)
  /\ addr' = a /\ left' = n /\ copied' = 0 /\ write' = w
  /\ before' = memory
  /\ UNCHANGED <<memory, cached, query, maps>>

(* No region: the list is loaded again, once.                               *)
Reload ==
  /\ pc = "find" /\ count = 0 /\ Found = {}
  /\ cached' = <<>> /\ query' = 0
  /\ pc' = "load" /\ SearchIn(<<>>)
  /\ UNCHANGED <<memory, request, maps>>

(* Mutant: one piece of memory is copied and the request ends.              *)
CopyOnce ==
  /\ Searching /\ count = 0
  /\ \E r \in Found :
       LET cur == Min({left, Bytes(r)}) IN
       /\ addr' = (addr + cur) % Space
       /\ left' = left - cur
       /\ copied' = copied + cur
       /\ pc' = "idle" /\ SearchIn(<<>>)
  /\ UNCHANGED <<memory, cached, query, write, before, maps>>

(* A region: as much as it allows is copied, and the rest looked up next.   *)
CopySome ==
  /\ Searching /\ count = 0
  /\ \E r \in Found :
       LET cur == Min({left, Bytes(r)}) IN
       /\ addr' = (addr + cur) % Space
       /\ left' = left - cur
       /\ copied' = copied + cur
       /\ IF cur = 0 \/ left' = 0 THEN pc' = "idle" /\ SearchIn(<<>>)
          ELSE pc' = "find" /\ SearchIn(cached)
  /\ UNCHANGED <<memory, cached, query, write, before, maps>>

(* Still no region: nothing more can be copied.                             *)
GiveUp ==
  /\ pc = "again" /\ count = 0 /\ Found = {}
  /\ pc' = "idle" /\ SearchIn(<<>>)
  /\ UNCHANGED <<memory, cached, query, request, maps>>

RegionsNext ==
  \/ \E lo, hi \in 1..(Space - 2), k \in Mappable : lo <= hi /\ Map(lo, hi, k)
  \/ \E a \in Addrs, n \in Sizes, w \in BOOLEAN : SafeMemcpy(a, n, w)
  \/ Reload \/ Query \/ Halve \/ CopySome \/ GiveUp

RegionsSpec == RegionsInit /\ [][RegionsNext]_regionVars

-----------------------------------------------------------------------------
(* Properties.                                                               *)

Holds(m, a, w) == (IF w THEN {"R", "W"} ELSE {"R"}) \subseteq Perm(m[a])

(* What the request could have copied of the memory as it was when it came. *)
Reachable(a, n, w) ==
  CHOOSE l \in 0..n :
    /\ \A i \in 0..(l - 1) : a + i < Space /\ Holds(before, a + i, w)
    /\ l < n => ~(a + l < Space /\ Holds(before, a + l, w))

(* Every byte is copied from or to memory that allows it.                   *)
CopiesAllowed ==
  [][\A i \in 0..(copied' - copied - 1) : Holds(memory, (addr + i) % Space, write)]_regionVars

FoundAll == copied' >= Reachable((addr - copied) % Space, copied + left, write)

(* The search compared the topmost region, whose end is 0 for it, and went  *)
(* past the one listed before it, where the request had come to.            *)
HiddenByTop ==
  /\ first = Len(cached) /\ Len(cached) >= 2
  /\ LET r == cached[Len(cached) - 1] IN r.start <= addr /\ addr < r.start + r.size

(* A request copies at least what was accessible when it came: from the     *)
(* list as it is or a fresh one, across region boundaries.  The one         *)
(* exception is the region listed before the topmost: whether it is found   *)
(* depends on where the binary search halves the list.                      *)
MappedIsFound ==
  [][pc # "idle" /\ pc' = "idle" => FoundAll \/ HiddenByTop]_regionVars

(* What the comment of the code promises, that a miss leads to a fresh look *)
(* at the memory, since "non-mapped things might be mapped later"           *)
(* (serve.cpp:159): nothing accessible is missed.                           *)
EverythingFound == [][pc # "idle" /\ pc' = "idle" => FoundAll]_regionVars
=============================================================================
