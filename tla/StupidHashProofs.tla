-------------------------- MODULE StupidHashProofs --------------------------
(***************************************************************************)
(* Proofs about the hash table for every number of buckets, entries and    *)
(* keys.  The inductive invariant orders each bucket by the age of its     *)
(* entries, which replaces reasoning about reachability along the links.   *)
(***************************************************************************)
EXTENDS StupidHash, FunctionTheorems, FiniteSetTheorems, TLAPS

LEMMA HashType == \A k \in Keys : Hash(k) \in 0..Slots-1
BY HashAssumption DEF Hash

LEMMA Some == SomeKey \in Keys /\ SomeValue \in Values
BY HashAssumption DEF SomeKey, SomeValue

LEMMA AnswerKinds ==
  /\ <<>> \in Answers /\ <<"cleared">> \in Answers
  /\ \A k \in Keys : /\ <<"absent", k>> \in Answers /\ <<"full", k>> \in Answers
                     /\ <<"removed", k>> \in Answers
  /\ \A k \in Keys, v \in Values :
       /\ <<"found", k, v>> \in Answers /\ <<"inserted", k, v>> \in Answers
       /\ <<"assigned", k, v>> \in Answers
BY DEF Answers

LEMMA InitIInv == Init => IInv
<1> SUFFICES ASSUME Init PROVE IInv
  OBVIOUS
<1> USE DEF Init
<1>1. TypeOK
  <2>1. 0 \in 0..Capacity /\ 0 \in Nat
    BY HashAssumption
  <2>2. entries \in [EntryIdx -> EntryType]
    BY <2>1, Some DEF EntryType
  <2> QED
    BY <2>1, <2>2, Some, AnswerKinds DEF TypeOK
<1>2. Live = {}
  BY DEF Live
<1>3. KeysDistinct /\ BucketsSorted /\ LoopInv /\ NoPanic
  BY <1>2 DEF KeysDistinct, BucketsSorted, Sorted, HeadsOldest, NextsYounger,
     PrevsMirror, Ages, BucketOf, BucketIn, LoopInv, NoPanic
<1> QED
  BY <1>1, <1>3 DEF IInv

(* The loop returning leaves the table alone.                               *)
LEMMA ReturnIInv ==
  ASSUME IInv, UNCHANGED tableVars, NEW result \in Answers, Return(result)
  PROVE  IInv'
<1> USE DEF tableVars
<1>1. TypeOK' /\ NoPanic' /\ LoopInv'
  <2>1. TypeOK'
    <3>1. 0 \in 0..Capacity /\ FALSE \in BOOLEAN
      BY HashAssumption
    <3>2. /\ pc' \in {"idle", "walk", "panic"}
          /\ answer' \in Answers
      BY DEF Return
    <3> QED
      BY <3>1, <3>2, Some DEF IInv, TypeOK, Return
  <2>2. NoPanic' /\ LoopInv'
    BY DEF NoPanic, Return, LoopInv
  <2> QED
    BY <2>1, <2>2
<1>2. KeysDistinct' /\ BucketsSorted'
  BY DEF IInv, KeysDistinct, BucketsSorted, Sorted, HeadsOldest, NextsYounger,
     PrevsMirror, Ages, BucketOf, BucketIn, Live
<1> QED
  BY <1>1, <1>2 DEF IInv

LEMMA LookupIInv ==
  ASSUME IInv, NEW k \in Keys, NEW ins \in BOOLEAN, Lookup(k, ins)
  PROVE  IInv'
<1> USE DEF tableVars, Lookup
<1>1. TypeOK' /\ NoPanic'
  <2>1. by_hash[Hash(k)] \in 0..Capacity /\ 0 \in 0..Capacity
    BY HashType, HashAssumption DEF IInv, TypeOK
  <2> QED
    BY <2>1, AnswerKinds DEF IInv, TypeOK, NoPanic
<1>2. KeysDistinct' /\ BucketsSorted'
  BY DEF IInv, KeysDistinct, BucketsSorted, Sorted, HeadsOldest, NextsYounger,
     PrevsMirror, Ages, BucketOf, BucketIn, Live
<1>3. LoopInv'
  BY DEF LoopInv
<1> QED
  BY <1>1, <1>2, <1>3 DEF IInv

(* One more entry passed: every entry of the bucket not younger than it has *)
(* been compared.                                                           *)
LEMMA WalkIInv == IInv /\ Walk => IInv'
<1> SUFFICES ASSUME IInv, Walk PROVE IInv'
  OBVIOUS
<1>0. /\ pc = "walk" /\ idx # 0 /\ UNCHANGED tableVars
      /\ idx \in EntryIdx /\ key \in Keys
  BY DEF Walk, IInv, TypeOK, EntryIdx
<1>1. idx \in Live /\ BucketOf(idx) = Hash(key)
  BY <1>0, HashType DEF IInv, LoopInv, BucketsSorted, Sorted, HeadsOldest, NextsYounger,
     PrevsMirror, Ages, BucketOf, BucketIn
<1>2. entries[idx].prev = expected_prev
  BY <1>0, <1>1, HashType DEF IInv, LoopInv, BucketsSorted, Sorted, HeadsOldest, NextsYounger,
     PrevsMirror, Ages, BucketOf, BucketIn, TypeOK
<1>3. CASE entries[idx].key = key
  <2>1. entries[idx].key \in Keys /\ entries[idx].value \in Values
    BY <1>0 DEF IInv, TypeOK, EntryType
  <2> DEFINE found == <<"found", entries[idx].key, entries[idx].value>>
  <2>2. found \in Answers /\ Return(found)
    BY <1>0, <1>2, <1>3, <2>1, AnswerKinds DEF Walk
  <2> HIDE DEF found
  <2> QED
    BY <1>0, <2>2, ReturnIInv
<1>4. CASE entries[idx].key # key
  <2>1. /\ expected_prev' = idx /\ idx' = entries[idx].next
        /\ UNCHANGED <<pc, key, insert, answer>>
    BY <1>2, <1>4 DEF Walk
  <2>2. TypeOK' /\ NoPanic'
    BY <1>0, <2>1 DEF IInv, TypeOK, EntryType, EntryIdx, tableVars, NoPanic
  <2>3. KeysDistinct' /\ BucketsSorted'
    BY <1>0 DEF IInv, KeysDistinct, BucketsSorted, Sorted, HeadsOldest, NextsYounger,
     PrevsMirror, Ages, BucketOf, BucketIn, Live, tableVars
  <2>4. \A j \in Live : BucketOf(j) = Hash(key) /\ born[j] <= born[idx]
                          => entries[j].key # key
    <3> SUFFICES ASSUME NEW j \in Live, BucketOf(j) = Hash(key),
                        born[j] <= born[idx]
                 PROVE  entries[j].key # key
      OBVIOUS
    <3>1. CASE j = idx
      BY <1>4, <3>1
    <3>2. CASE j # idx
      <4>1. born[j] < born[idx] /\ born[j] \in Nat /\ born[idx] \in Nat
        BY <1>1, <3>2 DEF IInv, TypeOK, BucketsSorted, Sorted, HeadsOldest, NextsYounger,
     PrevsMirror, Ages, BucketOf, BucketIn
      <4>2. CASE expected_prev = 0
        BY <1>0, <1>1, <4>1, <4>2, HashType DEF IInv, LoopInv, BucketsSorted, Sorted, HeadsOldest, NextsYounger,
     PrevsMirror, Ages, BucketOf, BucketIn
      <4>3. CASE expected_prev # 0
        BY <1>0, <1>1, <4>1, <4>3 DEF IInv, LoopInv, BucketsSorted, Sorted, HeadsOldest, NextsYounger,
     PrevsMirror, Ages, BucketOf, BucketIn
      <4> QED
        BY <4>2, <4>3
    <3> QED
      BY <3>1, <3>2
  <2>5. LoopInv'
    BY <1>0, <1>1, <2>1, <2>4 DEF IInv, LoopInv, TypeOK, EntryIdx, tableVars,
       BucketOf, Live
  <2> QED
    BY <2>2, <2>3, <2>5 DEF IInv
<1> QED
  BY <1>3, <1>4

-----------------------------------------------------------------------------
(* Unlinking an entry leaves the others of its bucket sorted.               *)
LEMMA UnlinkSorted ==
  ASSUME NEW ent \in [EntryIdx -> EntryType],
         NEW bh \in [0..Slots-1 -> 0..Capacity],
         NEW bn \in [EntryIdx -> Nat], clock \in Nat,
         NEW L, L \subseteq EntryIdx, Sorted(ent, bh, L, bn), NEW i \in L
  PROVE  Sorted(Relink(ent, i, ent[i].next, ent[i].prev),
                RelinkHead(ent, bh, i, ent[i].next), L \ {i}, bn)
<1> DEFINE n  == ent[i].next
           p  == ent[i].prev
           e1 == Relink(ent, i, n, p)
           h1 == RelinkHead(ent, bh, i, n)
           M  == L \ {i}
<1>0. /\ 0 \notin EntryIdx /\ M \subseteq EntryIdx /\ i \in EntryIdx
      /\ \A j \in EntryIdx : BucketIn(ent, j) \in 0..Slots-1
  BY HashType DEF EntryIdx, EntryType, BucketIn
<1>1. \A j \in EntryIdx :
         /\ e1[j].next = IF j = p THEN n ELSE ent[j].next
         /\ e1[j].prev = IF j = n THEN p ELSE ent[j].prev
         /\ e1[j].key = ent[j].key
  BY DEF Relink, EntryType
<1>2. \A j \in EntryIdx : BucketIn(e1, j) = BucketIn(ent, j)
  BY <1>1 DEF BucketIn
<1>3. \A h \in 0..Slots-1 :
         h1[h] = IF p = 0 /\ h = BucketIn(ent, i) THEN n ELSE bh[h]
  BY <1>0 DEF RelinkHead, BucketIn
<1>4. /\ HeadsOldest(ent, bh, L, bn) /\ NextsYounger(ent, L, bn)
      /\ PrevsMirror(ent, bh, L) /\ Ages(L, bn)
  BY DEF Sorted
<1> HIDE DEF e1, h1, n, p
<1>5. /\ p # 0 => p \in M /\ ent[p].next = i /\ BucketIn(ent, p) = BucketIn(ent, i)
                  /\ bn[p] < bn[i]
      /\ n # 0 => n \in M /\ ent[n].prev = i /\ BucketIn(ent, n) = BucketIn(ent, i)
                  /\ bn[i] < bn[n]
      /\ p = 0 => bh[BucketIn(ent, i)] = i
      /\ \A j \in L : j \in EntryIdx /\ bn[j] \in Nat
  BY <1>0, <1>4 DEF HeadsOldest, NextsYounger, PrevsMirror, n, p
<1>6. Ages(M, bn)
  BY <1>4 DEF Ages
<1>7. PrevsMirror(e1, h1, M)
  <2> SUFFICES ASSUME NEW j \in M
      PROVE  /\ e1[j].prev = 0 => h1[BucketIn(e1, j)] = j
             /\ e1[j].prev # 0 => e1[j].prev \in M /\ e1[e1[j].prev].next = j
    BY DEF PrevsMirror
  <2>1. /\ j \in EntryIdx /\ j # i /\ j # 0 /\ BucketIn(ent, j) \in 0..Slots-1
        /\ ent[j].prev = 0 => bh[BucketIn(ent, j)] = j
        /\ ent[j].prev # 0 => ent[j].prev \in L /\ ent[ent[j].prev].next = j
        /\ BucketIn(e1, j) = BucketIn(ent, j)
    BY <1>0, <1>2, <1>4 DEF PrevsMirror
  <2>2. CASE j = n
    BY <2>1, <2>2, <1>0, <1>1, <1>3, <1>5
  <2>3. CASE j # n
    <3>1. e1[j].prev = ent[j].prev
      BY <2>1, <2>3, <1>1
    <3>2. ent[i].next # j /\ (p # 0 => ent[p].next # j)
      BY <2>1, <2>3, <1>5 DEF n
    <3>3. CASE ent[j].prev = 0
      BY <3>1, <3>3, <2>1, <1>3, <1>5
    <3>4. CASE ent[j].prev # 0
      BY <3>1, <3>2, <3>4, <2>1, <1>0, <1>1
    <3> QED
      BY <3>3, <3>4
  <2> QED
    BY <2>2, <2>3
<1>8. NextsYounger(e1, M, bn)
  <2> SUFFICES ASSUME NEW j \in M
      PROVE  /\ e1[j].next = 0 => \A k \in M : BucketIn(e1, k) = BucketIn(e1, j)
                                     => bn[k] <= bn[j]
             /\ e1[j].next # 0 =>
                  /\ e1[j].next \in M /\ BucketIn(e1, e1[j].next) = BucketIn(e1, j)
                  /\ e1[e1[j].next].prev = j /\ bn[j] < bn[e1[j].next]
                  /\ \A k \in M : BucketIn(e1, k) = BucketIn(e1, j) /\ bn[j] < bn[k]
                                   => bn[e1[j].next] <= bn[k]
    BY DEF NextsYounger
  <2>1. /\ j \in EntryIdx /\ j # i /\ j \in L
        /\ \A k \in M : k \in L /\ k \in EntryIdx /\ k # i
                       /\ BucketIn(e1, k) = BucketIn(ent, k)
        /\ \A k, m \in L : bn[k] = bn[m] => k = m
    BY <1>0, <1>2, <1>4 DEF Ages
  <2>2. \A m \in {i, j} :
          /\ ent[m].next = 0 => \A k \in L : BucketIn(ent, k) = BucketIn(ent, m)
                                  => bn[k] <= bn[m]
          /\ ent[m].next # 0 =>
               /\ ent[m].next \in L /\ BucketIn(ent, ent[m].next) = BucketIn(ent, m)
               /\ ent[ent[m].next].prev = m /\ bn[m] < bn[ent[m].next]
               /\ \A k \in L : BucketIn(ent, k) = BucketIn(ent, m) /\ bn[m] < bn[k]
                                => bn[ent[m].next] <= bn[k]
    BY <1>4, <2>1 DEF NextsYounger
  <2>3. CASE j = p
    <3>1. /\ p # 0 /\ e1[j].next = n /\ bn[j] < bn[i] /\ ent[j].next = i
          /\ BucketIn(ent, j) = BucketIn(ent, i)
      BY <2>1, <2>3, <1>0, <1>1, <1>5
    <3>2. \A k \in M : BucketIn(ent, k) = BucketIn(ent, j) /\ bn[j] < bn[k] => bn[i] < bn[k]
      <4> SUFFICES ASSUME NEW k \in M, BucketIn(ent, k) = BucketIn(ent, j), bn[j] < bn[k]
          PROVE  bn[i] < bn[k]
        OBVIOUS
      <4>1. bn[i] <= bn[k] /\ bn[i] # bn[k]
        BY <3>1, <2>1, <2>2, <1>0
      <4> QED
        BY <4>1, <2>1, <1>5
    <3>3. CASE n = 0
      <4>1. \A k \in L : BucketIn(ent, k) = BucketIn(ent, i) => bn[k] <= bn[i]
        BY <2>2, <3>3 DEF n
      <4>2. \A k \in M : BucketIn(ent, k) = BucketIn(ent, j) => bn[k] <= bn[j]
        BY <4>1, <3>1, <3>2, <2>1, <1>5
      <4> QED
        BY <4>2, <3>1, <3>3, <2>1
    <3>4. CASE n # 0
      <4>1. \A k \in L : BucketIn(ent, k) = BucketIn(ent, i) /\ bn[i] < bn[k]
                         => bn[n] <= bn[k]
        BY <2>2, <3>4 DEF n
      <4>2. n \in M /\ n \in EntryIdx /\ bn[j] < bn[n] /\ e1[n].prev = j
            /\ BucketIn(e1, n) = BucketIn(e1, j)
        BY <3>1, <3>4, <2>1, <2>3, <1>0, <1>1, <1>5
      <4>3. \A k \in M : BucketIn(e1, k) = BucketIn(e1, j) /\ bn[j] < bn[k] => bn[n] <= bn[k]
        BY <4>1, <3>1, <3>2, <2>1
      <4> QED
        BY <4>2, <4>3, <3>1, <3>4
    <3> QED
      BY <3>3, <3>4
  <2>4. CASE j # p
    <3>1. e1[j].next = ent[j].next
      BY <2>1, <2>4, <1>1
    <3>2. CASE ent[j].next = 0
      BY <3>1, <3>2, <2>1, <2>2
    <3>3. CASE ent[j].next # 0
      <4> DEFINE m == ent[j].next
      <4>1. m \in L /\ ent[m].prev = j /\ m # i /\ m # n /\ m \in M /\ m \in EntryIdx
        BY <3>3, <2>1, <2>2, <2>4, <1>0, <1>5 DEF p
      <4>2. e1[m].prev = j
        BY <4>1, <1>1
      <4> QED
        BY <3>1, <3>3, <4>1, <4>2, <2>1, <2>2
    <3> QED
      BY <3>2, <3>3
  <2> QED
    BY <2>3, <2>4
<1>9. HeadsOldest(e1, h1, M, bn)
  BY <1>0, <1>1, <1>2, <1>3, <1>4, <1>5 DEF HeadsOldest, NextsYounger, PrevsMirror,
     Ages, n, p
<1> QED
  BY <1>6, <1>7, <1>8, <1>9 DEF Sorted, e1, h1, n, p

(* Moving an entry to a free place keeps its bucket sorted: the table is the *)
(* one before with the entry renamed.                                       *)
LEMMA MoveSorted ==
  ASSUME NEW ent \in [EntryIdx -> EntryType],
         NEW bh \in [0..Slots-1 -> 0..Capacity],
         NEW bn \in [EntryIdx -> Nat], clock \in Nat,
         NEW L, L \subseteq EntryIdx, Sorted(ent, bh, L, bn),
         NEW old \in L, NEW new \in EntryIdx, new \notin L
  PROVE  Sorted(Moved(ent, old, new), RelinkHead(ent, bh, old, new),
                (L \ {old}) \cup {new}, [bn EXCEPT ![new] = bn[old]])
<1> DEFINE n  == ent[old].next
           p  == ent[old].prev
           e2 == Moved(ent, old, new)
           h2 == RelinkHead(ent, bh, old, new)
           M  == (L \ {old}) \cup {new}
           b2 == [bn EXCEPT ![new] = bn[old]]
           From(j) == IF j = new THEN old ELSE j
           To(x)   == IF x = old THEN new ELSE x
<1>0. /\ 0 \notin EntryIdx /\ M \subseteq EntryIdx /\ old \in EntryIdx
      /\ old # new
  BY DEF EntryIdx
<1>b. \A j \in EntryIdx : BucketIn(ent, j) \in 0..Slots-1
  BY HashType DEF EntryType, BucketIn
<1>4. /\ HeadsOldest(ent, bh, L, bn) /\ NextsYounger(ent, L, bn)
      /\ PrevsMirror(ent, bh, L) /\ Ages(L, bn)
  BY DEF Sorted
<1>5. /\ p # 0 => p \in L /\ p # old /\ ent[p].next = old
      /\ n # 0 => n \in L /\ n # old /\ ent[n].prev = old
      /\ p = 0 => bh[BucketIn(ent, old)] = old
      /\ p # 0 => bn[p] < bn[old]
      /\ n # 0 => bn[old] < bn[n]
      /\ \A j \in L : j \in EntryIdx /\ bn[j] \in Nat
  BY <1>0, <1>4 DEF NextsYounger, PrevsMirror
<1>6. \A j \in L \ {old} : /\ ent[j].next = old <=> j = p
                           /\ ent[j].prev = old <=> j = n
  BY <1>0, <1>4, <1>5 DEF NextsYounger, PrevsMirror
<1>7. \A h \in 0..Slots-1 : bh[h] = old <=> p = 0 /\ h = BucketIn(ent, old)
  BY <1>0, <1>b, <1>4, <1>5 DEF HeadsOldest
<1>8. \A j \in M : /\ From(j) \in L /\ To(From(j)) = j
                 /\ b2[j] = bn[From(j)]
                 /\ BucketIn(e2, j) = BucketIn(ent, From(j))
                 /\ e2[j].next = To(ent[From(j)].next)
                 /\ e2[j].prev = To(ent[From(j)].prev)
  <2> SUFFICES ASSUME NEW j \in M
      PROVE  /\ From(j) \in L /\ To(From(j)) = j
             /\ b2[j] = bn[From(j)]
             /\ BucketIn(e2, j) = BucketIn(ent, From(j))
             /\ e2[j].next = To(ent[From(j)].next)
             /\ e2[j].prev = To(ent[From(j)].prev)
    OBVIOUS
  <2>1. CASE j = new
    <3>1. e2[j] = ent[old] /\ b2[j] = bn[old]
      BY <2>1 DEF Moved, Relink
    <3>2. ent[old].next # old /\ ent[old].prev # old
      BY <1>0, <1>5
    <3> QED
      BY <2>1, <3>1, <3>2, <1>0 DEF BucketIn
  <2>2. CASE j # new
    <3>1. j \in L \ {old} /\ j \in EntryIdx
      BY <2>2, <1>0
    <3>2. e2[j] = Relink(ent, old, new, new)[j] /\ b2[j] = bn[j]
      BY <2>2, <3>1 DEF Moved, Relink
    <3>3. /\ e2[j].next = IF j = p THEN new ELSE ent[j].next
          /\ e2[j].prev = IF j = n THEN new ELSE ent[j].prev
          /\ e2[j].key = ent[j].key
      <4>1. ent[j] \in EntryType
        BY <3>1
      <4>2. e2[j] = [ent[j] EXCEPT !.next = IF j = p THEN new ELSE @,
                                   !.prev = IF j = n THEN new ELSE @]
        BY <3>1, <3>2 DEF Relink
      <4> HIDE DEF e2, n, p
      <4> QED
        BY <4>1, <4>2 DEF EntryType
    <3>4. From(j) = j /\ j # old
      BY <2>2, <3>1
    <3>5. BucketIn(e2, j) = BucketIn(ent, From(j))
      BY <3>3, <3>4 DEF BucketIn
    <3> HIDE DEF e2, n, p, b2, From, M
    <3>6. To(ent[j].next) = IF j = p THEN new ELSE ent[j].next
      <4>1. ent[j].next = old <=> j = p
        BY <3>1, <1>6
      <4> QED
        BY <4>1
    <3>7. To(ent[j].prev) = IF j = n THEN new ELSE ent[j].prev
      <4>1. ent[j].prev = old <=> j = n
        BY <3>1, <1>6
      <4> QED
        BY <4>1
    <3> QED
      BY <3>1, <3>2, <3>3, <3>4, <3>5, <3>6, <3>7
  <2> QED
    BY <2>1, <2>2
<1>9. \A h \in 0..Slots-1 : h2[h] = To(bh[h])
  BY <1>7, <1>b DEF RelinkHead, BucketIn
<1>10. /\ \A x \in L : To(x) \in M /\ From(To(x)) = x
       /\ \A x \in L \cup {0} : To(x) = 0 <=> x = 0
  BY <1>0
<1>11. \A i \in L : ent[i].next \in L \cup {0} /\ ent[i].prev \in L \cup {0}
  BY <1>4 DEF NextsYounger, PrevsMirror
<1>12. \A h \in 0..Slots-1 : bh[h] \in L \cup {0}
  BY <1>4 DEF HeadsOldest
<1>13. \A j \in M : From(j) \in EntryIdx
  BY <1>8
<1> HIDE DEF e2, h2, b2, n, p, From, To, M
<1>14. Ages(M, b2)
  BY <1>8, <1>4 DEF Ages
<1>15. PrevsMirror(e2, h2, M)
  <2> SUFFICES ASSUME NEW j \in M
      PROVE  /\ e2[j].prev = 0 => h2[BucketIn(e2, j)] = j
             /\ e2[j].prev # 0 => e2[j].prev \in M /\ e2[e2[j].prev].next = j
    BY DEF PrevsMirror
  <2> DEFINE i == From(j)
  <2>1. /\ i \in L /\ To(i) = j /\ BucketIn(e2, j) = BucketIn(ent, i)
        /\ e2[j].prev = To(ent[i].prev) /\ ent[i].prev \in L \cup {0}
        /\ BucketIn(ent, i) \in 0..Slots-1
    BY <1>8, <1>11, <1>13, <1>b
  <2>2. /\ ent[i].prev = 0 => bh[BucketIn(ent, i)] = i
        /\ ent[i].prev # 0 => ent[ent[i].prev].next = i
    BY <2>1, <1>4 DEF PrevsMirror
  <2> HIDE DEF i
  <2>3. CASE ent[i].prev = 0
    BY <2>1, <2>2, <2>3, <1>9, <1>10
  <2>4. CASE ent[i].prev # 0
    <3>1. /\ To(ent[i].prev) \in M /\ From(To(ent[i].prev)) = ent[i].prev
          /\ To(ent[i].prev) # 0
      BY <2>1, <2>4, <1>10
    <3>2. e2[To(ent[i].prev)].next = To(i)
      BY <3>1, <2>2, <2>4, <1>8
    <3> QED
      BY <2>1, <3>1, <3>2
  <2> QED
    BY <2>3, <2>4
<1>16. NextsYounger(e2, M, b2)
  BY <1>8, <1>10, <1>11, <1>4 DEF NextsYounger
<1>17. HeadsOldest(e2, h2, M, b2)
  BY <1>8, <1>9, <1>10, <1>11, <1>12, <1>4 DEF HeadsOldest
<1> QED
  BY <1>14, <1>15, <1>16, <1>17 DEF Sorted, e2, h2, b2, M

-----------------------------------------------------------------------------
(* A value does not enter into the order.                                   *)
LEMMA SetValueIInv ==
  ASSUME IInv, NEW i \in Live, NEW v \in Values, SetValue(i, v)
  PROVE  IInv'
<1>0. /\ UNCHANGED <<count, by_hash, born, clock, pc, loopVars>>
      /\ Live \subseteq EntryIdx /\ entries \in [EntryIdx -> EntryType]
  <2>1. count \in 0..Capacity => Live \subseteq EntryIdx
    BY HashAssumption DEF Live, EntryIdx
  <2> QED
    BY <2>1 DEF SetValue, IInv, TypeOK
<1>1. \A j \in EntryIdx : /\ entries'[j].next = entries[j].next
                         /\ entries'[j].prev = entries[j].prev
                         /\ entries'[j].key = entries[j].key
  BY <1>0 DEF SetValue, EntryType
<1>2. entries' \in [EntryIdx -> EntryType]
  BY <1>0 DEF SetValue, EntryType
<1>3. TypeOK' /\ NoPanic'
  <2>1. answer' \in Answers
    BY <1>0, AnswerKinds DEF SetValue, EntryType
  <2> QED
    BY <1>0, <1>2, <2>1 DEF IInv, TypeOK, NoPanic, loopVars
<1>4. KeysDistinct'
  BY <1>0, <1>1 DEF IInv, KeysDistinct, Live
<1>5. \A j \in EntryIdx : BucketIn(entries', j) = BucketIn(entries, j)
  BY <1>1 DEF BucketIn
<1>6. Live' = Live
  BY <1>0 DEF Live
<1>7. HeadsOldest(entries, by_hash, Live, born) => HeadsOldest(entries', by_hash', Live', born')
  BY <1>0, <1>1, <1>5, <1>6 DEF HeadsOldest
<1>8. NextsYounger(entries, Live, born) => NextsYounger(entries', Live', born')
  BY <1>0, <1>1, <1>5, <1>6 DEF NextsYounger
<1>9. PrevsMirror(entries, by_hash, Live) => PrevsMirror(entries', by_hash', Live')
  BY <1>0, <1>1, <1>5, <1>6 DEF PrevsMirror
<1>10. BucketsSorted'
  BY <1>0, <1>6, <1>7, <1>8, <1>9 DEF IInv, BucketsSorted, Sorted, Ages
<1>11. LoopInv'
  BY <1>0, <1>1, <1>5, <1>6 DEF IInv, LoopInv, BucketOf, loopVars
<1> QED
  BY <1>3, <1>4, <1>10, <1>11 DEF IInv

LEMMA ClearIInv == IInv /\ Clear => IInv'
<1> SUFFICES ASSUME IInv, Clear PROVE IInv'
  OBVIOUS
<1>1. count' = 0 /\ Live' = {} /\ 0 \in 0..Capacity
  BY HashAssumption DEF Clear, Live
<1>2. by_hash' \in [0..Slots-1 -> 0..Capacity]
  BY <1>1 DEF Clear
<1>3. TypeOK' /\ NoPanic' /\ LoopInv'
  BY <1>1, <1>2, AnswerKinds DEF IInv, TypeOK, NoPanic, LoopInv, Clear, loopVars
<1>4. KeysDistinct' /\ BucketsSorted'
  BY <1>1 DEF Clear, KeysDistinct, BucketsSorted, Sorted, HeadsOldest, NextsYounger,
     PrevsMirror, Ages
<1> QED
  BY <1>3, <1>4 DEF IInv

-----------------------------------------------------------------------------
(* The new entry is its bucket's youngest, and lookup's loop passed all of  *)
(* the bucket's entries before it.                                          *)
LEMMA InsertIInv == IInv /\ Insert => IInv'
<1> SUFFICES ASSUME IInv, Insert PROVE IInv'
  OBVIOUS
<1> DEFINE new == count + 1
           ep  == expected_prev
           h   == Hash(key)
<1>0. /\ pc = "walk" /\ idx = 0 /\ count < Capacity
      /\ new \in EntryIdx /\ new # 0 /\ new \notin Live /\ Live' = Live \cup {new}
      /\ Live \subseteq EntryIdx /\ 0 \notin EntryIdx
      /\ key \in Keys /\ h \in 0..Slots-1 /\ ep \in 0..Capacity
      /\ count' = new /\ clock \in Nat /\ clock' = clock + 1
  <2>1. /\ pc = "walk" /\ idx = 0 /\ count < Capacity /\ count \in 0..Capacity
        /\ key \in Keys /\ h \in 0..Slots-1 /\ ep \in 0..Capacity
        /\ count' = new /\ clock \in Nat /\ clock' = clock + 1
    BY HashType DEF IInv, TypeOK, Insert, HasFree
  <2>2. /\ new \in EntryIdx /\ new # 0 /\ new \notin Live /\ Live' = Live \cup {new}
        /\ Live \subseteq EntryIdx /\ 0 \notin EntryIdx
    BY <2>1, HashAssumption DEF Live, EntryIdx
  <2> QED
    BY <2>1, <2>2
<1>1. /\ entries \in [EntryIdx -> EntryType]
      /\ by_hash \in [0..Slots-1 -> 0..Capacity]
      /\ born \in [EntryIdx -> Nat]
  BY DEF IInv, TypeOK
<1>2. /\ HeadsOldest(entries, by_hash, Live, born)
      /\ NextsYounger(entries, Live, born)
      /\ PrevsMirror(entries, by_hash, Live) /\ Ages(Live, born)
  BY DEF IInv, BucketsSorted, Sorted
<1>3. /\ ep = 0 => by_hash[h] = 0
      /\ ep # 0 => ep \in Live /\ BucketIn(entries, ep) = h /\ entries[ep].next = 0
  BY <1>0 DEF IInv, LoopInv, BucketOf
<1>4. \A j \in Live : BucketIn(entries, j) = h =>
         /\ ep # 0 /\ born[j] <= born[ep] /\ entries[j].key # key
  BY <1>0, <1>2, <1>3 DEF IInv, LoopInv, BucketOf, HeadsOldest, NextsYounger
<1>5. \A j \in EntryIdx :
         entries'[j] = IF j = new THEN NewEntry(entries[j], ep, key)
                       ELSE IF j = ep THEN [entries[j] EXCEPT !.next = new]
                       ELSE entries[j]
  BY DEF Insert
<1>6. /\ entries'[new].next = 0 /\ entries'[new].prev = ep /\ entries'[new].key = key
      /\ \A j \in Live : /\ entries'[j].next = IF j = ep THEN new ELSE entries[j].next
                         /\ entries'[j].prev = entries[j].prev
                         /\ entries'[j].key = entries[j].key
  <2>1. entries[new] \in EntryType /\ \A j \in Live : entries[j] \in EntryType /\ j # new
    BY <1>0, <1>1
  <2>2. entries'[new] = [entries[new] EXCEPT !.prev = ep, !.next = 0, !.key = key]
    BY <1>0, <1>5 DEF NewEntry
  <2>3. \A j \in Live : entries'[j] = IF j = ep THEN [entries[j] EXCEPT !.next = new]
                                     ELSE entries[j]
    BY <1>0, <1>5
  <2> HIDE DEF new, ep
  <2>4. /\ entries'[new].next = 0 /\ entries'[new].prev = ep /\ entries'[new].key = key
    BY <2>1, <2>2 DEF EntryType
  <2> QED
    BY <2>1, <2>3, <2>4 DEF EntryType
<1>7. /\ BucketIn(entries', new) = h
      /\ \A j \in Live : BucketIn(entries', j) = BucketIn(entries, j)
  BY <1>6 DEF BucketIn
<1>8. /\ \A g \in 0..Slots-1 : by_hash'[g] = IF ep = 0 /\ g = h THEN new ELSE by_hash[g]
      /\ by_hash' \in [0..Slots-1 -> 0..Capacity]
  BY <1>0, <1>1 DEF Insert, EntryIdx
<1>9. /\ born'[new] = clock + 1 /\ born' \in [EntryIdx -> Nat]
      /\ \A j \in Live : born'[j] = born[j] /\ born[j] \in 1..clock
  BY <1>0, <1>1, <1>2 DEF Insert, Ages
<1>10. \A j \in Live : BucketIn(entries, j) \in 0..Slots-1
  BY <1>0, <1>1, HashType DEF BucketIn, EntryType
<1>11. TypeOK' /\ NoPanic' /\ LoopInv'
  <2>1. entries' \in [EntryIdx -> EntryType]
    <3>1. \A j \in EntryIdx : /\ NewEntry(entries[j], ep, key) \in EntryType
                             /\ [entries[j] EXCEPT !.next = new] \in EntryType
      <4>1. new \in 0..Capacity /\ 0 \in 0..Capacity
        BY <1>0, HashAssumption DEF EntryIdx
      <4> HIDE DEF new, ep
      <4>2. \A j \in EntryIdx : entries[j] \in EntryType
        BY <1>1
      <4>3. \A e \in EntryType : /\ [e EXCEPT !.prev = ep, !.next = 0, !.key = key] \in EntryType
                               /\ [e EXCEPT !.next = new] \in EntryType
        BY <1>0, <4>1 DEF EntryType
      <4> QED
        BY <4>2, <4>3 DEF NewEntry
    <3> QED
      BY <1>1, <3>1 DEF Insert
  <2>2. 0 \in 0..Capacity /\ count' \in 0..Capacity /\ clock' \in Nat
    BY <1>0, HashAssumption DEF EntryIdx
  <2>3. /\ pc' = "idle" /\ key' \in Keys /\ insert' \in BOOLEAN /\ idx' = 0
        /\ expected_prev' = 0
        /\ answer' = <<"inserted", entries'[new].key, entries'[new].value>>
    BY Some DEF Insert, Return
  <2>4. entries'[new] \in EntryType
    BY <2>1, <1>0
  <2>5. answer' \in Answers
    BY <2>3, <2>4, AnswerKinds DEF EntryType
  <2> QED
    BY <2>1, <2>2, <2>3, <2>5, <1>8, <1>9 DEF TypeOK, NoPanic, LoopInv
<1>12. KeysDistinct'
  <2>1. \A j \in Live : entries[j].key # key
    BY <1>4 DEF BucketIn
  <2> QED
    BY <2>1, <1>0, <1>6 DEF IInv, KeysDistinct
<1> HIDE DEF new, ep, h
<1>13. /\ \A i \in Live' : born'[i] \in 1..clock'
       /\ \A i, j \in Live' : born'[i] = born'[j] => i = j
  BY <1>0, <1>2, <1>9 DEF Ages
<1>14. PrevsMirror(entries', by_hash', Live')
  BY <1>0, <1>2, <1>3, <1>4, <1>6, <1>7, <1>8, <1>10 DEF PrevsMirror
<1>15. NextsYounger(entries', Live', born')
  <2> SUFFICES ASSUME NEW j \in Live'
      PROVE  /\ entries'[j].next = 0 =>
                  \A k \in Live' : BucketIn(entries', k) = BucketIn(entries', j)
                                   => born'[k] <= born'[j]
             /\ entries'[j].next # 0 =>
                  /\ entries'[j].next \in Live'
                  /\ BucketIn(entries', entries'[j].next) = BucketIn(entries', j)
                  /\ entries'[entries'[j].next].prev = j
                  /\ born'[j] < born'[entries'[j].next]
                  /\ \A k \in Live' : BucketIn(entries', k) = BucketIn(entries', j)
                                        /\ born'[j] < born'[k]
                                      => born'[entries'[j].next] <= born'[k]
    BY DEF NextsYounger
  <2>1. CASE j = new
    BY <2>1, <1>0, <1>6, <1>9
  <2>2. CASE j \in Live /\ j = ep
    BY <2>2, <1>0, <1>3, <1>4, <1>6, <1>7, <1>9
  <2>3. CASE j \in Live /\ j # ep /\ entries[j].next = 0
    <3>1. BucketIn(entries, j) # h
      <4> SUFFICES ASSUME BucketIn(entries, j) = h PROVE FALSE
        OBVIOUS
      <4>1. ep \in Live /\ born[j] <= born[ep] /\ BucketIn(entries, ep) = h
        BY <2>3, <1>3, <1>4
      <4>2. born[ep] <= born[j]
        BY <4>1, <2>3, <1>2 DEF NextsYounger
      <4> QED
        BY <4>1, <4>2, <2>3, <1>2, <1>9 DEF Ages
    <3>2. \A k \in Live : BucketIn(entries, k) = BucketIn(entries, j) => born[k] <= born[j]
      BY <2>3, <1>2 DEF NextsYounger
    <3> QED
      BY <3>1, <3>2, <2>3, <1>0, <1>6, <1>7, <1>9
  <2>4. CASE j \in Live /\ j # ep /\ entries[j].next # 0
    <3> DEFINE m == entries[j].next
    <3>1. /\ m \in Live /\ BucketIn(entries, m) = BucketIn(entries, j)
          /\ entries[m].prev = j /\ born[j] < born[m]
          /\ \A k \in Live : BucketIn(entries, k) = BucketIn(entries, j) /\ born[j] < born[k]
                            => born[m] <= born[k]
      BY <2>4, <1>2 DEF NextsYounger
    <3>2. entries'[j].next = m /\ m # 0
      BY <2>4, <1>6
    <3> HIDE DEF m
    <3> QED
      BY <3>1, <3>2, <2>4, <1>0, <1>6, <1>7, <1>9
  <2> QED
    BY <2>1, <2>2, <2>3, <2>4, <1>0
<1>16. HeadsOldest(entries', by_hash', Live', born')
  BY <1>0, <1>2, <1>3, <1>4, <1>6, <1>7, <1>8, <1>9 DEF HeadsOldest
<1>17. BucketsSorted'
  BY <1>13, <1>14, <1>15, <1>16 DEF BucketsSorted, Sorted, Ages
<1> QED
  BY <1>11, <1>12, <1>17 DEF IInv

-----------------------------------------------------------------------------
LEMMA RelinkType ==
  ASSUME NEW ent \in [EntryIdx -> EntryType], NEW i \in EntryIdx,
         NEW n \in 0..Capacity, NEW p \in 0..Capacity
  PROVE  Relink(ent, i, n, p) \in [EntryIdx -> EntryType]
<1>1. \A e \in EntryType, x, y \in 0..Capacity :
         [e EXCEPT !.next = x, !.prev = y] \in EntryType
  BY DEF EntryType
<1>2. ASSUME NEW j \in EntryIdx
      PROVE  [ent[j] EXCEPT !.next = IF j = ent[i].prev THEN n ELSE @,
                            !.prev = IF j = ent[i].next THEN p ELSE @] \in EntryType
  <2>1. ent[j] \in EntryType /\ ent[j].next \in 0..Capacity /\ ent[j].prev \in 0..Capacity
    BY DEF EntryType
  <2> QED
    BY <2>1, <1>1
<1> QED
  BY <1>2 DEF Relink

LEMMA RelinkHeadType ==
  ASSUME NEW ent \in [EntryIdx -> EntryType], NEW i \in EntryIdx,
         NEW bh \in [0..Slots-1 -> 0..Capacity], NEW n \in 0..Capacity
  PROVE  RelinkHead(ent, bh, i, n) \in [0..Slots-1 -> 0..Capacity]
BY DEF RelinkHead

(* A removal is an unlinking and, unless it is of the last entry, a move.   *)
LEMMA RemoveIInv ==
  ASSUME IInv, NEW i \in Live, Remove(i)
  PROVE  IInv'
<1> DEFINE e1 == Unlinked(i)
           h1 == UnlinkedHead(i)
           M  == Live \ {i}
<1>0. /\ count \in 0..Capacity /\ count' = count - 1 /\ count \in Live
      /\ Live \subseteq EntryIdx /\ i \in EntryIdx /\ i <= count /\ i >= 1
      /\ EntryIdx \subseteq 0..Capacity
      /\ pc = "idle" /\ UNCHANGED <<clock, pc, loopVars>> /\ clock \in Nat
  <2>1. count \in 0..Capacity /\ clock \in Nat
    BY DEF IInv, TypeOK
  <2>2. /\ count \in Live /\ Live \subseteq EntryIdx /\ i \in EntryIdx
        /\ i <= count /\ i >= 1 /\ EntryIdx \subseteq 0..Capacity
    BY <2>1, HashAssumption DEF Live, EntryIdx
  <2> QED
    BY <2>1, <2>2 DEF Remove
<1>1. /\ entries \in [EntryIdx -> EntryType]
      /\ by_hash \in [0..Slots-1 -> 0..Capacity]
      /\ born \in [EntryIdx -> Nat]
      /\ entries[i].next \in 0..Capacity /\ entries[i].prev \in 0..Capacity
  BY <1>0 DEF IInv, TypeOK, EntryType
<1>2. e1 \in [EntryIdx -> EntryType] /\ h1 \in [0..Slots-1 -> 0..Capacity]
  BY <1>0, <1>1, RelinkType, RelinkHeadType DEF Unlinked, UnlinkedHead
<1>3. \A j \in EntryIdx : e1[j].key = entries[j].key
  <2> SUFFICES ASSUME NEW j \in EntryIdx PROVE e1[j].key = entries[j].key
    OBVIOUS
  <2>1. entries[j] \in EntryType
    BY <1>1
  <2> QED
    BY <2>1 DEF Unlinked, Relink, EntryType
<1>4. Sorted(e1, h1, M, born)
  <2>1. Sorted(entries, by_hash, Live, born)
    BY DEF IInv, BucketsSorted
  <2> QED
    BY <2>1, <1>0, <1>1, UnlinkSorted DEF Unlinked, UnlinkedHead
<1>5. /\ entries' \in [EntryIdx -> EntryType] /\ by_hash' \in [0..Slots-1 -> 0..Capacity]
      /\ born' \in [EntryIdx -> Nat]
      /\ Sorted(entries', by_hash', Live', born')
      /\ \A j \in Live' : entries'[j].key = IF j = i THEN entries[count].key
                                           ELSE entries[j].key
  <2>1. CASE count = i
    <3>1. /\ entries' = e1 /\ by_hash' = h1 /\ born' = born
      BY <2>1, <1>1 DEF Remove
    <3>2. Live' = M /\ Live' \subseteq EntryIdx /\ i \notin Live'
      BY <2>1, <1>0 DEF Live
    <3> HIDE DEF e1, h1, M
    <3> QED
      BY <3>1, <3>2, <1>1, <1>2, <1>3, <1>4
  <2>2. CASE count # i
    <3>1. /\ entries' = Moved(e1, count, i)
          /\ by_hash' = RelinkHead(e1, h1, count, i)
          /\ born' = [born EXCEPT ![i] = born[count]]
      BY <2>2 DEF Remove
    <3>2. /\ Live' = (M \ {count}) \cup {i} /\ count \in M /\ i \notin M
          /\ M \subseteq EntryIdx /\ count \in EntryIdx /\ i \in EntryIdx
          /\ Live' \subseteq EntryIdx
      BY <2>2, <1>0 DEF Live
    <3> HIDE DEF e1, h1, M
    <3>3. Sorted(entries', by_hash', Live', born')
      BY <3>1, <3>2, <1>0, <1>1, <1>2, <1>4, MoveSorted
    <3>4. Relink(e1, count, i, i) \in [EntryIdx -> EntryType]
      BY <3>2, <1>0, <1>2, RelinkType
    <3>5. entries' \in [EntryIdx -> EntryType]
      BY <3>1, <3>2, <3>4, <1>2 DEF Moved
    <3>6. /\ by_hash' \in [0..Slots-1 -> 0..Capacity] /\ born' \in [EntryIdx -> Nat]
      BY <3>1, <3>2, <1>0, <1>1, <1>2, RelinkHeadType
    <3>7. ASSUME NEW j \in Live'
          PROVE  entries'[j].key = IF j = i THEN entries[count].key ELSE entries[j].key
      <4>1. CASE j = i
        BY <4>1, <3>1, <3>2, <3>4, <1>3 DEF Moved
      <4>2. CASE j # i
        <5>1. entries'[j] = Relink(e1, count, i, i)[j] /\ j \in EntryIdx /\ e1[j] \in EntryType
          BY <4>2, <3>1, <3>2, <3>4, <1>2 DEF Moved
        <5>2. Relink(e1, count, i, i)[j].key = e1[j].key
          BY <5>1 DEF Relink, EntryType
        <5> QED
          BY <4>2, <5>1, <5>2, <1>3
      <4> QED
        BY <4>1, <4>2
    <3> QED
      BY <3>3, <3>5, <3>6, <3>7
  <2> QED
    BY <2>1, <2>2
<1> HIDE DEF e1, h1, M
<1>6. BucketsSorted'
  BY <1>0, <1>5 DEF BucketsSorted, Sorted, Ages
<1>7. KeysDistinct'
  <2>1. \A j \in Live' : j \in Live /\ j # count
    BY <1>0 DEF Live
  <2> QED
    BY <2>1, <1>0, <1>5 DEF IInv, KeysDistinct
<1>8. count' \in 0..Capacity
  BY <1>0, HashAssumption DEF EntryIdx
<1>10. answer' \in Answers
  BY <1>0, <1>1, AnswerKinds DEF Remove, EntryType
<1>9. TypeOK' /\ NoPanic' /\ LoopInv'
  BY <1>0, <1>5, <1>8, <1>10 DEF IInv, TypeOK, NoPanic, LoopInv, loopVars
<1> QED
  BY <1>6, <1>7, <1>9 DEF IInv

-----------------------------------------------------------------------------
LEMMA StutterIInv == IInv /\ UNCHANGED vars => IInv'
<1> SUFFICES ASSUME IInv, UNCHANGED vars PROVE IInv'
  OBVIOUS
<1> USE DEF vars, tableVars, loopVars
<1>1. TypeOK' /\ NoPanic' /\ LoopInv'
  BY DEF IInv, TypeOK, NoPanic, LoopInv, Live, BucketOf, BucketIn
<1>2. KeysDistinct' /\ BucketsSorted'
  BY DEF IInv, KeysDistinct, BucketsSorted, Sorted, HeadsOldest, NextsYounger,
     PrevsMirror, Ages, BucketIn, Live
<1> QED
  BY <1>1, <1>2 DEF IInv

LEMMA NextIInv == IInv /\ [Next]_vars => IInv'
<1> SUFFICES ASSUME IInv, [Next]_vars PROVE IInv'
  OBVIOUS
<1>1. ASSUME NEW k \in Keys, NEW ins \in BOOLEAN, Lookup(k, ins) PROVE IInv'
  BY <1>1, LookupIInv
<1>2. CASE Walk
  BY <1>2, WalkIInv
<1>3. CASE NotFound
  <2>1. <<"absent", key>> \in Answers
    BY AnswerKinds DEF IInv, TypeOK
  <2> QED
    BY <1>3, <2>1, ReturnIInv DEF NotFound
<1>4. CASE TableFull
  <2>1. <<"full", key>> \in Answers
    BY AnswerKinds DEF IInv, TypeOK
  <2> QED
    BY <1>4, <2>1, ReturnIInv DEF TableFull
<1>5. CASE Insert
  BY <1>5, InsertIInv
<1>6. ASSUME NEW i \in Live, Remove(i) PROVE IInv'
  BY <1>6, RemoveIInv
<1>7. ASSUME NEW i \in Live, NEW v \in Values, SetValue(i, v) PROVE IInv'
  BY <1>7, SetValueIInv
<1>8. CASE Clear
  BY <1>8, ClearIInv
<1>9. CASE UNCHANGED vars
  BY <1>9, StutterIInv
<1> QED
  BY <1>1, <1>2, <1>3, <1>4, <1>5, <1>6, <1>7, <1>8, <1>9 DEF Next, LoopStep

(* Every bucket of the table lists exactly its entries, oldest first, and a *)
(* lookup in progress has compared the entries it passed: the invariant     *)
(* that lookup, insertion, remove and clear preserve.                       *)
THEOREM HashInvariant == Spec => []IInv
<1> QED
  BY InitIInv, NextIInv, PTL DEF Spec

(* Types, and every index that lookup, remove and the moving of the last    *)
(* entry follow names an entry that exists.                                 *)
THEOREM HashTypeCorrect == Spec => []TypeOK
<1>1. IInv => TypeOK
  BY DEF IInv
<1> QED
  BY <1>1, HashInvariant, PTL

(* The assertion in lookup's loop, that prev mirrors next, never fails.     *)
THEOREM HashNoPanic == Spec => []NoPanic
<1>1. IInv => NoPanic
  BY DEF IInv
<1> QED
  BY <1>1, HashInvariant, PTL

(* lookup with insertion never enters a key a second time.                  *)
THEOREM HashKeysDistinct == Spec => []KeysDistinct
<1>1. IInv => KeysDistinct
  BY DEF IInv
<1> QED
  BY <1>1, HashInvariant, PTL

-----------------------------------------------------------------------------
(* The table implements a bounded map.                                      *)

(* The map that the entries ent at the indices L stand for.                 *)
Table(ent, L) ==
  [k \in {ent[i].key : i \in L} |-> ent[CHOOSE i \in L : ent[i].key = k].value]

Unique(ent, L) == \A i, j \in L : ent[i].key = ent[j].key => i = j

LEMMA TableAt ==
  ASSUME NEW ent, NEW L, Unique(ent, L)
  PROVE  /\ DOMAIN Table(ent, L) = {ent[i].key : i \in L}
         /\ Table(ent, L) = [k \in DOMAIN Table(ent, L) |-> Table(ent, L)[k]]
         /\ \A i \in L : Table(ent, L)[ent[i].key] = ent[i].value
<1>1. DOMAIN Table(ent, L) = {ent[i].key : i \in L}
  BY DEF Table
<1>2. Table(ent, L) = [k \in DOMAIN Table(ent, L) |-> Table(ent, L)[k]]
  BY DEF Table
<1>3. ASSUME NEW i \in L PROVE Table(ent, L)[ent[i].key] = ent[i].value
  <2> DEFINE c == CHOOSE j \in L : ent[j].key = ent[i].key
  <2>1. c \in L /\ ent[c].key = ent[i].key
    OBVIOUS
  <2>2. c = i
    BY <2>1 DEF Unique
  <2>3. Table(ent, L)[ent[i].key] = ent[c].value
    BY DEF Table
  <2> QED
    BY <2>2, <2>3
<1> QED
  BY <1>1, <1>2, <1>3

LEMMA ContentsIsTable ==
  /\ Contents = Table(entries, Live)
  /\ Contents' = Table(entries', Live')
BY Zenon DEF Contents, Table

(* A table and a function with the same entries are the same map.           *)
LEMMA SameMap ==
  ASSUME NEW ent, NEW L, Unique(ent, L), NEW D, NEW f, f = [k \in D |-> f[k]],
         D = {ent[i].key : i \in L}, \A i \in L : f[ent[i].key] = ent[i].value
  PROVE  Table(ent, L) = f
<1>0. /\ DOMAIN Table(ent, L) = {ent[i].key : i \in L}
      /\ Table(ent, L) = [k \in DOMAIN Table(ent, L) |-> Table(ent, L)[k]]
      /\ \A i \in L : Table(ent, L)[ent[i].key] = ent[i].value
  BY ONLY Unique(ent, L), TableAt, Zenon
<1> DEFINE t == Table(ent, L)
<1>1. /\ DOMAIN t = D /\ t = [k \in DOMAIN t |-> t[k]]
      /\ \A i \in L : t[ent[i].key] = ent[i].value
  BY <1>0, Zenon
<1> HIDE DEF t
<1>b. t = [k \in D |-> t[k]]
  BY <1>1
<1>2. ASSUME NEW k \in D PROVE t[k] = f[k]
  BY <1>1
<1>3. t = f
  BY <1>b, <1>2
<1> QED
  BY <1>3 DEF t

(* BoundedMap counts with the same operator.                                *)
LEMMA SameCount == \A S : Map!Cardinality(S) = Cardinality(S)
BY Zenon DEF Map!Cardinality, Cardinality

(* As many keys as entries.                                                 *)
LEMMA HowManyKeys ==
  ASSUME IInv PROVE Cardinality(DOMAIN Contents) = count
<1> DEFINE D == {entries[i].key : i \in Live}
           f == [i \in Live |-> entries[i].key]
<1>1. DOMAIN Contents = D
  BY DEF Contents
<1>2. \A i, j \in Live : entries[i].key = entries[j].key => i = j
  BY DEF IInv, KeysDistinct
<1>3. f \in Bijection(Live, D)
  <2>1. f \in [Live -> D]
    OBVIOUS
  <2>2. \A i, j \in Live : f[i] = f[j] => i = j
    BY <1>2
  <2>3. \A k \in D : \E i \in Live : f[i] = k
    OBVIOUS
  <2> HIDE DEF f, D
  <2> QED
    BY <2>1, <2>2, <2>3, Fun_IsBij
<1>4. count \in Nat /\ count \in Int /\ 1 \in Int
  BY HashAssumption DEF IInv, TypeOK
<1>5. IsFiniteSet(Live) /\ Cardinality(Live) = count
  <2>1. IsFiniteSet(1..count) /\ Cardinality(1..count) = IF 1 > count THEN 0 ELSE count - 1 + 1
    BY <1>4, FS_Interval
  <2> QED
    BY <1>4, <2>1 DEF Live
<1> HIDE DEF D, f
<1>6. ExistsBijection(Live, D)
  BY <1>3 DEF ExistsBijection
<1>7. Cardinality(D) = Cardinality(Live)
  BY <1>5, <1>6, FS_Bijection
<1> QED
  BY <1>1, <1>5, <1>7

LEMMA Uniques ==
  /\ KeysDistinct => Unique(entries, Live)
  /\ KeysDistinct' => Unique(entries', Live')
BY DEF KeysDistinct, Unique, Live

LEMMA ContentsAt ==
  ASSUME IInv
  PROVE  /\ DOMAIN Contents = {entries[i].key : i \in Live}
         /\ Contents = [k \in DOMAIN Contents |-> Contents[k]]
         /\ \A i \in Live : Contents[entries[i].key] = entries[i].value
<1>1. Unique(entries, Live)
  BY Uniques DEF IInv
<1> DEFINE t == Table(entries, Live)
<1>2. /\ DOMAIN t = {entries[i].key : i \in Live}
      /\ t = [k \in DOMAIN t |-> t[k]]
      /\ \A i \in Live : t[entries[i].key] = entries[i].value
  BY <1>1, TableAt
<1>3. Contents = t
  BY ContentsIsTable
<1> HIDE DEF t
<1> QED
  BY <1>2, <1>3

LEMMA InitMap == Init => Map!Init
<1> SUFFICES ASSUME Init PROVE Map!Init
  OBVIOUS
<1>1. Live = {}
  BY DEF Init, Live
<1>2. Contents = [k \in {} |-> 0]
  <2>1. {entries[i].key : i \in Live} = {}
    BY <1>1
  <2> QED
    BY <2>1 DEF Contents
<1> QED
  BY <1>2 DEF Init, Pending, Map!Init

(* A lookup is pending while its loop runs.                                 *)
LEMMA Pendings ==
  /\ pc = "idle" => Pending = <<>>
  /\ pc = "walk" => Pending = <<key, insert>>
  /\ pc' = "idle" => Pending' = <<>>
  /\ pc' = "walk" => Pending' = <<key', insert'>>
BY DEF Pending

(* The loop ran off its bucket without meeting the key.                     *)
LEMMA PassedAll ==
  ASSUME IInv, pc = "walk", idx = 0
  PROVE  key \notin DOMAIN Contents
<1> SUFFICES ASSUME NEW j \in Live, entries[j].key = key PROVE FALSE
  BY DEF Contents
<1>1. key \in Keys /\ Hash(key) \in 0..Slots-1 /\ BucketIn(entries, j) = Hash(key)
  BY HashType DEF IInv, TypeOK, BucketIn
<1>2. /\ HeadsOldest(entries, by_hash, Live, born)
      /\ NextsYounger(entries, Live, born)
  BY DEF IInv, BucketsSorted, Sorted
<1> QED
  BY <1>1, <1>2 DEF IInv, LoopInv, BucketOf, HeadsOldest, NextsYounger

LEMMA WalkMap ==
  ASSUME IInv, IInv', Walk
  PROVE  Map!Next \/ UNCHANGED <<Contents, Pending, answer>>
<1>1. UNCHANGED <<entries, count>> /\ Contents' = Contents
  BY DEF Walk, tableVars, Contents, Live
<1>2. entries[idx].prev = expected_prev
  BY DEF Walk, IInv, NoPanic
<1>3. CASE entries[idx].key = key
  <2>0. pc = "walk" /\ idx # 0 /\ idx \in EntryIdx /\ key \in Keys
    BY DEF Walk, IInv, TypeOK, EntryIdx
  <2>1. idx \in Live
    BY <2>0, HashType DEF IInv, LoopInv, BucketsSorted, Sorted, HeadsOldest,
       NextsYounger, BucketOf, BucketIn
  <2>2. key \in Keys /\ insert \in BOOLEAN
    BY DEF IInv, TypeOK
  <2>3. key \in DOMAIN Contents /\ Contents[key] = entries[idx].value
    BY <1>3, <2>1, ContentsAt
  <2>4. pc' = "idle" /\ answer' = <<"found", key, Contents[key]>>
    BY <1>2, <1>3, <2>3 DEF Walk, Return
  <2>5. Map!Found(key, insert)
    BY <1>1, <2>0, <2>3, <2>4, Pendings DEF Map!Found, Map!Return
  <2> QED
    BY <2>2, <2>5 DEF Map!Next
<1>4. CASE entries[idx].key # key
  <2>1. pc = "walk" /\ UNCHANGED <<pc, key, insert, answer>>
    BY <1>2, <1>4 DEF Walk
  <2> QED
    BY <1>1, <2>1, Pendings
<1> QED
  BY <1>3, <1>4

LEMMA RanOffMap ==
  ASSUME IInv, NotFound \/ TableFull
  PROVE  Map!Next
<1>1. UNCHANGED <<entries, count>> /\ Contents' = Contents
  <2>1. UNCHANGED tableVars
    BY DEF NotFound, TableFull
  <2> QED
    BY <2>1 DEF tableVars, Contents, Live
<1>2. key \in Keys /\ key \notin DOMAIN Contents
  BY PassedAll DEF NotFound, TableFull, IInv, TypeOK
<1>3. CASE NotFound
  <2>1. pc = "walk" /\ ~insert /\ pc' = "idle" /\ answer' = <<"absent", key>>
    BY <1>3 DEF NotFound, Return
  <2>2. Pending = <<key, FALSE>>
    BY <2>1, Pendings DEF IInv, TypeOK
  <2>3. Map!Absent(key)
    BY <1>1, <1>2, <2>1, <2>2, Pendings DEF Map!Absent, Map!Return
  <2> QED
    BY <1>2, <2>3 DEF Map!Next
<1>4. CASE TableFull
  <2>1. count = Capacity
    BY <1>4, HashAssumption DEF TableFull, HasFree, IInv, TypeOK
  <2>2. Cardinality(DOMAIN Contents) = Capacity
    BY <2>1, HowManyKeys
  <2>3. pc = "walk" /\ insert /\ pc' = "idle" /\ answer' = <<"full", key>>
    BY <1>4 DEF TableFull, Return
  <2>5. Pending = <<key, TRUE>>
    BY <2>3, Pendings DEF IInv, TypeOK
  <2>4. Map!Full(key)
    BY <1>1, <1>2, <2>2, <2>3, <2>5, SameCount, Pendings DEF Map!Full, Map!Return
  <2> QED
    BY <1>2, <2>4 DEF Map!Next
<1> QED
  BY <1>3, <1>4

(* The entries of a table in use, and how the map grows by one.             *)
LEMMA InsertMap ==
  ASSUME IInv, IInv', Insert
  PROVE  Map!Next
<1> DEFINE new == count + 1
           D   == DOMAIN Contents \cup {key}
           f   == [x \in D |-> IF x = key THEN entries[new].value ELSE Contents[x]]
<1>1. /\ pc = "walk" /\ idx = 0 /\ count \in 0..Capacity /\ count < Capacity
      /\ key \in Keys /\ count' = new /\ pc' = "idle"
      /\ answer' = <<"inserted", entries'[new].key, entries'[new].value>>
  BY DEF IInv, TypeOK, Insert, HasFree, Return
<1>a. Pending = <<key, TRUE>> /\ Pending' = <<>>
  BY <1>1, Pendings DEF Insert, IInv, TypeOK
<1>2. /\ new \in EntryIdx /\ new \notin Live /\ Live' = Live \cup {new}
      /\ Live \subseteq EntryIdx
  BY <1>1, HashAssumption DEF Live, EntryIdx
<1>3. entries \in [EntryIdx -> EntryType]
  BY DEF IInv, TypeOK
<1>4. /\ entries'[new].key = key /\ entries'[new].value = entries[new].value
      /\ \A j \in Live : /\ entries'[j].key = entries[j].key
                         /\ entries'[j].value = entries[j].value
  <2>1. \A j \in EntryIdx :
          entries'[j] = IF j = new THEN NewEntry(entries[j], expected_prev, key)
                        ELSE IF j = expected_prev THEN [entries[j] EXCEPT !.next = new]
                        ELSE entries[j]
    BY DEF Insert
  <2>2. \A e \in EntryType :
          /\ NewEntry(e, expected_prev, key).key = key
          /\ NewEntry(e, expected_prev, key).value = e.value
          /\ [e EXCEPT !.next = new].key = e.key
          /\ [e EXCEPT !.next = new].value = e.value
    BY DEF EntryType, NewEntry
  <2>3. entries[new] \in EntryType /\ \A j \in Live : entries[j] \in EntryType /\ j # new
    BY <1>2, <1>3
  <2> HIDE DEF new
  <2> QED
    BY <1>2, <2>1, <2>2, <2>3
<1>5. key \notin DOMAIN Contents /\ Cardinality(DOMAIN Contents) < Capacity
  BY <1>1, PassedAll, HowManyKeys
<1>6. /\ DOMAIN Contents = {entries[i].key : i \in Live}
      /\ \A i \in Live : Contents[entries[i].key] = entries[i].value
  BY ContentsAt
<1> HIDE DEF new
<1>7. D = {entries'[i].key : i \in Live'}
  <2>1. \A k \in D : \E i \in Live' : entries'[i].key = k
    BY <1>2, <1>4, <1>6
  <2>2. \A i \in Live' : entries'[i].key \in D
    BY <1>2, <1>4, <1>6
  <2> QED
    BY <2>1, <2>2
<1>8. \A i \in Live' : f[entries'[i].key] = entries'[i].value
  <2> SUFFICES ASSUME NEW i \in Live' PROVE f[entries'[i].key] = entries'[i].value
    OBVIOUS
  <2>1. entries'[i].key \in D
    BY <1>7
  <2>2. CASE i = new
    BY <2>1, <2>2, <1>4
  <2>3. CASE i \in Live
    BY <2>1, <2>3, <1>4, <1>5, <1>6
  <2> QED
    BY <2>2, <2>3, <1>2
<1>9. f = [x \in D |-> f[x]]
  OBVIOUS
<1>10. Contents' = f
  <2>1. Unique(entries', Live')
    BY Uniques DEF IInv
  <2> HIDE DEF f, D
  <2> QED
    BY <2>1, <1>7, <1>8, <1>9, SameMap, ContentsIsTable
<1>11. entries[new].value \in Values
  BY <1>2, <1>3 DEF EntryType
<1>12. Map!Insert(key, entries[new].value)
  <2>1. answer' = <<"inserted", key, entries[new].value>>
    BY <1>1, <1>4
  <2>2. Contents' = [x \in DOMAIN Contents \cup {key} |->
                      IF x = key THEN entries[new].value ELSE Contents[x]]
    BY <1>10
  <2> QED
    BY <1>a, <1>5, <2>1, <2>2, SameCount DEF Map!Insert, Map!Return
<1> QED
  BY <1>1, <1>11, <1>12 DEF Map!Next

LEMMA SetValueMap ==
  ASSUME IInv, IInv', NEW i \in Live, NEW v \in Values, SetValue(i, v)
  PROVE  Map!Next
<1> DEFINE k == entries[i].key
           D == DOMAIN Contents
           f == [Contents EXCEPT ![k] = v]
<1>a. Pending = <<>> /\ Pending' = <<>> /\ answer' = <<"assigned", k, v>>
  BY Pendings DEF SetValue
<1>0. /\ Live' = Live /\ entries' = [entries EXCEPT ![i].value = v]
      /\ entries \in [EntryIdx -> EntryType] /\ Live \subseteq EntryIdx
  <2>1. count \in 0..Capacity => Live \subseteq EntryIdx
    BY HashAssumption DEF Live, EntryIdx
  <2> QED
    BY <2>1 DEF SetValue, Live, IInv, TypeOK
<1>1. \A j \in Live : /\ entries'[j].key = entries[j].key
                      /\ entries'[j].value = IF j = i THEN v ELSE entries[j].value
  BY <1>0 DEF EntryType
<1>2. Unique(entries, Live) /\ Unique(entries', Live')
  BY Uniques DEF IInv
<1>3. /\ D = {entries[j].key : j \in Live}
      /\ Contents = [x \in D |-> Contents[x]]
      /\ \A j \in Live : Contents[entries[j].key] = entries[j].value
  BY ContentsAt
<1>4. k \in Keys /\ k \in D
  BY <1>0, <1>3 DEF EntryType
<1>5. D = {entries'[j].key : j \in Live'}
  BY <1>0, <1>1, <1>3
<1>6. f = [x \in D |-> f[x]]
  BY <1>3
<1>7. \A j \in Live' : f[entries'[j].key] = entries'[j].value
  <2> SUFFICES ASSUME NEW j \in Live' PROVE f[entries'[j].key] = entries'[j].value
    OBVIOUS
  <2>1. j \in Live /\ entries[j].key \in D /\ (entries[j].key = k => j = i)
    BY <1>0, <1>2, <1>3 DEF Unique
  <2> QED
    BY <2>1, <1>1, <1>3
<1>8. Contents' = f
  <2> HIDE DEF f, D
  <2> QED
    BY <1>2, <1>5, <1>6, <1>7, SameMap, ContentsIsTable
<1>9. Map!Assign(k, v)
  BY <1>a, <1>0, <1>4, <1>8 DEF Map!Assign
<1> QED
  BY <1>4, <1>9 DEF Map!Next

(* The last entry moves into the hole: the others keep key and value.       *)
LEMMA RemoveMap ==
  ASSUME IInv, IInv', NEW i \in Live, Remove(i)
  PROVE  Map!Next
<1> DEFINE k == entries[i].key
           D == DOMAIN Contents \ {k}
           f == [x \in D |-> Contents[x]]
           From(j) == IF j = i THEN count ELSE j
           e1 == Unlinked(i)
<1>a. Pending = <<>> /\ Pending' = <<>> /\ answer' = <<"removed", k>>
  BY Pendings DEF Remove
<1>0. /\ count \in 0..Capacity /\ count \in Live /\ Live \subseteq EntryIdx
      /\ i \in EntryIdx /\ count \in EntryIdx
      /\ Live' = Live \ {count} /\ entries \in [EntryIdx -> EntryType]
  <2>1. count \in 0..Capacity /\ count' = count - 1
        /\ entries \in [EntryIdx -> EntryType]
    BY DEF IInv, TypeOK, Remove
  <2>2. /\ count \in Live /\ Live \subseteq EntryIdx /\ i \in EntryIdx
        /\ count \in EntryIdx /\ Live' = Live \ {count}
    BY <2>1, HashAssumption DEF Live, EntryIdx
  <2> QED
    BY <2>1, <2>2
<1>1. /\ e1 \in [EntryIdx -> EntryType]
      /\ \A j \in EntryIdx : e1[j].key = entries[j].key /\ e1[j].value = entries[j].value
  <2>1. entries[i].next \in 0..Capacity /\ entries[i].prev \in 0..Capacity
    BY <1>0 DEF EntryType
  <2>2. e1 \in [EntryIdx -> EntryType]
    BY <1>0, <2>1, RelinkType DEF Unlinked
  <2>3. ASSUME NEW j \in EntryIdx
        PROVE  e1[j].key = entries[j].key /\ e1[j].value = entries[j].value
    <3>1. entries[j] \in EntryType
      BY <1>0
    <3> QED
      BY <3>1 DEF Unlinked, Relink, EntryType
  <2> QED
    BY <2>2, <2>3
<1>2. \A j \in Live' : /\ entries'[j].key = entries[From(j)].key
                       /\ entries'[j].value = entries[From(j)].value
  <2>1. CASE count = i
    <3>1. entries' = e1 /\ \A j \in Live' : j \in EntryIdx /\ From(j) = j
      BY <2>1, <1>0 DEF Remove
    <3> HIDE DEF e1, From
    <3> QED
      BY <3>1, <1>1
  <2>2. CASE count # i
    <3>1. entries' = Moved(e1, count, i)
      BY <2>2 DEF Remove
    <3> HIDE DEF e1
    <3>2. Relink(e1, count, i, i) \in [EntryIdx -> EntryType]
      <4>1. i \in 0..Capacity
        BY <1>0, HashAssumption DEF EntryIdx
      <4> QED
        BY <4>1, <1>0, <1>1, RelinkType
    <3>3. ASSUME NEW j \in Live'
          PROVE  /\ entries'[j].key = entries[From(j)].key
                 /\ entries'[j].value = entries[From(j)].value
      <4>1. CASE j = i
        BY <4>1, <3>1, <3>2, <1>0, <1>1 DEF Moved
      <4>2. CASE j # i
        <5>1. entries'[j] = Relink(e1, count, i, i)[j] /\ j \in EntryIdx
              /\ e1[j] \in EntryType
          BY <4>2, <3>1, <3>2, <1>0, <1>1 DEF Moved
        <5>2. /\ Relink(e1, count, i, i)[j].key = e1[j].key
              /\ Relink(e1, count, i, i)[j].value = e1[j].value
          BY <5>1 DEF Relink, EntryType
        <5> QED
          BY <4>2, <5>1, <5>2, <1>1
      <4> QED
        BY <4>1, <4>2
    <3> QED
      BY <3>3
  <2> QED
    BY <2>1, <2>2
<1>3. /\ DOMAIN Contents = {entries[j].key : j \in Live}
      /\ \A j \in Live : Contents[entries[j].key] = entries[j].value
  BY ContentsAt
<1>4. Unique(entries, Live) /\ Unique(entries', Live')
  BY Uniques DEF IInv
<1>5. /\ \A j \in Live' : From(j) \in Live \ {i}
      /\ \A j \in Live \ {i} : \E m \in Live' : From(m) = j
  BY <1>0
<1>6. k \in Keys /\ k \in DOMAIN Contents
  BY <1>0, <1>3 DEF EntryType
<1> HIDE DEF From
<1>7. D = {entries'[j].key : j \in Live'}
  <2>1. \A j \in Live : j # i => entries[j].key # k
    BY <1>4 DEF Unique
  <2>2. \A x \in D : \E j \in Live \ {i} : entries[j].key = x
    BY <1>3
  <2>3. \A x \in D : \E j \in Live' : entries'[j].key = x
    BY <2>2, <1>2, <1>5
  <2>4. \A j \in Live' : entries'[j].key \in D
    BY <2>1, <1>2, <1>3, <1>5
  <2> QED
    BY <2>3, <2>4
<1>8. \A j \in Live' : f[entries'[j].key] = entries'[j].value
  <2> SUFFICES ASSUME NEW j \in Live' PROVE f[entries'[j].key] = entries'[j].value
    OBVIOUS
  <2>1. entries'[j].key \in D /\ From(j) \in Live
    BY <1>5, <1>7
  <2> QED
    BY <2>1, <1>2, <1>3
<1>9. f = [x \in D |-> f[x]]
  OBVIOUS
<1>10. Contents' = f
  <2> HIDE DEF f, D
  <2> QED
    BY <1>4, <1>7, <1>8, <1>9, SameMap, ContentsIsTable
<1>11. Map!Remove(k)
  BY <1>a, <1>0, <1>6, <1>10 DEF Map!Remove, Map!Restrict
<1> QED
  BY <1>6, <1>11 DEF Map!Next

LEMMA ClearMap == Clear => Map!Next
<1> SUFFICES ASSUME Clear PROVE Map!Next
  OBVIOUS
<1>1. Live' = {}
  BY DEF Clear, Live
<1>2. Contents' = [k \in {} |-> 0]
  <2>1. {entries'[i].key : i \in Live'} = {}
    BY <1>1
  <2> QED
    BY <2>1 DEF Contents
<1>3. Map!Clear
  BY <1>2, Pendings DEF Clear, Map!Clear
<1> QED
  BY <1>3 DEF Map!Next

LEMMA StepMap == IInv /\ IInv' /\ [Next]_vars => [Map!Next]_(Map!vars)
<1> SUFFICES ASSUME IInv, IInv', [Next]_vars
             PROVE  Map!Next \/ UNCHANGED <<Contents, Pending, answer>>
  BY DEF Map!vars
<1>1. ASSUME NEW k \in Keys, NEW ins \in BOOLEAN, Lookup(k, ins)
      PROVE  Map!Next
  <2>1. /\ pc = "idle" /\ pc' = "walk" /\ key' = k /\ insert' = ins /\ answer' = <<>>
        /\ Contents' = Contents
    BY <1>1 DEF Lookup, tableVars, Contents, Live
  <2>2. Map!Lookup(k, ins)
    BY <2>1, Pendings DEF Map!Lookup
  <2> QED
    BY <1>1, <2>2 DEF Map!Next
<1>2. CASE Walk
  BY <1>2, WalkMap
<1>3. CASE NotFound \/ TableFull
  BY <1>3, RanOffMap
<1>4. CASE Insert
  BY <1>4, InsertMap
<1>5. ASSUME NEW i \in Live, Remove(i) PROVE Map!Next
  BY <1>5, RemoveMap
<1>6. ASSUME NEW i \in Live, NEW v \in Values, SetValue(i, v) PROVE Map!Next
  BY <1>6, SetValueMap
<1>7. CASE Clear
  BY <1>7, ClearMap
<1>8. CASE UNCHANGED vars
  BY <1>8 DEF vars, tableVars, loopVars, Contents, Pending, Live
<1> QED
  BY <1>1, <1>2, <1>3, <1>4, <1>5, <1>6, <1>7, <1>8 DEF Next, LoopStep

(* Whatever the sequence of calls, a lookup answers for the key it was      *)
(* called with, and remove, clear and writes act, as on a map from keys to  *)
(* values of at most Capacity keys.                                         *)
THEOREM HashImplementsMap == Spec => ImplementsMap
<1> QED
  BY HashInvariant, InitMap, StepMap, PTL DEF Spec, ImplementsMap, Map!Spec
==============================================================================
