----------------------------- MODULE StupidHash -----------------------------
(***************************************************************************)
(* The fixed-size hash table in which the game thread remembers colliders  *)
(* (stupid_hash.hpp).  Entries are kept dense at the front of entries_;    *)
(* entries of one bucket are linked both ways by index, 0 for none; a      *)
(* removal moves the last entry into the hole.                             *)
(*                                                                         *)
(* lookup's loop is one action per iteration, so that its assertion and    *)
(* its outcome are claims about every iteration; the other operations are  *)
(* one action each.  One thread uses the table.                            *)
(***************************************************************************)
EXTENDS Integers

CONSTANTS
  Keys,       \* keys, as the integers their bits are
  Values,     \* values; none is written by an insertion
  Slots,      \* NUM_HASH_SLOTS
  Capacity,   \* NUM_ENTRY_SLOTS
  MaxInserts  \* bound: insertions

ASSUME HashAssumption ==
  /\ Keys \subseteq Nat /\ Keys # {} /\ Values # {}
  /\ Slots \in Nat \ {0} /\ Capacity \in Nat \ {0} /\ MaxInserts \in Nat

VARIABLES
  entries,      \* entries_: prev, next, key, value at each index
  count,        \* entries_count_
  by_hash,      \* by_hash_
  pc, key, insert, idx, expected_prev,  \* lookup: in its loop or not, its locals
  answer,       \* what the last call did or returned, with its key
  born, clock   \* history: when each entry's key was inserted

tableVars == <<entries, count, by_hash, born, clock>>
loopVars  == <<key, insert, idx, expected_prev>>
vars == <<tableVars, pc, loopVars, answer>>

EntryIdx == 1..Capacity
Live     == 1..count

SomeKey   == CHOOSE k \in Keys : TRUE
SomeValue == CHOOSE v \in Values : TRUE

Init ==
  /\ entries = [i \in EntryIdx |->
                  [prev |-> 0, next |-> 0, key |-> SomeKey, value |-> SomeValue]]
  /\ count = 0
  /\ by_hash = [h \in 0..Slots-1 |-> 0]
  /\ pc = "idle" /\ key = SomeKey /\ insert = FALSE /\ idx = 0
  /\ expected_prev = 0 /\ answer = <<>>
  /\ born = [i \in EntryIdx |-> 0] /\ clock = 0

Hash(k) == k % Slots

-----------------------------------------------------------------------------
(* lookup                                                                    *)

Lookup(k, ins) ==
  /\ pc = "idle"
  /\ ins => clock < MaxInserts
  /\ pc' = "walk"
  /\ key' = k /\ insert' = ins
  /\ idx' = by_hash[Hash(k)] /\ expected_prev' = 0
  /\ answer' = <<>>
  /\ UNCHANGED tableVars

(* The call ends and its locals go out of scope.                            *)
Return(result) ==
  /\ pc' = "idle" /\ answer' = result
  /\ key' = SomeKey /\ insert' = FALSE /\ idx' = 0 /\ expected_prev' = 0

(* One iteration of the loop over the bucket.                               *)
Walk ==
  /\ pc = "walk" /\ idx # 0
  /\ IF entries[idx].prev # expected_prev
       THEN pc' = "panic" /\ UNCHANGED <<loopVars, answer>>
     ELSE IF entries[idx].key = key
       THEN Return(<<"found", entries[idx].key, entries[idx].value>>)
     ELSE /\ expected_prev' = idx /\ idx' = entries[idx].next
          /\ UNCHANGED <<pc, key, insert, answer>>
  /\ UNCHANGED tableVars

(* The loop ran off the bucket: the key is not there.                       *)
NotFound ==
  /\ pc = "walk" /\ idx = 0 /\ ~insert
  /\ Return(<<"absent", key>>)
  /\ UNCHANGED tableVars

HasFree == count < Capacity

TableFull ==
  /\ pc = "walk" /\ idx = 0 /\ insert /\ ~HasFree
  /\ Return(<<"full", key>>)
  /\ UNCHANGED tableVars

(* Mutant: next is not reset.                                               *)
NewEntryKeepingNext(old, prev, k) == [old EXCEPT !.prev = prev, !.key = k]

(* The value of a new entry is what the slot held before.                   *)
NewEntry(old, prev, k) == [old EXCEPT !.prev = prev, !.next = 0, !.key = k]

(* Links the new entry behind the last of its bucket, through next_p.       *)
Insert ==
  LET new == count + 1 IN
  /\ pc = "walk" /\ idx = 0 /\ insert /\ HasFree
  /\ count' = new
  /\ entries' = [i \in EntryIdx |->
       IF i = new THEN NewEntry(entries[i], expected_prev, key)
       ELSE IF i = expected_prev THEN [entries[i] EXCEPT !.next = new]
       ELSE entries[i]]
  /\ by_hash' = IF expected_prev = 0
                  THEN [by_hash EXCEPT ![Hash(key)] = new] ELSE by_hash
  /\ clock' = clock + 1
  /\ born' = [born EXCEPT ![new] = clock + 1]
  /\ Return(<<"inserted", entries'[new].key, entries'[new].value>>)

-----------------------------------------------------------------------------
(* The caller's own accesses, remove and clear                               *)

SetValue(i, v) ==
  /\ pc = "idle" /\ i \in Live
  /\ entries' = [entries EXCEPT ![i].value = v]
  /\ answer' = <<"assigned", entries[i].key, v>>
  /\ UNCHANGED <<count, by_hash, born, clock, pc, loopVars>>

(* prevs_next and nexts_prev of entry i get the values n and p.             *)
Relink(ent, i, n, p) ==
  [j \in EntryIdx |->
     [ent[j] EXCEPT !.next = IF j = ent[i].prev THEN n ELSE @,
                    !.prev = IF j = ent[i].next THEN p ELSE @]]

(* Mutant: the bucket's head is not updated.                                *)
RelinkHeadNot(ent, bh, i, n) == bh

RelinkHead(ent, bh, i, n) ==
  IF ent[i].prev = 0 THEN [bh EXCEPT ![Hash(ent[i].key)] = n] ELSE bh

(* unlink_entry                                                             *)
Unlinked(i) == Relink(entries, i, entries[i].next, entries[i].prev)

UnlinkedHead(i) == RelinkHead(entries, by_hash, i, entries[i].next)

(* Mutant: only the entry is moved, links to it are not.                    *)
MovedUnlinked(ent, old, new) == [ent EXCEPT ![new] = ent[old]]

(* move_entry(old, new)                                                     *)
Moved(ent, old, new) == [Relink(ent, old, new, new) EXCEPT ![new] = ent[old]]

Remove(i) ==
  LET last == count
      e1 == Unlinked(i)
      h1 == UnlinkedHead(i) IN
  /\ pc = "idle" /\ i \in Live
  /\ count' = count - 1
  /\ entries' = IF last = i THEN e1 ELSE Moved(e1, last, i)
  /\ by_hash' = IF last = i THEN h1 ELSE RelinkHead(e1, h1, last, i)
  /\ born' = [born EXCEPT ![i] = born[last]]
  /\ answer' = <<"removed", entries[i].key>>
  /\ UNCHANGED <<clock, pc, loopVars>>

Clear ==
  /\ pc = "idle"
  /\ by_hash' = [h \in 0..Slots-1 |-> 0] /\ count' = 0
  /\ answer' = <<"cleared">>
  /\ UNCHANGED <<entries, born, clock, pc, loopVars>>

LoopStep == Walk \/ NotFound \/ TableFull \/ Insert

Next ==
  \/ \E k \in Keys, ins \in BOOLEAN : Lookup(k, ins)
  \/ LoopStep
  \/ \E i \in Live : Remove(i) \/ \E v \in Values : SetValue(i, v)
  \/ Clear

Spec == Init /\ [][Next]_vars

FairSpec == Spec /\ WF_vars(LoopStep)

-----------------------------------------------------------------------------
(* Properties.                                                               *)

EntryType == [prev : 0..Capacity, next : 0..Capacity, key : Keys, value : Values]

Answers ==
  {<<>>, <<"cleared">>} \cup ({"absent", "full", "removed"} \X Keys)
    \cup ({"found", "inserted", "assigned"} \X Keys \X Values)

(* Types; every index that is followed names an entry that exists, which    *)
(* entry_at_idx asserts.                                                    *)
TypeOK ==
  /\ entries \in [EntryIdx -> EntryType]
  /\ count \in 0..Capacity
  /\ by_hash \in [0..Slots-1 -> 0..Capacity]
  /\ pc \in {"idle", "walk", "panic"}
  /\ key \in Keys /\ insert \in BOOLEAN
  /\ idx \in 0..Capacity /\ expected_prev \in 0..Capacity
  /\ answer \in Answers
  /\ born \in [EntryIdx -> Nat] /\ clock \in Nat

(* The assertion in lookup's loop (stupid_hash.hpp:75) never fails: prev    *)
(* links mirror next links, across every removal that moves an entry.       *)
NoPanic == pc # "panic"

(* No key is entered twice.                                                 *)
KeysDistinct ==
  \A i, j \in Live : entries[i].key = entries[j].key => i = j

BucketIn(ent, i) == Hash(ent[i].key)

BucketOf(i) == BucketIn(entries, i)

(* Entries L, with heads bh and birth dates bn: a bucket lists exactly the  *)
(* entries of its hash, oldest first.  Each link goes to the next younger   *)
(* entry, with none in between, so that following links misses nothing.     *)
HeadsOldest(ent, bh, L, bn) ==
  \A h \in 0..Slots-1 :
    /\ bh[h] = 0 => \A j \in L : BucketIn(ent, j) # h
    /\ bh[h] # 0 =>
         /\ bh[h] \in L /\ BucketIn(ent, bh[h]) = h /\ ent[bh[h]].prev = 0
         /\ \A j \in L : BucketIn(ent, j) = h => bn[bh[h]] <= bn[j]

NextsYounger(ent, L, bn) ==
  \A i \in L :
    LET n == ent[i].next IN
    /\ n = 0 => \A j \in L : BucketIn(ent, j) = BucketIn(ent, i) => bn[j] <= bn[i]
    /\ n # 0 =>
         /\ n \in L /\ BucketIn(ent, n) = BucketIn(ent, i) /\ ent[n].prev = i
         /\ bn[i] < bn[n]
         /\ \A j \in L : BucketIn(ent, j) = BucketIn(ent, i) /\ bn[i] < bn[j]
                         => bn[n] <= bn[j]

PrevsMirror(ent, bh, L) ==
  \A i \in L :
    LET p == ent[i].prev IN
    /\ p = 0 => bh[BucketIn(ent, i)] = i
    /\ p # 0 => p \in L /\ ent[p].next = i

Ages(L, bn) ==
  /\ \A i \in L : bn[i] \in 1..clock
  /\ \A i, j \in L : bn[i] = bn[j] => i = j

Sorted(ent, bh, L, bn) ==
  /\ HeadsOldest(ent, bh, L, bn) /\ NextsYounger(ent, L, bn)
  /\ PrevsMirror(ent, bh, L) /\ Ages(L, bn)

(* The core of the inductive invariant.                                     *)
BucketsSorted == Sorted(entries, by_hash, Live, born)

(* A lookup in progress: idx follows expected_prev, and the key sought is   *)
(* at none of the entries passed.                                           *)
LoopInv ==
  pc = "walk" =>
    /\ expected_prev = 0 => idx = by_hash[Hash(key)]
    /\ expected_prev # 0 =>
         /\ expected_prev \in Live /\ BucketOf(expected_prev) = Hash(key)
         /\ idx = entries[expected_prev].next
         /\ \A j \in Live : BucketOf(j) = Hash(key) /\ born[j] <= born[expected_prev]
                              => entries[j].key # key

IInv == TypeOK /\ NoPanic /\ KeysDistinct /\ BucketsSorted /\ LoopInv

(* The table's contents as a map.                                           *)
Contents ==
  [k \in {entries[i].key : i \in Live} |->
     entries[CHOOSE i \in Live : entries[i].key = k].value]

(* The lookup under way.                                                    *)
Pending == IF pc = "idle" THEN <<>> ELSE <<key, insert>>

Map == INSTANCE BoundedMap WITH map <- Contents, call <- Pending

(* The hash table implements a bounded map: each lookup answers for its own *)
(* key what a map with the same contents would, and each removal or write   *)
(* through an entry is one of that entry's key.  It is what the table's own *)
(* fuzz test compares with std::unordered_map (stupid_hash.hpp:188-290),    *)
(* for every sequence of operations.                                        *)
ImplementsMap == Map!Spec

(* A lookup ends: no bucket is a cycle.                                     *)
LookupEnds == pc = "walk" ~> pc = "idle"
=============================================================================
