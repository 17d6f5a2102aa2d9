----------------------------- MODULE BoundedMap -----------------------------
(***************************************************************************)
(* What StupidHash promises: a map from keys to values with a limit on its *)
(* size, and no order, buckets or links.  A lookup is called and returns;  *)
(* its answer is about the key it was called with.  A new key's value is   *)
(* arbitrary until the caller assigns it.                                  *)
(***************************************************************************)
EXTENDS Naturals, FiniteSets, Functions

CONSTANTS Keys, Values, Capacity

VARIABLES
  map,
  call,   \* the key of the lookup under way, and whether it inserts
  answer  \* what the last call did or returned, with its key

vars == <<map, call, answer>>

Init == map = [k \in {} |-> 0] /\ call = <<>> /\ answer = <<>>

Lookup(k, ins) ==
  /\ call = <<>> /\ call' = <<k, ins>>
  /\ answer' = <<>>
  /\ UNCHANGED map

Return(result) == call' = <<>> /\ answer' = result

Found(k, ins) ==
  /\ call = <<k, ins>>
  /\ k \in DOMAIN map /\ Return(<<"found", k, map[k]>>)
  /\ UNCHANGED map

Absent(k) ==
  /\ call = <<k, FALSE>>
  /\ k \notin DOMAIN map /\ Return(<<"absent", k>>)
  /\ UNCHANGED map

Full(k) ==
  /\ call = <<k, TRUE>>
  /\ k \notin DOMAIN map /\ Cardinality(DOMAIN map) = Capacity
  /\ Return(<<"full", k>>)
  /\ UNCHANGED map

Insert(k, v) ==
  /\ call = <<k, TRUE>>
  /\ k \notin DOMAIN map /\ Cardinality(DOMAIN map) < Capacity
  /\ map' = [x \in DOMAIN map \cup {k} |-> IF x = k THEN v ELSE map[x]]
  /\ Return(<<"inserted", k, v>>)

(* Between lookups.                                                         *)
Assign(k, v) ==
  /\ call = <<>> /\ call' = <<>>
  /\ k \in DOMAIN map /\ map' = [map EXCEPT ![k] = v]
  /\ answer' = <<"assigned", k, v>>

Remove(k) ==
  /\ call = <<>> /\ call' = <<>>
  /\ k \in DOMAIN map /\ map' = Restrict(map, DOMAIN map \ {k})
  /\ answer' = <<"removed", k>>

Clear ==
  /\ call = <<>> /\ call' = <<>>
  /\ map' = [k \in {} |-> 0] /\ answer' = <<"cleared">>

Next ==
  \/ \E k \in Keys, ins \in BOOLEAN : Lookup(k, ins) \/ Found(k, ins)
  \/ \E k \in Keys : Absent(k) \/ Full(k) \/ Remove(k)
  \/ \E k \in Keys, v \in Values : Insert(k, v) \/ Assign(k, v)
  \/ Clear

Spec == Init /\ [][Next]_vars
=============================================================================
