--------------------------- MODULE HitboxReport -----------------------------
(***************************************************************************)
(* Hitboxes and their collisions (main.cpp, client.html).  A frame runs    *)
(* each world once; a hitbox is reported once in a frame, before the first *)
(* collision that names it, and the client forgets all hitboxes when       *)
(* world 0 begins.  The reporter and the client each have their own idea   *)
(* of when a frame begins.                                                 *)
(***************************************************************************)
EXTENDS LossyHose, FiniteSets, Integers

CONSTANTS
  Hitboxes, Worlds,  \* worlds are numbered from 0
  WorldOf,           \* the world of each hitbox
  Slots              \* capacity of s_hitboxes_this_frame

ASSUME HitboxAssumption ==
  /\ IsFiniteSet(Hitboxes) /\ Worlds \subseteq Nat /\ 0 \in Worlds
  /\ WorldOf \in [Hitboxes -> Worlds] /\ Slots \in Nat

NoWorld == -1

VARIABLES
  s_hitboxes_this_frame,
  cleared,           \* history: was it cleared when this frame began?
  toRun, world,      \* worlds the frame has yet to run; the one running
  page               \* HoseParser: hitboxes of its frame; history: has a frame begun
                     \* on this connection with no overrun since (whole); did a
                     \* collision name an unknown hitbox then

gameVars == <<s_hitboxes_this_frame, cleared, toRun, world>>
hitboxVars == <<hoseVars, gameVars, todo, on, page>>

HitboxInit ==
  /\ InitHose
  /\ s_hitboxes_this_frame = {} /\ cleared = FALSE
  /\ toRun = {} /\ world = NoWorld /\ todo = <<>> /\ on = FALSE
  /\ page = [hitboxes |-> {}, whole |-> FALSE, unknown |-> FALSE]

-----------------------------------------------------------------------------
(* The client.                                                               *)

(* HoseParser.parse.  Of an unknown hitbox parseCollision reads worldID.     *)
ParseHitbox(c, p) ==
  CASE p.tag = "do_many" ->
         IF p.world = 0 THEN [c EXCEPT !.hitboxes = {}, !.whole = TRUE] ELSE c
    [] p.tag = "hitbox" -> [c EXCEPT !.hitboxes = @ \cup {p.hb}]
    [] p.tag = "overrun" -> [c EXCEPT !.whole = FALSE]
    [] p.tag = "collisi" ->
         IF {p.hb1, p.hb2} \subseteq c.hitboxes THEN c
         ELSE [c EXCEPT !.unknown = @ \/ (c.whole /\ p.cleared)]

DeliverHitbox ==
  /\ conn = "current" /\ stream # <<>>
  /\ page' = ParseHitbox(page, Head(stream))
  /\ stream' = Tail(stream)
  /\ UNCHANGED <<lastOverrun, conn, handOvers, gameVars, todo, on>>

ReconnectHitbox ==
  /\ Disconnect /\ page' = [page EXCEPT !.whole = FALSE]
  /\ UNCHANGED <<gameVars, todo, on>>

HitboxHoseStep ==
  /\ DiscardPacket \/ HandOver \/ Adopt
  /\ UNCHANGED <<gameVars, todo, on, page>>

SetFlag == on' = ~on /\ UNCHANGED <<hoseVars, gameVars, todo, page>>

-----------------------------------------------------------------------------
(* The game thread.                                                          *)

Report(hs) ==
  LET new == hs \ s_hitboxes_this_frame
  IN  [i \in 1..Cardinality(new) |-> [tag |-> "hitbox", hb |-> SetToSeq(new)[i]]]

(* report_hitbox enters each hitbox of hs; when the table is full it is not  *)
(* entered, and reported again the next time.                                *)
Enter(hs) ==
  /\ s_hitboxes_this_frame' \in SUBSET (s_hitboxes_this_frame \cup hs)
  /\ s_hitboxes_this_frame \subseteq s_hitboxes_this_frame'
  /\ \/ hs \subseteq s_hitboxes_this_frame'
     \/ Cardinality(s_hitboxes_this_frame') = Slots
  /\ Cardinality(s_hitboxes_this_frame') <= Slots

(* Mutant: the table is kept from frame to frame.                            *)
HitboxFrameStartKeeping ==
  /\ todo = <<>> /\ toRun = {} /\ world = NoWorld
  /\ toRun' = Worlds /\ cleared' = on
  /\ UNCHANGED <<hoseVars, s_hitboxes_this_frame, world, todo, on, page>>

HitboxFrameStart ==
  /\ todo = <<>> /\ toRun = {} /\ world = NoWorld
  /\ toRun' = Worlds /\ cleared' = on
  /\ s_hitboxes_this_frame' = IF on THEN {} ELSE s_hitboxes_this_frame
  /\ UNCHANGED <<hoseVars, world, todo, on, page>>

(* AreaSystem_do_many_collisions: the worlds run in any order.               *)
DoManyCollisions(w) ==
  /\ todo = <<>> /\ world = NoWorld /\ w \in toRun
  /\ world' = w /\ toRun' = toRun \ {w}
  /\ LET hs == {h \in Hitboxes : WorldOf[h] = w}
     IN  IF on THEN Enter(hs) /\ todo' = <<[tag |-> "do_many", world |-> w]>> \o Report(hs)
         ELSE UNCHANGED <<s_hitboxes_this_frame, todo>>
  /\ UNCHANGED <<hoseVars, cleared, on, page>>

HitboxCollide(h1, h2) ==
  /\ todo = <<>> /\ h1 # h2 /\ WorldOf[h1] = world /\ WorldOf[h2] = world /\ on
  /\ Enter({h1, h2})
  /\ todo' = Report({h1, h2}) \o
             <<[tag |-> "collisi", hb1 |-> h1, hb2 |-> h2, cleared |-> cleared]>>
  /\ UNCHANGED <<hoseVars, cleared, toRun, world, on, page>>

WorldDone ==
  /\ todo = <<>> /\ world # NoWorld /\ world' = NoWorld
  /\ UNCHANGED <<hoseVars, s_hitboxes_this_frame, cleared, toRun, todo, on, page>>

WriteHitbox ==
  /\ todo # <<>> /\ todo' = Tail(todo)
  /\ Publish(Head(todo)) \/ Lose
  /\ UNCHANGED <<gameVars, on, page>>

HitboxNext ==
  \/ DeliverHitbox \/ ReconnectHitbox \/ HitboxHoseStep \/ SetFlag
  \/ HitboxFrameStart \/ WorldDone \/ WriteHitbox
  \/ \E w \in Worlds : DoManyCollisions(w)
  \/ \E h1, h2 \in Hitboxes : HitboxCollide(h1, h2)

HitboxSpec == HitboxInit /\ [][HitboxNext]_hitboxVars

-----------------------------------------------------------------------------
(* Properties.                                                               *)

HitboxPackets ==
  [tag : {"do_many"}, world : Worlds] \cup [tag : {"hitbox"}, hb : Hitboxes]
    \cup [tag : {"collisi"}, hb1 : Hitboxes, hb2 : Hitboxes, cleared : BOOLEAN]
    \cup {Overrun}

(* Types; the table of hitboxes never exceeds its slots.                     *)
HitboxTypeOK ==
  /\ HoseOK
  /\ \A i \in DOMAIN Queue :
       Queue[i].tag \in {"do_many", "hitbox", "collisi"} => Queue[i] \in HitboxPackets
  /\ s_hitboxes_this_frame \subseteq Hitboxes /\ Cardinality(s_hitboxes_this_frame) <= Slots
  /\ cleared \in BOOLEAN /\ toRun \subseteq Worlds /\ world \in Worlds \cup {NoWorld}
  /\ on \in BOOLEAN
  /\ page \in [hitboxes : SUBSET Hitboxes, whole : BOOLEAN, unknown : BOOLEAN]

(* In a frame that began with the flag set, a client that has seen a frame   *)
(* begin on its connection and no overrun since knows both hitboxes of every *)
(* collision, in whatever order the worlds run and whenever the flag         *)
(* changes.                                                                  *)
CollisionsResolve == ~page.unknown

(* The same, and the table of reported hitboxes never exceeds its slots,     *)
(* however often a full one makes report_hitbox try again (main.cpp:642).    *)
HitboxesSound == HitboxTypeOK /\ CollisionsResolve
=============================================================================
