---------------------------- MODULE CollReport ------------------------------
(***************************************************************************)
(* The collision reporter (main.cpp) and the web client that follows it    *)
(* (client.html, HoseParser), over a hose that loses packets and changes   *)
(* connections: which colliders there are, and the cached dumps of scols,  *)
(* sent once and referred to afterwards.  Every hook runs on the game      *)
(* thread; the RPC thread changes the flags at any time.                   *)
(***************************************************************************)
EXTENDS LossyHose, FiniteSets, Functions

CONSTANTS
  Colliders, Scols,  \* addresses of the game's objects
  Values,            \* contents an scol may have; XXH3 tells them apart
  ColliderSlots, ScolSlots    \* capacities of the two tables

NoHash == "no hash"            \* never hashed, or another scol's hash

ASSUME CollReportAssumption ==
  /\ IsFiniteSet(Colliders) /\ IsFiniteSet(Scols) /\ NoHash \notin Values
  /\ ColliderSlots \in Nat /\ ScolSlots \in Nat

VARIABLES
  live,              \* colliders on the game's grid
  s_colliders,       \* the table of those reported
  s_hashed_scols,    \* entries of the table: scol -> hash of its last dump
  slotHash,          \* hash an scol's slot was left with
  oldHash,           \* write_cached_dump: old_hash
  all,               \* RPC_FLAG_SEND_ALL_COLLS
  offAgain, full,    \* history: was SEND_COLL_STUFF ever switched off; did a
                     \* collider find no room in s_colliders
  client             \* HoseParser: maps and overrun text; history: has a full dump
                     \* come on this connection, with no overrun since (synced),
                     \* and did a reference fail after it (wrong)

tableVars == <<s_colliders, s_hashed_scols, slotHash, oldHash>>
history == <<offAgain, full>>
vars == <<hoseVars, live, tableVars, todo, on, all, history, client>>

NewClient ==
  [colliders |-> {}, scols |-> [s \in {} |-> NoHash], overrun |-> FALSE,
   synced |-> FALSE, wrong |-> FALSE]

Init ==
  /\ InitHose
  /\ live \in SUBSET Colliders    \* the hooks are installed late
  /\ s_colliders = {} /\ s_hashed_scols = [s \in {} |-> NoHash]
  /\ slotHash = [s \in Scols |-> NoHash] /\ oldHash = NoHash
  /\ todo = <<>> /\ on = FALSE /\ all = FALSE
  /\ offAgain = FALSE /\ full = FALSE
  /\ client = NewClient

-----------------------------------------------------------------------------
(* The client.                                                               *)

With(f, k, v) == [x \in DOMAIN f \cup {k} |-> IF x = k THEN v ELSE f[x]]

(* Mutant: removals are taken for additions.                                 *)
ParseNoGone(c, p) ==
  CASE p.tag \in {"normco+", "normco*", "normco-"} -> [c EXCEPT !.colliders = @ \cup {p.ptr}]
    [] p.tag \in {"scolcol", "scolco~"} -> c
    [] p.tag = "overrun" -> [c EXCEPT !.overrun = TRUE, !.synced = FALSE]
    [] p.tag = "allcols" -> [c EXCEPT !.synced = TRUE]

(* HoseParser.parse.  "allcols" is a tag it does not know.  A reference      *)
(* carries, for the properties, the contents it stands for.                  *)
Parse(c, p) ==
  CASE p.tag \in {"normco+", "normco*"} -> [c EXCEPT !.colliders = @ \cup {p.ptr}]
    [] p.tag = "normco-" -> [c EXCEPT !.colliders = @ \ {p.ptr}]
    [] p.tag = "scolcol" -> [c EXCEPT !.scols = With(@, p.ptr, p.val)]
    [] p.tag = "scolco~" ->
         LET right == p.ptr \in DOMAIN c.scols /\ c.scols[p.ptr] = p.val
         IN  [c EXCEPT !.wrong = @ \/ (c.synced /\ ~right)]
    [] p.tag = "overrun" -> [c EXCEPT !.overrun = TRUE, !.synced = FALSE]
    [] p.tag = "allcols" -> [c EXCEPT !.synced = TRUE]

Deliver ==
  /\ conn = "current" /\ stream # <<>>
  /\ client' = Parse(client, Head(stream))
  /\ stream' = Tail(stream)
  /\ UNCHANGED <<lastOverrun, conn, handOvers, live, tableVars, todo, on, all, history>>

(* The parser and its maps outlive the connection.                           *)
Reconnect ==
  /\ Disconnect
  /\ client' = [client EXCEPT !.synced = FALSE]
  /\ UNCHANGED <<live, tableVars, todo, on, all, history>>

HoseStep ==
  /\ DiscardPacket \/ HandOver \/ Adopt
  /\ UNCHANGED <<live, tableVars, todo, on, all, history, client>>

(* A client sets and clears the flags.                                       *)
SetFlags(o, a) ==
  /\ on' = o /\ all' = a
  /\ offAgain' = (offAgain \/ (on /\ ~o))
  /\ UNCHANGED <<hoseVars, live, tableVars, todo, full, client>>

-----------------------------------------------------------------------------
(* The game thread's hooks.  Each leaves the packets it writes in todo.      *)

AddToGrid(c) ==
  /\ todo = <<>> /\ c \notin live /\ live' = live \cup {c}
  /\ IF on
       THEN /\ s_colliders' = IF Cardinality(s_colliders) < ColliderSlots
                                THEN s_colliders \cup {c} ELSE s_colliders
            /\ todo' = <<[tag |-> "normco+", ptr |-> c]>>
            /\ full' = (full \/ c \notin s_colliders')
       ELSE UNCHANGED <<s_colliders, todo, full>>
  /\ UNCHANGED <<hoseVars, s_hashed_scols, slotHash, oldHash, on, all, offAgain, client>>

(* Mutant: the entry is left in the table.                                   *)
RemoveKeepingEntry(c) ==
  /\ todo = <<>> /\ c \in live /\ live' = live \ {c}
  /\ todo' = IF on /\ c \in s_colliders THEN <<[tag |-> "normco-", ptr |-> c]>> ELSE <<>>
  /\ UNCHANGED <<hoseVars, tableVars, on, all, history, client>>

RemoveFromGrid(c) ==
  /\ todo = <<>> /\ c \in live /\ live' = live \ {c}
  /\ IF on /\ c \in s_colliders
       THEN /\ s_colliders' = s_colliders \ {c}
            /\ todo' = <<[tag |-> "normco-", ptr |-> c]>>
       ELSE UNCHANGED <<s_colliders, todo>>
  /\ UNCHANGED <<hoseVars, s_hashed_scols, slotHash, oldHash, on, all, history, client>>

(* An scol with contents v is processed: its entry is looked up or inserted; *)
(* a new one has the value its slot was left with, but old_hash is not set.  *)
ScolHook(s, v) ==
  /\ todo = <<>> /\ on
  /\ todo' = <<[tag |-> "scolcol", ptr |-> s, val |-> v]>>
  /\ IF s \in DOMAIN s_hashed_scols
       THEN oldHash' = s_hashed_scols[s] /\ UNCHANGED s_hashed_scols
       ELSE /\ oldHash' = NoHash
            /\ \/ /\ Cardinality(DOMAIN s_hashed_scols) < ScolSlots
                  /\ \E h \in {NoHash, slotHash[s]} :
                       s_hashed_scols' = With(s_hashed_scols, s, h)
               \/ /\ Cardinality(DOMAIN s_hashed_scols) = ScolSlots
                  /\ UNCHANGED s_hashed_scols
  /\ UNCHANGED <<hoseVars, live, s_colliders, slotHash, on, all, history, client>>

(* Mutants: the hashes of dumps sent to earlier connections are kept; the    *)
(* order is taken without a frame to write it.                               *)
FrameStartKeepingHashes ==
  /\ todo = <<>> /\ on /\ all /\ all' = FALSE
  /\ todo' = <<[tag |-> "allcols"]>>
  /\ UNCHANGED <<hoseVars, live, tableVars, on, history, client>>

FrameStartForgetful ==
  /\ todo = <<>> /\ on /\ all' = FALSE
  /\ UNCHANGED <<hoseVars, live, tableVars, todo, on, history, client>>

(* frame_start_collision_actions: a full dump if one was ordered.            *)
FrameStart ==
  /\ todo = <<>> /\ on /\ all /\ all' = FALSE
  /\ s_hashed_scols' = [s \in {} |-> NoHash]
  /\ todo' = <<[tag |-> "allcols"]>> \o
             [i \in 1..Cardinality(s_colliders) |->
                [tag |-> "normco*", ptr |-> SetToSeq(s_colliders)[i]]]
  /\ UNCHANGED <<hoseVars, live, s_colliders, slotHash, oldHash, on, history, client>>

-----------------------------------------------------------------------------
(* write_packet, for the packet the running hook writes next.                *)

Reference(p) == [p EXCEPT !.tag = "scolco~"]

WritePacket ==
  /\ todo # <<>> /\ Head(todo).tag # "scolcol"
  /\ Publish(Head(todo)) \/ Lose
  /\ todo' = Tail(todo)
  /\ UNCHANGED <<live, tableVars, on, all, history, client>>

(* The callback of write_cached_dump: the hash of the packet is recorded,    *)
(* and a packet hashed like the last one is withheld in favour of a          *)
(* reference.                                                                *)
ReviewDump ==
  /\ todo # <<>> /\ Head(todo).tag = "scolcol" /\ Len(stream) < Room
  /\ LET p == Head(todo)
         entered == p.ptr \in DOMAIN s_hashed_scols
     IN  /\ IF entered
              THEN /\ s_hashed_scols' = [s_hashed_scols EXCEPT ![p.ptr] = p.val]
                   /\ slotHash' = [slotHash EXCEPT ![p.ptr] = p.val]
              ELSE UNCHANGED <<s_hashed_scols, slotHash>>
         /\ \/ oldHash # p.val /\ Publish(p) /\ todo' = <<>>
            \/ oldHash = p.val /\ UNCHANGED hoseVars /\ todo' = <<Reference(p)>>
  /\ UNCHANGED <<live, s_colliders, oldHash, on, all, history, client>>

(* The packet finds no room: the callback does not run, and the hook tests a *)
(* ret nobody has assigned.                                                  *)
LoseDump ==
  /\ todo # <<>> /\ Head(todo).tag = "scolcol" /\ Lose
  /\ todo' \in {<<>>, <<Reference(Head(todo))>>}
  /\ UNCHANGED <<live, tableVars, on, all, history, client>>

(* What happens, the game's objects and their contents being those given.    *)
Steps(colliders, scols, values) ==
  \/ Deliver \/ Reconnect \/ HoseStep
  \/ \E o, a \in BOOLEAN : SetFlags(o, a)
  \/ \E c \in colliders : AddToGrid(c) \/ RemoveFromGrid(c)
  \/ \E s \in scols, v \in values : ScolHook(s, v)
  \/ FrameStart \/ WritePacket \/ ReviewDump \/ LoseDump

Next == Steps(Colliders, Scols, Values)

Spec == Init /\ [][Next]_vars

(* What the threads go on with; frames begin again and again.                *)
Working == Deliver \/ HoseStep \/ WritePacket \/ ReviewDump

-----------------------------------------------------------------------------
(* Properties.                                                               *)

ColliderTags == {"normco+", "normco*", "normco-"}
ScolTags == {"scolcol", "scolco~"}

Packets ==
  [tag : ColliderTags, ptr : Colliders]
    \cup [tag : ScolTags, ptr : Scols, val : Values]
    \cup {[tag |-> "allcols"], Overrun}

Contents(S) == UNION {[d -> Values \cup {NoHash}] : d \in SUBSET S}

(* The hose carries other reporters' packets too.                            *)
TypeOK ==
  /\ HoseOK
  /\ \A i \in DOMAIN Queue :
       Queue[i].tag \in ColliderTags \cup ScolTags => Queue[i] \in Packets
  /\ live \subseteq Colliders /\ s_colliders \subseteq Colliders
  /\ s_hashed_scols \in Contents(Scols) /\ slotHash \in [Scols -> Values \cup {NoHash}]
  /\ oldHash \in Values \cup {NoHash}
  /\ on \in BOOLEAN /\ all \in BOOLEAN /\ offAgain \in BOOLEAN /\ full \in BOOLEAN
  /\ client \in [colliders : SUBSET Colliders, scols : Contents(Scols),
                 overrun : BOOLEAN, synced : BOOLEAN, wrong : BOOLEAN]

(* Neither table exceeds its slots (stupid_hash.hpp:170); and every entry of *)
(* s_colliders, which the next full dump reads, is alive, unless             *)
(* SEND_COLL_STUFF was switched off again: the remove hook looks at the      *)
(* table only while it is on (main.cpp:563).                                 *)
TablesSound ==
  /\ TypeOK
  /\ Cardinality(s_colliders) <= ColliderSlots
  /\ Cardinality(DOMAIN s_hashed_scols) <= ScolSlots
  /\ ~offAgain => s_colliders \subseteq live

(* The client once it has read everything that is on its way: the positions  *)
(* of the words for and against what it then believes.                       *)
Told(b) == IF b THEN {0} ELSE {}
Sent(tags) == {i \in DOMAIN Queue : Queue[i].tag \in tags}
SentOf(c, tags) == {i \in Sent(tags) : Queue[i].ptr = c}

WillBeSynced == LastWord(Told(client.synced) \cup Sent({"allcols"}), Sent({"overrun"}))
WillKnow(c) ==
  LastWord(Told(c \in client.colliders) \cup SentOf(c, {"normco+", "normco*"}),
           SentOf(c, {"normco-"}))

(* Once a full dump has come on a connection, and no overrun since, the      *)
(* client knows every collider the reporter has in its table, whatever was   *)
(* lost before or on earlier connections (main.cpp:657, client.html:1762).   *)
NothingMissing ==
  conn = "current" /\ WillBeSynced => \A c \in s_colliders : WillKnow(c)

(* A client that was there from the start and saw no overrun has exactly the *)
(* colliders of the table, flags switched or not, as long as the table had   *)
(* room for all (main.cpp:548-579).                                          *)
PictureExact ==
  /\ conn = "current" /\ handOvers = 0 /\ ~full
  /\ ~client.overrun /\ Sent({"overrun"}) = {}
  => \A c \in Colliders : WillKnow(c) <=> c \in s_colliders

(* After a full dump and until the next overrun, a reference ("scolco~") is  *)
(* to a dump the client has, with the contents the scol has now: withheld    *)
(* dumps were really sent (write_cached_dump, main.cpp:511-546).             *)
ReferencesExact == ~client.wrong

(* A full dump ordered while a connection is current reaches its client:     *)
(* DumpOrdered ~> DumpSettled, as the game thread and the hose go on.        *)
DumpOrdered == on /\ all /\ conn = "current"

DumpSettled == client.synced \/ conn # "current"
=============================================================================
