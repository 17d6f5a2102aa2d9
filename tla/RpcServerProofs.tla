---------------------------- MODULE RpcServerProofs ----------------------------
(***************************************************************************)
(* Proofs about the RPC thread: the server's connections, for every set of *)
(* connections and of requests and every number of requests, and the       *)
(* memory they may touch, for every size of the address space.             *)
(***************************************************************************)
EXTENDS RpcServer, MemRegions, WellFoundedInduction, SequenceTheorems, TLAPS

Item == [kind : {"101", "404", "426", "hello", "answer", "error", "overstuffed", "starved",
                 "pong", "close"},
         for : Nat, size : Nat, body : Nat, bodyAt : Nat]

Incoming == [type : {"read", "starved", "other", "error", "ping", "close"}, len : Nat,
             actual : Nat, id : Nat]

HttpRequest == [type : {"http"}, uri : {"/ws/hose", "/ws/rpc", "/"}, key : BOOLEAN, id : Nat]

Message == HttpRequest \cup Incoming

ConnType ==
  [phase : {"new", "http", "ws", "plain", "gone"}, state : {"default", "rpc", "handoff"},
   send : Seq(Item), size : Nat, draining : BOOLEAN, closing : BOOLEAN, junk : BOOLEAN]

TypeOK ==
  /\ conn \in [Conns -> ConnType]
  /\ inbox \in [Conns -> Seq(Message)]
  /\ got \in [Conns -> Seq(Item)]
  /\ asked \in [Conns -> Nat] /\ closes \in [Conns -> Nat]
  /\ wanted \in [Conns -> Opening]
  /\ turn \in {Idle} \cup (Conns \X {"read", "write", "close"})
  /\ newFd \in Conns \cup {None} /\ curFd \in Conns \cup {None}

(* mg_mgr_poll is at a connection that exists.                              *)
TurnOn == turn # Idle => conn[turn[1]].phase \notin {"new", "gone"}

(* An RPC connection's client has been answered n messages, the h-th of     *)
(* which was the upgrade.                                                   *)
Answered(out, n) ==
  /\ Len(out) - 1 = n
  /\ \E h \in 1..(Len(out) - 1) :
       /\ out[h].kind = "101" /\ out[h + 1].kind = "hello"
       /\ \A i \in 1..h : out[i].for = i
       /\ \A i \in (h + 1)..Len(out) : out[i].for = i - 1

Served == {"http", "ws", "plain"}
Upgraded == {"ws", "plain"}

(* A connection r that has handled n messages of a client whose last HTTP   *)
(* request is w, and what it has answered: out.                             *)
Fine(r, out, n, w) ==
  /\ r.phase = "http" =>
       /\ r.state = "default" /\ \A i \in 1..Len(out) : out[i].kind = "404"
       /\ ~r.junk => Len(out) = n /\ \A i \in 1..Len(out) : out[i].for = i
  /\ r.phase \in Upgraded => r.state \in {"rpc", "handoff"}
  /\ r.phase = "ws" /\ r.state = "rpc" /\ ~r.junk => Answered(out, n)
  /\ r.state = "handoff" => r.phase \in Upgraded /\ HoseAnswers(out, w)

(* The messages that wait on a connection in phase p: numbered from base,   *)
(* and the HTTP requests first, with nothing but "/" before the last.       *)
Coming(msgs, base, p, w) ==
  \A i \in 1..Len(msgs) :
    /\ msgs[i].id = base + i
    /\ msgs[i].type # "http" => msgs[i].actual <= msgs[i].len
    /\ msgs[i].type = "http" =>
         /\ p = "http" /\ (msgs[i].uri # "/" => msgs[i].uri = w.uri /\ msgs[i].key = w.key)
         /\ \A j \in 1..(i - 1) : msgs[j].type = "http" /\ msgs[j].uri = "/"

(* The life of a connection.                                                *)
Life(c) ==
  /\ conn[c].phase = "new" => inbox[c] = <<>> /\ got[c] = <<>> /\ asked[c] = 0 /\ conn[c] = NewConn
  /\ conn[c].phase = "gone" => conn[c].state = "default" /\ conn[c].send = <<>>
  /\ conn[c].phase \in Served =>
       /\ Len(inbox[c]) <= asked[c]
       /\ Coming(inbox[c], asked[c] - Len(inbox[c]), conn[c].phase, wanted[c])
       /\ Fine(conn[c], got[c] \o conn[c].send, asked[c] - Len(inbox[c]), wanted[c])

(* A socket's owner, and what the client of one that is the hose's has got. *)
Owner(c) ==
  /\ closes[c] = IF conn[c].phase = "gone" /\ newFd # c /\ curFd # c THEN 1 ELSE 0
  /\ conn[c].phase # "gone" => newFd # c /\ curFd # c
  /\ newFd = c => curFd # c
  /\ c \in {newFd, curFd} => HoseAnswers(got[c], wanted[c])

FrameSound(f) == f.kind \in {"answer", "hello", "pong", "close"} => f.size = f.bodyAt + f.body

Sound(r) == SendLen(r) <= r.size /\ \A i \in DOMAIN r.send : FrameSound(r.send[i])

IInv ==
  /\ TypeOK /\ TurnOn
  /\ \A c \in Conns : Life(c) /\ Owner(c) /\ Sound(conn[c])

-----------------------------------------------------------------------------
(* The send buffer's length.                                                *)

(* A property of numbers that fails somewhere fails first somewhere.        *)
LEMMA NatLeast ==
  ASSUME NEW T, T \subseteq Nat, T # {}
  PROVE  \E n \in T : \A m \in T : n <= m
<1>1. PICK x \in T : \A y \in T : <<y, x>> \notin OpToRel(<, Nat)
  BY WFMin, NatLessThanWellFounded
<1>2. \A y \in T : ~(y < x)
  <2> SUFFICES ASSUME NEW y \in T, y < x PROVE FALSE
    OBVIOUS
  <2>1. x \in Nat /\ y \in Nat
    OBVIOUS
  <2>2. <<y, x>> \in Nat \X Nat /\ <<y, x>>[1] < <<y, x>>[2]
    BY <2>1
  <2>3. <<y, x>> \in OpToRel(<, Nat)
    BY <2>2, Zenon DEF OpToRel
  <2> QED
    BY <2>3, <1>1
<1>3. \A y \in T : x <= y
  BY <1>2
<1> QED
  BY <1>3

(* bytes as the recursion computes it.                                      *)
BytesUpTo(send, n, f) ==
  f = [k \in 0..n |-> IF k = 0 THEN 0 ELSE f[k - 1] + send[k].size]

LEMMA BytesExist ==
  ASSUME NEW send, NEW n \in Nat
  PROVE  \E f : BytesUpTo(send, n, f)
<1> DEFINE T == {k \in Nat : ~ \E f : BytesUpTo(send, k, f)}
<1> SUFFICES ASSUME T # {} PROVE FALSE
  OBVIOUS
<1>1. PICK m \in T : \A k \in T : m <= k
  BY NatLeast, T \subseteq Nat
<1>2. CASE m = 0
  <2> DEFINE f == [k \in 0..0 |-> 0]
  <2>1. BytesUpTo(send, 0, f)
    BY DEF BytesUpTo
  <2> QED
    BY <2>1, <1>1, <1>2
<1>3. CASE m # 0
  <2>1. m - 1 \in Nat /\ m - 1 \notin T
    BY <1>1, <1>3
  <2>2. PICK g : BytesUpTo(send, m - 1, g)
    BY <2>1
  <2> DEFINE f == [k \in 0..m |-> IF k = m THEN g[m - 1] + send[m].size ELSE g[k]]
  <2>3. \A k \in 0..m - 1 : f[k] = (IF k = 0 THEN 0 ELSE f[k - 1] + send[k].size)
    BY <2>1, <2>2 DEF BytesUpTo
  <2>4. f[m] = f[m - 1] + send[m].size
    BY <2>1, <1>3
  <2>5. \A k \in 0..m : f[k] = (IF k = 0 THEN 0 ELSE f[k - 1] + send[k].size)
    BY <2>1, <2>3, <2>4, <1>3
  <2> HIDE DEF f
  <2>6. f = [k \in 0..m |-> f[k]]
    BY DEF f
  <2>7. BytesUpTo(send, m, f)
    BY <2>5, <2>6 DEF BytesUpTo
  <2> QED
    BY <2>7, <1>1
<1> QED
  BY <1>2, <1>3

LEMMA BytesUnfold ==
  ASSUME NEW send, Len(send) \in Nat
  PROVE  /\ BytesOf(send)[0] = 0
         /\ \A n \in 1..Len(send) : BytesOf(send)[n] = BytesOf(send)[n - 1] + send[n].size
<1>1. BytesUpTo(send, Len(send), BytesOf(send))
  BY BytesExist DEF BytesOf, BytesUpTo
<1> QED
  BY <1>1 DEF BytesUpTo

(* Counting up to a bound.                                                  *)
LEMMA CountUp ==
  ASSUME NEW N \in Nat, NEW S, 0 \in S, \A k \in 1..N : k - 1 \in S => k \in S
  PROVE  \A k \in 0..N : k \in S
<1> DEFINE T == {k \in 0..N : k \notin S}
<1> SUFFICES ASSUME T # {} PROVE FALSE
  OBVIOUS
<1>1. PICK m \in T : \A k \in T : m <= k
  BY NatLeast, T \subseteq Nat
<1>2. m \in 1..N /\ m - 1 \in 0..N /\ m - 1 \notin T
  BY <1>1
<1> QED
  BY <1>1, <1>2

LEMMA ItemSize == \A i \in Item : i.size \in Nat
BY DEF Item

LEMMA BytesType ==
  ASSUME NEW send \in Seq(Item)
  PROVE  \A n \in 0..Len(send) : BytesOf(send)[n] \in Nat
<1> DEFINE S == {n \in 0..Len(send) : BytesOf(send)[n] \in Nat}
<1>0. Len(send) \in Nat
  OBVIOUS
<1>1. 0 \in S
  BY <1>0, BytesUnfold
<1>2. ASSUME NEW k \in 1..Len(send), k - 1 \in S PROVE k \in S
  <2>1. send[k] \in Item
    OBVIOUS
  <2> QED
    BY <1>0, <1>2, <2>1, BytesUnfold, ItemSize
<1> HIDE DEF S
<1>3. \A k \in 0..Len(send) : k \in S
  BY <1>0, <1>1, <1>2, CountUp
<1> QED
  BY <1>3 DEF S

LEMMA EmptySend == \A r : r.send = <<>> => SendLen(r) = 0
<1>1. Len(<<>>) = 0
  OBVIOUS
<1> QED
  BY <1>1, BytesUnfold DEF SendLen

(* mg_iobuf_add.                                                            *)
LEMMA BytesAppend ==
  ASSUME NEW send \in Seq(Item), NEW i \in Item
  PROVE  BytesOf(Append(send, i))[Len(send) + 1] = BytesOf(send)[Len(send)] + i.size
<1> DEFINE t == Append(send, i)
           S == {n \in 0..Len(send) : BytesOf(t)[n] = BytesOf(send)[n]}
<1>0. Len(send) \in Nat /\ Len(t) \in Nat /\ Len(t) = Len(send) + 1 /\ t[Len(send) + 1] = i
  OBVIOUS
<1>1. 0 \in S
  BY <1>0, BytesUnfold
<1>2. ASSUME NEW k \in 1..Len(send), k - 1 \in S PROVE k \in S
  <2>1. t[k] = send[k] /\ k \in 1..Len(t)
    OBVIOUS
  <2>2. BytesOf(t)[k] = BytesOf(t)[k - 1] + t[k].size
    BY <1>0, <2>1, BytesUnfold
  <2>3. BytesOf(send)[k] = BytesOf(send)[k - 1] + send[k].size
    BY <1>0, BytesUnfold
  <2> QED
    BY <1>2, <2>1, <2>2, <2>3
<1> HIDE DEF S
<1>3. \A k \in 0..Len(send) : k \in S
  BY <1>0, <1>1, <1>2, CountUp
<1>4. BytesOf(t)[Len(send)] = BytesOf(send)[Len(send)]
  BY <1>0, <1>3 DEF S
<1>5. Len(t) \in 1..Len(t) /\ Len(t) - 1 = Len(send)
  BY <1>0
<1>6. BytesOf(t)[Len(t)] = BytesOf(t)[Len(t) - 1] + t[Len(t)].size
  BY <1>0, <1>5, BytesUnfold
<1> QED
  BY <1>0, <1>4, <1>5, <1>6

(* mg_iobuf_del: what is left is no longer than what was there.             *)
LEMMA BytesDrop ==
  ASSUME NEW send \in Seq(Item), NEW n \in 0..Len(send)
  PROVE  LET t == SubSeq(send, n + 1, Len(send))
         IN  BytesOf(t)[Len(t)] <= BytesOf(send)[Len(send)]
<1> DEFINE t == SubSeq(send, n + 1, Len(send))
           S == {k \in 0..Len(t) : BytesOf(send)[n + k] = BytesOf(send)[n] + BytesOf(t)[k]}
<1>0. /\ Len(send) \in Nat /\ n \in Nat /\ n <= Len(send) /\ t \in Seq(Item)
      /\ Len(t) = Len(send) - n /\ \A k \in 1..Len(t) : t[k] = send[n + k]
  OBVIOUS
<1> HIDE DEF t
<1>1. 0 \in S
  BY <1>0, BytesUnfold, BytesType
<1>2. ASSUME NEW k \in 1..Len(t), k - 1 \in S PROVE k \in S
  <2>1. BytesOf(t)[k] = BytesOf(t)[k - 1] + t[k].size
    <3>1. t \in Seq(Item) /\ k \in 1..Len(t)
      BY <1>0
    <3> QED BY ONLY <3>1, BytesUnfold
  <2>0. n + k \in 1..Len(send) /\ k - 1 \in 0..Len(t)
    BY <1>0
  <2>2. BytesOf(send)[n + k] = BytesOf(send)[n + k - 1] + send[n + k].size
    BY <1>0, <2>0, BytesUnfold
  <2>3. BytesOf(send)[n] \in Nat /\ BytesOf(t)[k - 1] \in Nat
    BY <1>0, <2>0, BytesType
  <2>6. t[k].size \in Nat
    <3>1. t[k] \in Item
      BY <1>0
    <3> QED
      BY <3>1, ItemSize
  <2>4. BytesOf(send)[n + (k - 1)] = BytesOf(send)[n] + BytesOf(t)[k - 1]
    BY <1>2
  <2>5. n + (k - 1) = n + k - 1
    BY <1>0
  <2> QED
    BY <1>0, <2>0, <2>1, <2>2, <2>3, <2>4, <2>5, <2>6
<1> HIDE DEF S
<1>a. Len(t) \in Nat
  BY <1>0
<1>3. \A k \in 0..Len(t) : k \in S
  BY <1>a, <1>1, <1>2, CountUp
<1>4. Len(t) \in 0..Len(t) /\ n + Len(t) = Len(send)
  BY <1>0
<1>5. BytesOf(send)[Len(send)] = BytesOf(send)[n] + BytesOf(t)[Len(t)]
  BY <1>3, <1>4 DEF S
<1>6. BytesOf(send)[n] \in Nat /\ BytesOf(t)[Len(t)] \in Nat
  BY <1>0, <1>4, BytesType
<1>7. BytesOf(t)[Len(t)] <= BytesOf(send)[Len(send)]
  BY <1>5, <1>6
<1> QED
  BY <1>7 DEF t

-----------------------------------------------------------------------------
(* The handlers.                                                            *)

LEMMA SendLenType == \A r \in ConnType : SendLen(r) \in Nat
<1> SUFFICES ASSUME NEW r \in ConnType PROVE SendLen(r) \in Nat
  OBVIOUS
<1>1. r.send \in Seq(Item)
  BY DEF ConnType
<1>2. Len(r.send) \in 0..Len(r.send)
  BY <1>1
<1> QED
  BY <1>1, <1>2, BytesType DEF SendLen

LEMMA SendLenAppend ==
  ASSUME NEW r, NEW s, r.send \in Seq(Item), NEW i \in Item, s.send = Append(r.send, i)
  PROVE  SendLen(s) = SendLen(r) + i.size
<1>1. Len(s.send) = Len(r.send) + 1
  OBVIOUS
<1> QED
  BY <1>1, BytesAppend DEF SendLen

(* Rounding up to MG_IO_SIZE leaves room for what is rounded.               *)
LEMMA RoundUpHolds == \A n \in Nat : RoundUp(n) \in Nat /\ n <= RoundUp(n)
BY DEF RoundUp, Align

LEMMA HeaderSizes == \A n \in Nat : HeaderSize(n) \in Nat
BY DEF HeaderSize

LEMMA HeaderMonotone == \A m, n \in Nat : m <= n => HeaderSize(m) <= HeaderSize(n)
BY DEF HeaderSize

LEMMA FrameItem ==
  ASSUME NEW kind \in {"hello", "answer", "error", "overstuffed", "starved", "pong", "close"},
         NEW for \in Nat, NEW n \in Nat
  PROVE  /\ Frame(kind, for, n) \in Item /\ FrameSound(Frame(kind, for, n))
         /\ Frame(kind, for, n).for = for /\ Frame(kind, for, n).kind = kind
         /\ Frame(kind, for, n).size = HeaderSize(n) + n
BY HeaderSizes DEF Frame, Item, FrameSound

LEMMA TextItem ==
  ASSUME NEW kind \in {"101", "404", "426"}, NEW for \in Nat
  PROVE  /\ Text(kind, for) \in Item /\ FrameSound(Text(kind, for))
         /\ Text(kind, for).kind = kind /\ Text(kind, for).for = for
BY DEF Text, Item, FrameSound

(* A message put behind sound ones.                                         *)
LEMMA SoundAppend ==
  ASSUME NEW r \in ConnType, NEW s \in ConnType, Sound(r), NEW i \in Item, FrameSound(i),
         s.send = Append(r.send, i), SendLen(r) + i.size <= s.size
  PROVE  Sound(s)
<1>1. r.send \in Seq(Item)
  BY DEF ConnType
<1>2. SendLen(s) <= s.size
  BY <1>1, SendLenAppend
<1>3. ASSUME NEW k \in DOMAIN s.send PROVE FrameSound(s.send[k])
  <2>1. k \in 1..Len(r.send) + 1
    BY <1>1
  <2>2. CASE k = Len(r.send) + 1
    BY <1>1, <2>2
  <2>3. CASE k \in 1..Len(r.send)
    <3>1. s.send[k] = r.send[k] /\ k \in DOMAIN r.send
      BY <1>1, <2>3
    <3> QED
      BY <3>1 DEF Sound
  <2> QED
    BY <2>1, <2>2, <2>3, <1>1
<1> QED
  BY <1>2, <1>3 DEF Sound

(* s is r with one message more, and as r was handled.                      *)
Grown(r, s, i) ==
  /\ s \in ConnType /\ Sound(s) /\ s.send = Append(r.send, i)
  /\ s.phase = r.phase /\ s.state = r.state /\ s.junk = r.junk

LEMMA QueuedSound ==
  ASSUME NEW r \in ConnType, Sound(r), NEW i \in Item, FrameSound(i)
  PROVE  Grown(r, Queued(r, i), i)
<1>1. SendLen(r) \in Nat /\ i.size \in Nat
  BY SendLenType, ItemSize
<1>2. RoundUp(SendLen(r) + i.size) \in Nat /\ SendLen(r) + i.size <= RoundUp(SendLen(r) + i.size)
  BY <1>1, RoundUpHolds
<1>3. Append(r.send, i) \in Seq(Item)
  BY DEF ConnType
<1>4. /\ Queued(r, i) \in ConnType /\ Queued(r, i).send = Append(r.send, i)
      /\ Queued(r, i).size = RoundUp(SendLen(r) + i.size)
      /\ Queued(r, i).phase = r.phase /\ Queued(r, i).state = r.state
      /\ Queued(r, i).junk = r.junk
  BY <1>2, <1>3 DEF Queued, ConnType
<1>5. Sound(Queued(r, i))
  BY <1>2, <1>4, SoundAppend
<1> QED
  BY <1>4, <1>5 DEF Grown

LEMMA LastSound ==
  ASSUME NEW r \in ConnType, Sound(r), NEW i \in Item, FrameSound(i)
  PROVE  Grown(r, Last(r, i), i)
<1> DEFINE s == Queued(r, i)
           t == Last(r, i)
<1>1. Grown(r, s, i)
  BY QueuedSound
<1>2. t = [s EXCEPT !.draining = TRUE]
  BY DEF Last
<1> HIDE DEF s, t
<1>3. /\ t \in ConnType /\ t.send = s.send /\ t.size = s.size
      /\ t.phase = s.phase /\ t.state = s.state /\ t.junk = s.junk
  BY <1>1, <1>2 DEF ConnType, Grown
<1>4. SendLen(t) = SendLen(s)
  BY <1>3 DEF SendLen
<1>5. Grown(r, t, i)
  BY <1>1, <1>3, <1>4 DEF Sound, Grown
<1> QED
  BY <1>5 DEF t

(* A request that is refused is answered too.                               *)
LEMMA RefusedSound ==
  ASSUME NEW r \in ConnType, Sound(r), NEW q \in Incoming,
         NEW kind \in {"error", "overstuffed", "starved"}
  PROVE  \E i \in Item : i.for = q.id /\ Grown(r, Refused(r, kind, q), i)
<1> DEFINE i == Frame(kind, q.id, 16)
<1>1. i \in Item /\ FrameSound(i) /\ i.for = q.id
  BY FrameItem DEF Incoming
<1>2. Refused(r, kind, q) = Last(r, i)
  BY DEF Refused
<1> HIDE DEF i
<1> QED
  BY <1>1, <1>2, LastSound

(* One answer to every request, READ's written into the buffer included.    *)
LEMMA ReadSound ==
  ASSUME NEW r \in ConnType, Sound(r), NEW q \in Incoming, q.actual <= q.len
  PROVE  \E i \in Item : i.for = q.id /\ Grown(r, Read(r, q), i)
<1> DEFINE size == IF r.size < Limit THEN Limit ELSE r.size
           grown == [r EXCEPT !.size = size]
           i == Frame("answer", q.id, q.actual)
           s == [r EXCEPT !.size = size, !.send = Append(@, i)]
<1>1. /\ size \in Nat /\ SendLen(r) \in Nat /\ SendLen(r) <= size
      /\ q.id \in Nat /\ q.len \in Nat /\ q.actual \in Nat
  BY SendLenType DEF ConnType, Sound, Limit, Incoming
<1>2. CASE q.type = "starved" /\ r.size < Limit
  <2>1. Read(r, q) = Refused(r, "starved", q)
    BY <1>2 DEF Read
  <2> QED
    BY <2>1, RefusedSound
<1>3. CASE ~(q.type = "starved" /\ r.size < Limit) /\ HeaderSize(q.len) + q.len > size - SendLen(r)
  <2>1. /\ grown \in ConnType /\ grown.send = r.send /\ grown.size = size
        /\ grown.phase = r.phase /\ grown.state = r.state /\ grown.junk = r.junk
    BY <1>1 DEF ConnType
  <2>2. Sound(grown)
    BY <1>1, <2>1 DEF Sound, SendLen
  <2>3. Read(r, q) = Refused(grown, "overstuffed", q)
    BY <1>3 DEF Read
  <2> HIDE DEF grown
  <2>4. PICK j \in Item : j.for = q.id /\ Grown(grown, Refused(grown, "overstuffed", q), j)
    BY <2>1, <2>2, RefusedSound
  <2>5. Grown(r, Read(r, q), j)
    BY <2>1, <2>3, <2>4 DEF Grown
  <2> QED
    BY <2>4, <2>5
<1>4. CASE ~(q.type = "starved" /\ r.size < Limit) /\ ~(HeaderSize(q.len) + q.len > size - SendLen(r))
  <2>1. i \in Item /\ FrameSound(i) /\ i.for = q.id /\ i.size = HeaderSize(q.actual) + q.actual
    BY <1>1, FrameItem
  <2>2. Read(r, q) = s
    BY <1>4 DEF Read
  <2>3. SendLen(r) + i.size <= size
    <3>1. /\ HeaderSize(q.len) \in Nat /\ HeaderSize(q.actual) \in Nat
          /\ HeaderSize(q.actual) <= HeaderSize(q.len)
      BY <1>1, HeaderMonotone, HeaderSizes
    <3> HIDE DEF size, i
    <3> QED
      BY <1>1, <1>4, <2>1, <3>1
  <2> HIDE DEF i
  <2>4. Append(r.send, i) \in Seq(Item)
    BY <2>1 DEF ConnType
  <2>5. /\ s \in ConnType /\ s.send = Append(r.send, i) /\ s.size = size
        /\ s.phase = r.phase /\ s.state = r.state /\ s.junk = r.junk
    BY <1>1, <2>4 DEF ConnType
  <2> HIDE DEF s
  <2>6. Sound(s)
    BY <2>1, <2>3, <2>5, SoundAppend
  <2>7. Grown(r, Read(r, q), i)
    BY <2>2, <2>5, <2>6 DEF Grown
  <2> QED
    BY <2>1, <2>7
<1> QED
  BY <1>2, <1>3, <1>4

(* s is r with an answer to message id, or with nothing.                    *)
GrownBy(r, s, id, i) ==
  i.for = id /\ Grown(r, s, i) /\ (r.state # "rpc" => i.kind \in {"pong", "close"})

Same(r, s) ==
  /\ r.state # "rpc" /\ s \in ConnType /\ Sound(s)
  /\ s.send = r.send /\ s.phase = r.phase /\ s.state = r.state /\ s.junk = r.junk

(* Only a message on a connection that is not for RPC goes unanswered, and  *)
(* such a connection answers control frames only.                           *)
LEMMA OnFrameSound ==
  ASSUME NEW r \in ConnType, Sound(r), NEW q \in Incoming, q.actual <= q.len
  PROVE  (\E i \in Item : GrownBy(r, OnFrame(r, q), q.id, i)) \/ Same(r, OnFrame(r, q))
<1>1. /\ q.type \in {"read", "starved", "other", "error", "ping", "close"}
      /\ q.id \in Nat /\ q.len \in Nat
  BY DEF Incoming
<1>2. CASE q.type = "ping"
  <2> DEFINE i == Frame("pong", q.id, q.len)
  <2>1. OnFrame(r, q) = Queued(r, i)
    BY <1>2 DEF OnFrame
  <2>2. i \in Item /\ FrameSound(i) /\ i.for = q.id /\ i.kind = "pong"
    BY <1>1, FrameItem
  <2> HIDE DEF i
  <2> QED
    BY <2>1, <2>2, QueuedSound DEF GrownBy
<1>3. CASE q.type = "close"
  <2> DEFINE i == Frame("close", q.id, q.len)
  <2>1. OnFrame(r, q) = Last(r, i)
    BY <1>3 DEF OnFrame
  <2>2. i \in Item /\ FrameSound(i) /\ i.for = q.id /\ i.kind = "close"
    BY <1>1, FrameItem
  <2> HIDE DEF i
  <2> QED
    BY <2>1, <2>2, LastSound DEF GrownBy
<1>4. CASE q.type \notin {"ping", "close"} /\ r.state # "rpc"
  <2> DEFINE s == [r EXCEPT !.draining = TRUE]
  <2>1. OnFrame(r, q) = s
    BY <1>4 DEF OnFrame, OnMessage
  <2>2. /\ s \in ConnType /\ s.send = r.send /\ s.size = r.size
        /\ s.phase = r.phase /\ s.state = r.state /\ s.junk = r.junk
    BY DEF ConnType
  <2> HIDE DEF s
  <2>3. Sound(s)
    BY <2>2 DEF Sound, SendLen
  <2> QED
    BY <1>4, <2>1, <2>2, <2>3 DEF Same
<1>5. CASE q.type \in {"read", "starved"} /\ r.state = "rpc"
  <2>1. OnFrame(r, q) = Read(r, q)
    BY <1>5 DEF OnFrame, OnMessage
  <2> QED
    BY <1>5, <2>1, ReadSound DEF GrownBy
<1>6. CASE q.type = "error" /\ r.state = "rpc"
  <2>1. OnFrame(r, q) = Refused(r, "error", q)
    BY <1>6 DEF OnFrame, OnMessage
  <2> QED
    BY <1>6, <2>1, RefusedSound DEF GrownBy
<1>7. CASE q.type = "other" /\ r.state = "rpc"
  <2> DEFINE i == Frame("answer", q.id, q.len)
  <2>1. OnFrame(r, q) = Queued(r, i)
    BY <1>7 DEF OnFrame, OnMessage
  <2>2. i \in Item /\ FrameSound(i) /\ i.for = q.id
    BY <1>1, FrameItem
  <2> HIDE DEF i
  <2> QED
    BY <1>7, <2>1, <2>2, QueuedSound DEF GrownBy
<1> QED
  BY <1>1, <1>2, <1>3, <1>4, <1>5, <1>6, <1>7

(* An HTTP request is answered 404 and nothing changes, 426, or 101, which  *)
(* on an RPC connection hello follows.                                      *)
LEMMA OnHttpSound ==
  ASSUME NEW r \in ConnType, Sound(r), r.state = "default", NEW q \in HttpRequest
  PROVE  LET s == OnHttp(r, q)
         IN  /\ s \in ConnType /\ Sound(s) /\ s.junk = r.junk
             /\ \/ \E i \in Item : /\ i.kind = "404" /\ i.for = q.id /\ q.uri = "/"
                                  /\ s.phase = r.phase /\ s.state = "default"
                                  /\ s.send = Append(r.send, i)
                \/ \E i \in Item : /\ i.kind = "426" /\ ~q.key /\ s.phase = "plain"
                                  /\ s.send = Append(r.send, i)
                                  /\ \/ s.state = "rpc" /\ q.uri = "/ws/rpc"
                                     \/ s.state = "handoff" /\ q.uri = "/ws/hose"
                \/ \E i \in Item : /\ i.kind = "101" /\ q.key /\ q.uri = "/ws/hose"
                                  /\ s.phase = "ws" /\ s.state = "handoff"
                                  /\ s.send = Append(r.send, i)
                \/ \E i, j \in Item : /\ i.kind = "101" /\ i.for = q.id
                                     /\ j.kind = "hello" /\ j.for = q.id
                                     /\ s.phase = "ws" /\ s.state = "rpc" /\ q.uri = "/ws/rpc"
                                     /\ s.send = Append(Append(r.send, i), j)
<1> DEFINE st == CASE q.uri = "/ws/hose" -> "handoff" [] q.uri = "/ws/rpc" -> "rpc"
                   [] OTHER -> "default"
           named == [r EXCEPT !.state = st]
           i101 == Text("101", q.id)
           up == Queued(named, i101)
           open == [up EXCEPT !.phase = "ws"]
           i426 == Text("426", q.id)
           no == Last(named, i426)
           i404 == Text("404", q.id)
<1>1. /\ q.key \in BOOLEAN /\ q.id \in Nat
      /\ \/ st = "default" /\ q.uri = "/"
         \/ st = "rpc" /\ q.uri = "/ws/rpc"
         \/ st = "handoff" /\ q.uri = "/ws/hose"
  BY DEF HttpRequest
<1>2. /\ named \in ConnType /\ named.send = r.send /\ named.size = r.size
      /\ named.phase = r.phase /\ named.state = st /\ named.junk = r.junk
  <2>1. st \in {"default", "rpc", "handoff"}
    BY <1>1
  <2> HIDE DEF st
  <2> QED
    BY <2>1 DEF ConnType
<1>3. Sound(named)
  BY <1>2 DEF Sound, SendLen
<1>4. /\ i101 \in Item /\ FrameSound(i101) /\ i101.kind = "101" /\ i101.for = q.id
      /\ i426 \in Item /\ FrameSound(i426) /\ i426.kind = "426" /\ i426.for = q.id
      /\ i404 \in Item /\ FrameSound(i404) /\ i404.kind = "404" /\ i404.for = q.id
  BY <1>1, TextItem
<1>5. /\ OnHttp(r, q) =
            CASE st = "default" -> Queued(r, i404)
              [] st # "default" /\ ~q.key -> [no EXCEPT !.phase = "plain"]
              [] st = "rpc" /\ q.key -> Queued(open, Frame("hello", q.id, 160))
              [] OTHER -> open
  BY DEF OnHttp
<1> HIDE DEF st, named, i101, i426, i404
<1>6. Grown(named, up, i101) /\ Grown(named, no, i426)
  BY <1>2, <1>3, <1>4, QueuedSound, LastSound
<1> HIDE DEF up, no
<1>7. CASE st = "default"
  <2>1. OnHttp(r, q) = Queued(r, i404)
    BY <1>5, <1>7
  <2>2. Grown(r, Queued(r, i404), i404)
    BY <1>4, QueuedSound
  <2> QED
    BY <1>1, <1>4, <1>7, <2>1, <2>2 DEF Grown
<1>8. CASE st # "default" /\ ~q.key
  <2> DEFINE s == [no EXCEPT !.phase = "plain"]
  <2>1. OnHttp(r, q) = s
    BY <1>5, <1>8
  <2>2. /\ s \in ConnType /\ s.phase = "plain" /\ s.state = no.state /\ s.junk = no.junk
        /\ s.send = no.send /\ s.size = no.size
    BY <1>6 DEF ConnType, Grown
  <2> HIDE DEF s
  <2>3. Sound(s)
    BY <1>6, <2>2 DEF Sound, SendLen, Grown
  <2> QED
    BY <1>1, <1>2, <1>4, <1>6, <1>8, <2>1, <2>2, <2>3 DEF Grown
<1>9. /\ open \in ConnType /\ open.phase = "ws" /\ open.state = st /\ Sound(open)
      /\ open.send = Append(r.send, i101) /\ open.junk = r.junk
  <2>1. /\ open \in ConnType /\ open.phase = "ws" /\ open.state = up.state /\ open.junk = up.junk
        /\ open.send = up.send /\ open.size = up.size
    BY <1>6 DEF ConnType, Grown
  <2> HIDE DEF open
  <2> QED
    BY <1>2, <1>6, <2>1 DEF Sound, SendLen, Grown
<1> HIDE DEF open
<1>10. CASE st = "rpc" /\ q.key
  <2> DEFINE j == Frame("hello", q.id, 160)
  <2>1. OnHttp(r, q) = Queued(open, j)
    BY <1>5, <1>10
  <2>2. j \in Item /\ FrameSound(j) /\ j.kind = "hello" /\ j.for = q.id
    BY <1>1, FrameItem
  <2> HIDE DEF j
  <2>3. Grown(open, Queued(open, j), j)
    BY <1>9, <2>2, QueuedSound
  <2> QED
    BY <1>1, <1>4, <1>9, <1>10, <2>1, <2>2, <2>3 DEF Grown
<1>11. CASE st = "handoff" /\ q.key
  <2>1. OnHttp(r, q) = open
    BY <1>5, <1>11
  <2> QED
    BY <1>1, <1>4, <1>9, <1>11, <2>1
<1> QED
  BY <1>1, <1>7, <1>8, <1>10, <1>11

-----------------------------------------------------------------------------
(* Messages handled one after the other.                                    *)

HandledUpTo(r, msgs, n, f) ==
  f = [k \in 0..n |-> IF k = 0 THEN r ELSE Handle(r.phase, f[k - 1], msgs[k])]

LEMMA HandledExist ==
  ASSUME NEW r, NEW msgs, NEW n \in Nat
  PROVE  \E f : HandledUpTo(r, msgs, n, f)
<1> DEFINE T == {k \in Nat : ~ \E f : HandledUpTo(r, msgs, k, f)}
<1> SUFFICES ASSUME T # {} PROVE FALSE
  OBVIOUS
<1>1. PICK m \in T : \A k \in T : m <= k
  BY NatLeast, T \subseteq Nat
<1>2. CASE m = 0
  <2> DEFINE f == [k \in 0..0 |-> r]
  <2>1. HandledUpTo(r, msgs, 0, f)
    BY DEF HandledUpTo
  <2> QED
    BY <2>1, <1>1, <1>2
<1>3. CASE m # 0
  <2>1. m - 1 \in Nat /\ m - 1 \notin T
    BY <1>1, <1>3
  <2>2. PICK g : HandledUpTo(r, msgs, m - 1, g)
    BY <2>1
  <2> DEFINE f == [k \in 0..m |-> IF k = m THEN Handle(r.phase, g[m - 1], msgs[m]) ELSE g[k]]
  <2>3. \A k \in 0..m - 1 : f[k] = (IF k = 0 THEN r ELSE Handle(r.phase, f[k - 1], msgs[k]))
    BY <2>1, <2>2 DEF HandledUpTo
  <2>4. f[m] = Handle(r.phase, f[m - 1], msgs[m])
    BY <2>1, <1>3
  <2>6. f = [k \in 0..m |-> f[k]]
    OBVIOUS
  <2> HIDE DEF f
  <2>5. \A k \in 0..m : f[k] = (IF k = 0 THEN r ELSE Handle(r.phase, f[k - 1], msgs[k]))
    <3>1. \A k \in 0..m : k = m \/ k \in 0..m - 1
      BY <2>1
    <3> QED
      BY <2>3, <2>4, <1>3, <3>1
  <2>7. HandledUpTo(r, msgs, m, f)
    BY <2>5, <2>6 DEF HandledUpTo
  <2> QED
    BY <2>7, <1>1
<1> QED
  BY <1>2, <1>3

LEMMA HandledUnfold ==
  ASSUME NEW r, NEW msgs, Len(msgs) \in Nat
  PROVE  /\ HandledTo(r, msgs)[0] = r
         /\ \A n \in 1..Len(msgs) :
              HandledTo(r, msgs)[n] = Handle(r.phase, HandledTo(r, msgs)[n - 1], msgs[n])
<1> DEFINE h == HandledTo(r, msgs)
<1>1. \E f : f = [k \in 0..Len(msgs) |-> IF k = 0 THEN r ELSE Handle(r.phase, f[k - 1], msgs[k])]
  <2>1. PICK f : HandledUpTo(r, msgs, Len(msgs), f)
    BY HandledExist
  <2> QED
    BY <2>1 DEF HandledUpTo
<1>2. h = [k \in 0..Len(msgs) |-> IF k = 0 THEN r ELSE Handle(r.phase, h[k - 1], msgs[k])]
  BY <1>1, Zenon DEF HandledTo
<1> HIDE DEF h
<1>3. h[0] = r /\ \A n \in 1..Len(msgs) : h[n] = Handle(r.phase, h[n - 1], msgs[n])
  BY <1>2
<1> QED
  BY <1>3 DEF h

(* One message more.                                                        *)
LEMMA AppendFacts ==
  ASSUME NEW out \in Seq(Item), NEW i \in Item
  PROVE  /\ Append(out, i) \in Seq(Item) /\ Len(out) \in Nat
         /\ Len(Append(out, i)) = Len(out) + 1 /\ Append(out, i)[Len(out) + 1] = i
         /\ \A k \in 1..Len(out) : Append(out, i)[k] = out[k]
BY AppendProperties

LEMMA AppendBehind ==
  ASSUME NEW g \in Seq(Item), NEW send \in Seq(Item), NEW i \in Item
  PROVE  g \o Append(send, i) = Append(g \o send, i)
OBVIOUS

LEMMA AnsweredNext ==
  ASSUME NEW out \in Seq(Item), NEW n \in Nat, NEW i \in Item, Answered(out, n), i.for = n + 1
  PROVE  Answered(Append(out, i), n + 1)
<1> DEFINE more == Append(out, i)
<1>1. /\ Len(out) \in Nat /\ Len(more) = Len(out) + 1 /\ more[Len(out) + 1] = i
      /\ \A k \in 1..Len(out) : more[k] = out[k]
  BY AppendFacts
<1>2. Len(out) - 1 = n
  BY DEF Answered
<1>3. PICK h \in 1..(Len(out) - 1) :
        /\ out[h].kind = "101" /\ out[h + 1].kind = "hello"
        /\ \A k \in 1..h : out[k].for = k
        /\ \A k \in (h + 1)..Len(out) : out[k].for = k - 1
  BY DEF Answered
<1> HIDE DEF more
<1>4. h \in 1..(Len(more) - 1) /\ more[h].kind = "101" /\ more[h + 1].kind = "hello"
  BY <1>1, <1>3
<1>5. \A k \in 1..h : more[k].for = k
  BY <1>1, <1>3
<1>6. ASSUME NEW k \in (h + 1)..Len(more) PROVE more[k].for = k - 1
  <2>1. CASE k = Len(out) + 1
    BY <1>1, <1>2, <2>1
  <2>2. CASE k # Len(out) + 1
    <3>1. k \in (h + 1)..Len(out) /\ k \in 1..Len(out)
      <4>1. Len(out) \in Nat /\ Len(more) = Len(out) + 1 /\ h \in 1..(Len(out) - 1)
        BY <1>1
      <4> QED
        BY ONLY <4>1, <2>2, k \in (h + 1)..Len(more)
    <3> QED
      BY <1>1, <1>3, <3>1
  <2> QED
    BY <2>1, <2>2
<1>7. Len(more) - 1 = n + 1
  BY <1>1, <1>2
<1>8. Answered(more, n + 1)
  BY <1>4, <1>5, <1>6, <1>7 DEF Answered
<1> QED
  BY <1>8 DEF more

(* The upgrade to an RPC connection.                                        *)
LEMMA AnsweredFirst ==
  ASSUME NEW out \in Seq(Item), NEW n \in Nat, Len(out) = n,
         \A k \in 1..Len(out) : out[k].for = k,
         NEW i \in Item, NEW j \in Item, i.kind = "101", i.for = n + 1,
         j.kind = "hello", j.for = n + 1
  PROVE  Answered(Append(Append(out, i), j), n + 1)
<1> DEFINE up == Append(out, i)
           more == Append(up, j)
<1>1. /\ up \in Seq(Item) /\ Len(up) = n + 1 /\ up[n + 1] = i
      /\ \A k \in 1..n : up[k] = out[k]
  BY AppendFacts
<1> HIDE DEF up
<1>2. Len(more) = n + 2 /\ more[n + 2] = j /\ \A k \in 1..(n + 1) : more[k] = up[k]
  BY <1>1, AppendFacts
<1> HIDE DEF more
<1>3. more[n + 1] = i
  BY <1>1, <1>2
<1>4. ASSUME NEW k \in 1..(n + 1) PROVE more[k].for = k
  <2>1. CASE k = n + 1
    BY <1>3, <2>1
  <2>2. CASE k \in 1..n
    BY <1>1, <1>2, <2>2
  <2> QED
    BY <2>1, <2>2
<1>5. \A k \in (n + 2)..Len(more) : more[k].for = k - 1
  BY <1>2
<1>6. /\ n + 1 \in 1..(Len(more) - 1) /\ Len(more) - 1 = n + 1
      /\ (n + 1) + 1 = n + 2
  BY <1>2
<1>7. /\ more[n + 1].kind = "101" /\ more[(n + 1) + 1].kind = "hello"
      /\ \A k \in ((n + 1) + 1)..Len(more) : more[k].for = k - 1
  BY <1>2, <1>3, <1>5, <1>6
<1>8. Answered(more, n + 1)
  BY <1>4, <1>6, <1>7 DEF Answered
<1> QED
  BY <1>8 DEF more, up

LEMMA HoseAnswersNext ==
  ASSUME NEW out \in Seq(Item), NEW w, HoseAnswers(out, w), NEW i \in Item,
         i.kind \in {"pong", "close"}
  PROVE  HoseAnswers(Append(out, i), w)
<1> DEFINE more == Append(out, i)
<1>1. /\ Len(out) \in Nat /\ Len(more) = Len(out) + 1 /\ more[Len(out) + 1] = i
      /\ \A k \in 1..Len(out) : more[k] = out[k]
  BY AppendFacts
<1>2. PICK h \in 1..Len(out) :
        /\ out[h].kind = IF w.key THEN "101" ELSE "426"
        /\ \A k \in 1..(h - 1) : out[k].kind = "404"
        /\ \A k \in (h + 1)..Len(out) : out[k].kind \in {"pong", "close"}
  BY DEF HoseAnswers
<1> HIDE DEF more
<1>3. h \in 1..Len(more) /\ more[h].kind = IF w.key THEN "101" ELSE "426"
  BY <1>1, <1>2
<1>4. \A k \in 1..(h - 1) : more[k].kind = "404"
  BY <1>1, <1>2
<1>5. ASSUME NEW k \in (h + 1)..Len(more) PROVE more[k].kind \in {"pong", "close"}
  <2>1. CASE k = Len(out) + 1
    BY <1>1, <2>1
  <2>2. CASE k # Len(out) + 1
    <3>1. k \in (h + 1)..Len(out) /\ k \in 1..Len(out)
      BY <1>1, <1>2, <2>2
    <3> QED
      BY <1>1, <1>2, <3>1
  <2> QED
    BY <2>1, <2>2
<1>6. HoseAnswers(more, w)
  BY <1>3, <1>4, <1>5 DEF HoseAnswers
<1> QED
  BY <1>6 DEF more

LEMMA HoseAnswersFirst ==
  ASSUME NEW out \in Seq(Item), \A k \in 1..Len(out) : out[k].kind = "404",
         NEW w, w.uri = "/ws/hose", NEW i \in Item, i.kind = IF w.key THEN "101" ELSE "426"
  PROVE  HoseAnswers(Append(out, i), w)
<1> DEFINE more == Append(out, i)
<1>1. /\ Len(out) \in Nat /\ Len(more) = Len(out) + 1 /\ more[Len(out) + 1] = i
      /\ \A k \in 1..Len(out) : more[k] = out[k]
  BY AppendFacts
<1> HIDE DEF more
<1> DEFINE h == Len(out) + 1
<1>2. h \in 1..Len(more) /\ more[h].kind = IF w.key THEN "101" ELSE "426"
  BY <1>1
<1>3. \A k \in 1..(h - 1) : more[k].kind = "404"
  BY <1>1
<1>4. \A k \in (h + 1)..Len(more) : more[k].kind \in {"pong", "close"}
  BY <1>1
<1> HIDE DEF h
<1>5. HoseAnswers(more, w)
  BY <1>2, <1>3, <1>4 DEF HoseAnswers
<1> QED
  BY <1>5 DEF more

-----------------------------------------------------------------------------
(* What handling a message makes of a connection.                           *)

(* A message that is dropped.                                               *)
LEMMA FineDropped ==
  ASSUME NEW r \in ConnType, NEW s \in ConnType, NEW out, NEW n, NEW m, NEW w, Fine(r, out, n, w),
         s.phase = r.phase, s.state = r.state,
         s.junk \/ (r.phase # "http" /\ r.state # "rpc")
  PROVE  Fine(s, out, m, w)
BY DEF Fine

(* A frame that is answered.                                                *)
LEMMA FineAnswered ==
  ASSUME NEW r \in ConnType, NEW s \in ConnType, NEW out \in Seq(Item), NEW n \in Nat, NEW w,
         Fine(r, out, n, w), r.phase \in Upgraded,
         s.phase = r.phase, s.state = r.state, s.junk = r.junk,
         NEW i \in Item, i.for = n + 1, r.state # "rpc" => i.kind \in {"pong", "close"}
  PROVE  Fine(s, Append(out, i), n + 1, w)
<1>1. s.phase # "http" /\ s.state \in {"rpc", "handoff"} /\ s.phase \in Upgraded
  BY DEF Fine, Upgraded
<1>2. ASSUME s.phase = "ws", s.state = "rpc", ~s.junk PROVE Answered(Append(out, i), n + 1)
  <2>1. Answered(out, n)
    BY <1>2 DEF Fine
  <2> QED
    BY <2>1, AnsweredNext
<1>3. ASSUME s.state = "handoff" PROVE HoseAnswers(Append(out, i), w)
  <2>1. HoseAnswers(out, w) /\ i.kind \in {"pong", "close"}
    BY <1>3 DEF Fine
  <2> QED
    BY <2>1, HoseAnswersNext
<1> QED
  BY <1>1, <1>2, <1>3 DEF Fine

(* A connection r and what it has sent: g to the client, the rest waits.    *)
Well(r, g, n, w) ==
  r \in ConnType /\ Sound(r) /\ r.phase \in Served /\ Fine(r, g \o r.send, n, w)

LEMMA FrameHandled ==
  ASSUME NEW r, NEW g \in Seq(Item), NEW n \in Nat, NEW w, Well(r, g, n, w),
         r.phase \in Upgraded, NEW m \in Incoming, m.actual <= m.len, m.id = n + 1
  PROVE  Well(OnFrame(r, m), g, n + 1, w) /\ OnFrame(r, m).phase = r.phase
<1> DEFINE s == OnFrame(r, m)
<1>1. r \in ConnType /\ Sound(r) /\ r.send \in Seq(Item) /\ Fine(r, g \o r.send, n, w)
  BY DEF Well, ConnType
<1>2. (\E i \in Item : GrownBy(r, s, m.id, i)) \/ Same(r, s)
  BY <1>1, OnFrameSound
<1> HIDE DEF s
<1>3. ASSUME NEW i \in Item, GrownBy(r, s, m.id, i)
      PROVE  Well(s, g, n + 1, w) /\ s.phase = r.phase
  <2>1. /\ i.for = n + 1 /\ Grown(r, s, i)
        /\ r.state # "rpc" => i.kind \in {"pong", "close"}
    BY <1>3 DEF GrownBy
  <2>2. /\ s \in ConnType /\ Sound(s) /\ s.send = Append(r.send, i)
        /\ s.phase = r.phase /\ s.state = r.state /\ s.junk = r.junk
    BY <2>1 DEF Grown
  <2> DEFINE out == g \o r.send
  <2>3. out \in Seq(Item) /\ g \o s.send = Append(out, i)
    BY <1>1, <2>2, AppendBehind, ConcatProperties
  <2>4. Fine(r, out, n, w)
    BY <1>1
  <2> HIDE DEF out
  <2>5. Fine(s, Append(out, i), n + 1, w)
    BY <1>1, <2>1, <2>2, <2>3, <2>4, FineAnswered
  <2> QED
    BY <2>2, <2>3, <2>5 DEF Well, Served, Upgraded
<1>4. ASSUME Same(r, s)
      PROVE  Well(s, g, n + 1, w) /\ s.phase = r.phase
  <2>1. /\ r.phase # "http" /\ r.state # "rpc" /\ s \in ConnType /\ Sound(s)
        /\ s.send = r.send /\ s.phase = r.phase /\ s.state = r.state /\ s.junk = r.junk
    BY <1>4 DEF Upgraded, Same
  <2>2. Fine(s, g \o s.send, n + 1, w)
    BY <1>1, <2>1, FineDropped
  <2> QED
    BY <2>1, <2>2 DEF Well, Served, Upgraded
<1>5. Well(s, g, n + 1, w) /\ s.phase = r.phase
  BY <1>2, <1>3, <1>4
<1> QED
  BY <1>5 DEF s

LEMMA JunkHandled ==
  ASSUME NEW r, NEW g \in Seq(Item), NEW n \in Nat, NEW w, Well(r, g, n, w),
         NEW m \in Message, m.type # "http"
  PROVE  Well(OnHttpData(r, m), g, n + 1, w) /\ OnHttpData(r, m).phase = r.phase
<1> DEFINE s == [r EXCEPT !.draining = TRUE, !.junk = TRUE]
<1>1. r \in ConnType /\ Sound(r) /\ Fine(r, g \o r.send, n, w) /\ r.phase \in Served
  BY DEF Well
<1>2. OnHttpData(r, m) = s
  BY DEF OnHttpData
<1>3. /\ s \in ConnType /\ s.send = r.send /\ s.size = r.size
      /\ s.phase = r.phase /\ s.state = r.state /\ s.junk = TRUE
  BY <1>1 DEF ConnType
<1> HIDE DEF s
<1>4. Sound(s)
  BY <1>1, <1>3 DEF Sound, SendLen
<1>5. Fine(s, g \o s.send, n + 1, w)
  BY <1>1, <1>3, FineDropped
<1> QED
  BY <1>1, <1>2, <1>3, <1>4, <1>5 DEF Well

LEMMA HttpHandled ==
  ASSUME NEW r, NEW g \in Seq(Item), NEW n \in Nat, NEW w \in Opening, Well(r, g, n, w),
         r.phase = "http", NEW m \in HttpRequest, m.id = n + 1,
         m.uri # "/" => m.uri = w.uri /\ m.key = w.key
  PROVE  /\ Well(OnHttpData(r, m), g, n + 1, w)
         /\ m.uri = "/" => OnHttpData(r, m).phase = "http"
<1> DEFINE s == OnHttp(r, m)
           out == g \o r.send
<1>1. /\ r \in ConnType /\ Sound(r) /\ r.send \in Seq(Item) /\ Fine(r, out, n, w)
      /\ w.key \in BOOLEAN /\ m.key \in BOOLEAN /\ r.junk \in BOOLEAN
  BY DEF Well, ConnType, Opening, HttpRequest
<1>2. OnHttpData(r, m) = s
  BY DEF OnHttpData, HttpRequest
<1>3. /\ r.state = "default" /\ \A k \in 1..Len(out) : out[k].kind = "404"
      /\ ~r.junk => Len(out) = n /\ \A k \in 1..Len(out) : out[k].for = k
  BY <1>1 DEF Fine
<1>4. out \in Seq(Item) /\ \A i \in Item : g \o Append(r.send, i) = Append(out, i)
  BY <1>1, AppendBehind, ConcatProperties
<1>5. /\ s \in ConnType /\ Sound(s) /\ s.junk = r.junk
      /\ \/ \E i \in Item : /\ i.kind = "404" /\ i.for = m.id /\ m.uri = "/"
                           /\ s.phase = r.phase /\ s.state = "default"
                           /\ s.send = Append(r.send, i)
         \/ \E i \in Item : /\ i.kind = "426" /\ ~m.key /\ s.phase = "plain"
                           /\ s.send = Append(r.send, i)
                           /\ \/ s.state = "rpc" /\ m.uri = "/ws/rpc"
                              \/ s.state = "handoff" /\ m.uri = "/ws/hose"
         \/ \E i \in Item : /\ i.kind = "101" /\ m.key /\ m.uri = "/ws/hose"
                           /\ s.phase = "ws" /\ s.state = "handoff"
                           /\ s.send = Append(r.send, i)
         \/ \E i, j \in Item : /\ i.kind = "101" /\ i.for = m.id
                              /\ j.kind = "hello" /\ j.for = m.id
                              /\ s.phase = "ws" /\ s.state = "rpc" /\ m.uri = "/ws/rpc"
                              /\ s.send = Append(Append(r.send, i), j)
  BY <1>1, <1>3, OnHttpSound
<1> HIDE DEF s, out
<1>6. CASE \E i \in Item : /\ i.kind = "404" /\ i.for = m.id /\ m.uri = "/"
                         /\ s.phase = r.phase /\ s.state = "default"
                         /\ s.send = Append(r.send, i)
  <2>1. PICK i \in Item : /\ i.kind = "404" /\ i.for = n + 1 /\ m.uri = "/"
                          /\ s.phase = "http" /\ s.state = "default"
                          /\ s.send = Append(r.send, i)
    BY <1>6
  <2> DEFINE more == Append(out, i)
  <2>2. /\ Len(out) \in Nat /\ Len(more) = Len(out) + 1 /\ more[Len(out) + 1] = i
        /\ \A k \in 1..Len(out) : more[k] = out[k]
    BY <1>4, AppendFacts
  <2>3. g \o s.send = more
    BY <1>4, <2>1
  <2> HIDE DEF more
  <2>4. ASSUME NEW k \in 1..Len(more) PROVE more[k].kind = "404"
    <3>1. CASE k = Len(out) + 1
      BY <2>1, <2>2, <3>1
    <3>2. CASE k \in 1..Len(out)
      BY <1>3, <2>2, <3>2
    <3> QED
      BY <2>2, <3>1, <3>2
  <2>5. ASSUME ~s.junk PROVE Len(more) = n + 1 /\ \A k \in 1..Len(more) : more[k].for = k
    <3>1. Len(out) = n /\ \A k \in 1..Len(out) : out[k].for = k
      BY <1>3, <1>5, <2>5
    <3>2. ASSUME NEW k \in 1..Len(more) PROVE more[k].for = k
      <4>1. CASE k = Len(out) + 1
        BY <2>1, <2>2, <3>1, <4>1
      <4>2. CASE k \in 1..Len(out)
        BY <2>2, <3>1, <4>2
      <4> QED
        BY <2>2, <4>1, <4>2
    <3> QED
      BY <2>2, <3>1, <3>2
  <2>6. Fine(s, more, n + 1, w)
    BY <2>1, <2>4, <2>5 DEF Fine, Upgraded
  <2> QED
    BY <1>2, <1>5, <2>1, <2>3, <2>6 DEF Well, Served
<1>7. CASE \E i \in Item : /\ i.kind = "426" /\ ~m.key /\ s.phase = "plain"
                         /\ s.send = Append(r.send, i)
                         /\ \/ s.state = "rpc" /\ m.uri = "/ws/rpc"
                            \/ s.state = "handoff" /\ m.uri = "/ws/hose"
  <2>1. PICK i \in Item : /\ i.kind = "426" /\ ~m.key /\ s.phase = "plain"
                          /\ s.send = Append(r.send, i)
                          /\ \/ s.state = "rpc" /\ m.uri = "/ws/rpc"
                             \/ s.state = "handoff" /\ m.uri = "/ws/hose"
    BY <1>7
  <2>2. g \o s.send = Append(out, i)
    BY <1>4, <2>1
  <2>3. CASE s.state = "rpc"
    <3>1. Fine(s, Append(out, i), n + 1, w)
      BY <2>1, <2>3 DEF Fine, Upgraded
    <3> QED
      BY <1>2, <1>5, <2>1, <2>2, <2>3, <3>1 DEF Well, Served
  <2>4. CASE s.state = "handoff" /\ m.uri = "/ws/hose"
    <3>1. w.uri = "/ws/hose" /\ ~w.key
      BY <2>1, <2>4
    <3>2. i.kind = IF w.key THEN "101" ELSE "426"
      BY <2>1, <3>1
    <3>3. HoseAnswers(Append(out, i), w)
      BY <1>3, <1>4, <3>1, <3>2, HoseAnswersFirst
    <3>4. Fine(s, Append(out, i), n + 1, w)
      BY <2>1, <2>4, <3>3 DEF Fine, Upgraded
    <3> QED
      BY <1>2, <1>5, <2>1, <2>2, <2>4, <3>4 DEF Well, Served
  <2> QED
    BY <2>1, <2>3, <2>4
<1>8. CASE \E i \in Item : /\ i.kind = "101" /\ m.key /\ m.uri = "/ws/hose"
                         /\ s.phase = "ws" /\ s.state = "handoff"
                         /\ s.send = Append(r.send, i)
  <2>1. PICK i \in Item : /\ i.kind = "101" /\ m.key /\ m.uri = "/ws/hose"
                          /\ s.phase = "ws" /\ s.state = "handoff"
                          /\ s.send = Append(r.send, i)
    BY <1>8
  <2>2. g \o s.send = Append(out, i)
    BY <1>4, <2>1
  <2>3. w.uri = "/ws/hose" /\ w.key
    BY <2>1
  <2>4. i.kind = IF w.key THEN "101" ELSE "426"
    BY <2>1, <2>3
  <2>5. HoseAnswers(Append(out, i), w)
    BY <1>3, <1>4, <2>3, <2>4, HoseAnswersFirst
  <2>6. Fine(s, Append(out, i), n + 1, w)
    BY <2>1, <2>5 DEF Fine, Upgraded
  <2> QED
    BY <1>2, <1>5, <2>1, <2>2, <2>6 DEF Well, Served
<1>9. CASE \E i, j \in Item : /\ i.kind = "101" /\ i.for = m.id
                            /\ j.kind = "hello" /\ j.for = m.id
                            /\ s.phase = "ws" /\ s.state = "rpc" /\ m.uri = "/ws/rpc"
                            /\ s.send = Append(Append(r.send, i), j)
  <2>1. PICK i \in Item, j \in Item :
               /\ i.kind = "101" /\ i.for = n + 1 /\ j.kind = "hello" /\ j.for = n + 1
               /\ s.phase = "ws" /\ s.state = "rpc" /\ m.uri = "/ws/rpc"
               /\ s.send = Append(Append(r.send, i), j)
    BY <1>9
  <2>2. g \o s.send = Append(Append(out, i), j)
    <3>1. Append(r.send, i) \in Seq(Item)
      BY <1>1, AppendFacts
    <3>2. g \o Append(Append(r.send, i), j) = Append(g \o Append(r.send, i), j)
      BY <3>1, AppendBehind
    <3> QED
      BY <1>4, <2>1, <3>2
  <2>3. ASSUME ~s.junk PROVE Answered(Append(Append(out, i), j), n + 1)
    <3>1. Len(out) = n /\ \A k \in 1..Len(out) : out[k].for = k
      BY <1>3, <1>5, <2>3
    <3> QED
      BY <1>4, <2>1, <3>1, AnsweredFirst
  <2>4. Fine(s, Append(Append(out, i), j), n + 1, w)
    BY <2>1, <2>3 DEF Fine, Upgraded
  <2> QED
    BY <1>2, <1>5, <2>1, <2>2, <2>4 DEF Well, Served
<1> QED
  BY <1>5, <1>6, <1>7, <1>8, <1>9

(* Each message handled adds its answer behind those of the messages before *)
(* it, and once the upgrade is done no HTTP request is to come.             *)
LEMMA AllHandled ==
  ASSUME NEW r, NEW msgs \in Seq(Message), NEW base \in Nat, NEW g \in Seq(Item),
         NEW w \in Opening, Well(r, g, base, w), Coming(msgs, base, r.phase, w)
  PROVE  \A n \in 0..Len(msgs) :
           LET s == HandledTo(r, msgs)[n]
           IN  /\ Well(s, g, base + n, w)
               /\ s.phase # "http" =>
                    r.phase # "http" \/ \A i \in (n + 1)..Len(msgs) : msgs[i].type # "http"
               /\ r.phase # "http" => s.phase # "http"
<1> DEFINE h == HandledTo(r, msgs)
           T == {n \in 0..Len(msgs) :
                   /\ Well(h[n], g, base + n, w)
                   /\ h[n].phase # "http" =>
                        r.phase # "http" \/ \A i \in (n + 1)..Len(msgs) : msgs[i].type # "http"
                   /\ r.phase # "http" => h[n].phase # "http"}
<1>0. Len(msgs) \in Nat
  OBVIOUS
<1>a. h[0] = r /\ \A n \in 1..Len(msgs) : h[n] = Handle(r.phase, h[n - 1], msgs[n])
  BY <1>0, HandledUnfold
<1> HIDE DEF h
<1>1. 0 \in T
  <2>1. base + 0 = base /\ 0 \in 0..Len(msgs)
    BY <1>0
  <2>2. Well(h[0], g, base + 0, w)
    BY <1>a, <2>1
  <2> QED
    BY <1>a, <2>1, <2>2
<1>2. ASSUME NEW k \in 1..Len(msgs), k - 1 \in T PROVE k \in T
  <2> DEFINE p == h[k - 1]
             m == msgs[k]
             n == base + (k - 1)
  <2>1. /\ Well(p, g, n, w)
        /\ p.phase # "http" =>
              r.phase # "http" \/ \A i \in ((k - 1) + 1)..Len(msgs) : msgs[i].type # "http"
        /\ r.phase # "http" => p.phase # "http"
    BY <1>2
  <2>2. /\ n \in Nat /\ n + 1 = base + k /\ k \in 0..Len(msgs) /\ (k - 1) + 1 = k
        /\ k \in k..Len(msgs) /\ \A i \in (k + 1)..Len(msgs) : i \in k..Len(msgs)
    BY <1>0
  <2>3. h[k] = Handle(r.phase, p, m)
    BY <1>a
  <2>4. /\ m \in Message /\ m.id = n + 1 /\ (m.type # "http" => m.actual <= m.len)
        /\ m.type = "http" => /\ r.phase = "http"
                              /\ (m.uri # "/" => m.uri = w.uri /\ m.key = w.key)
    <3>1. msgs[k] \in Message
      OBVIOUS
    <3>2. /\ msgs[k].id = base + k
          /\ msgs[k].type # "http" => msgs[k].actual <= msgs[k].len
          /\ msgs[k].type = "http" =>
               /\ r.phase = "http"
               /\ (msgs[k].uri # "/" => msgs[k].uri = w.uri /\ msgs[k].key = w.key)
      BY DEF Coming
    <3> QED
      BY <2>2, <3>1, <3>2
  <2>5. \A i \in 1..Len(msgs) : msgs[i].type = "http" =>
          \A j \in 1..(i - 1) : msgs[j].type = "http" /\ msgs[j].uri = "/"
    BY DEF Coming
  <2>6. \A i \in (k + 1)..Len(msgs) : i \in 1..Len(msgs) /\ k \in 1..(i - 1)
    BY <1>0
  <2>7. p.phase # "http" /\ r.phase = "http" => \A i \in k..Len(msgs) : msgs[i].type # "http"
    BY <2>1, <2>2
  <2> HIDE DEF p, m, n
  <2>8. CASE r.phase # "http"
    <3>1. /\ h[k] = OnFrame(p, m) /\ m.type # "http" /\ p.phase # "http"
      BY <2>1, <2>3, <2>4, <2>8 DEF Handle
    <3>2. m \in Incoming /\ m.actual <= m.len /\ p.phase \in Upgraded
      BY <2>1, <2>4, <3>1 DEF Message, HttpRequest, Well, Served, Upgraded
    <3>3. Well(h[k], g, n + 1, w) /\ h[k].phase = p.phase
      BY <2>1, <2>2, <2>4, <3>1, <3>2, FrameHandled
    <3> QED
      BY <2>2, <2>8, <3>1, <3>3
  <2>9. CASE r.phase = "http" /\ m.type # "http"
    <3>1. h[k] = OnHttpData(p, m)
      BY <2>3, <2>9 DEF Handle
    <3>2. Well(h[k], g, n + 1, w) /\ h[k].phase = p.phase
      BY <2>1, <2>2, <2>4, <2>9, <3>1, JunkHandled
    <3>3. h[k].phase # "http" => \A i \in (k + 1)..Len(msgs) : msgs[i].type # "http"
      BY <2>2, <2>7, <2>9, <3>2
    <3> QED
      BY <2>2, <2>9, <3>2, <3>3
  <2>10. CASE r.phase = "http" /\ m.type = "http"
    <3>1. h[k] = OnHttpData(p, m)
      BY <2>3, <2>10 DEF Handle
    <3>2. p.phase = "http" /\ m \in HttpRequest
      <4>1. m \in HttpRequest
        BY <2>4, <2>10 DEF Message, Incoming
      <4>2. p.phase = "http"
        BY <2>2, <2>7, <2>10 DEF m
      <4> QED
        BY <4>1, <4>2
    <3>3. Well(h[k], g, n + 1, w) /\ (m.uri = "/" => h[k].phase = "http")
      BY <2>1, <2>2, <2>4, <2>10, <3>1, <3>2, HttpHandled
    <3>4. h[k].phase # "http" => \A i \in (k + 1)..Len(msgs) : msgs[i].type # "http"
      BY <2>5, <2>6, <3>3 DEF m
    <3> QED
      BY <2>2, <2>10, <3>3, <3>4
  <2> QED
    BY <2>8, <2>9, <2>10
<1> HIDE DEF T
<1>3. \A n \in 0..Len(msgs) : n \in T
  BY <1>0, <1>1, <1>2, CountUp
<1> QED
  BY <1>3 DEF T, h

-----------------------------------------------------------------------------
(* The steps.                                                               *)

LEMMA InitIInv == Init => IInv
<1> SUFFICES ASSUME Init PROVE IInv
  OBVIOUS
<1>1. NewConn \in ConnType /\ NewConn.send = <<>> /\ NewConn.phase = "new" /\ NewConn.size = 0
  BY DEF NewConn, ConnType
<1>2. TypeOK
  BY <1>1 DEF Init, TypeOK, Idle, Opening
<1>3. Sound(NewConn)
  BY <1>1, EmptySend DEF Sound
<1>4. ASSUME NEW c \in Conns PROVE Life(c) /\ Owner(c)
  <2>1. Owner(c)
    BY <1>1, RpcServerAssumption DEF Owner, Init, NewConn
  <2>2. Life(c)
    BY <1>1 DEF Life, Init, NewConn, Served
  <2> QED
    BY <2>1, <2>2
<1>5. TurnOn
  BY DEF Init, TurnOn
<1> QED
  BY <1>2, <1>3, <1>4, <1>5 DEF IInv, Init

(* What happens on one connection leaves the others' invariants alone.      *)
LEMMA LifeKept ==
  ASSUME NEW c \in Conns, Life(c), conn'[c] = conn[c], inbox'[c] = inbox[c], got'[c] = got[c],
         asked'[c] = asked[c], wanted'[c] = wanted[c]
  PROVE  Life(c)'
BY DEF Life

LEMMA OwnerKept ==
  ASSUME NEW c \in Conns, Owner(c), closes'[c] = closes[c],
         conn'[c].phase = "gone" <=> conn[c].phase = "gone",
         newFd' = c <=> newFd = c, curFd' = c <=> curFd = c,
         (got'[c] = got[c] /\ wanted'[c] = wanted[c]) \/ (newFd # c /\ curFd # c)
  PROVE  Owner(c)'
BY DEF Owner

LEMMA AcceptIInv == ASSUME IInv, NEW c \in Conns, Accept(c) PROVE IInv'
<1> DEFINE s == [conn[c] EXCEPT !.phase = "http"]
<1>1. conn[c] \in ConnType /\ conn \in [Conns -> ConnType]
  BY DEF IInv, TypeOK
<1>2. /\ s \in ConnType /\ s.phase = "http" /\ s.state = conn[c].state
      /\ s.send = conn[c].send /\ s.size = conn[c].size
  BY <1>1 DEF ConnType
<1>3. /\ conn' = [conn EXCEPT ![c] = s] /\ conn[c].phase = "new"
      /\ UNCHANGED <<inbox, got, asked, wanted, turn, newFd, curFd, closes>>
  BY <1>1, <1>2 DEF Accept
<1> HIDE DEF s
<1>4. conn'[c] = s /\ \A d \in Conns : d # c => conn'[d] = conn[d]
  BY <1>1, <1>3
<1>5. TypeOK'
  BY <1>2, <1>3 DEF IInv, TypeOK
<1>6. TurnOn'
  BY <1>2, <1>3, <1>4 DEF IInv, TypeOK, TurnOn, Idle
<1>7. Life(c)'
  <2>1. conn[c] = NewConn /\ inbox[c] = <<>> /\ asked[c] = 0 /\ got[c] = <<>>
    BY <1>3 DEF IInv, Life
  <2>2. /\ conn'[c].phase = "http" /\ conn'[c].state = "default" /\ inbox'[c] = <<>>
        /\ asked'[c] = 0 /\ got'[c] \o conn'[c].send = <<>>
    BY <1>2, <1>3, <1>4, <2>1 DEF NewConn
  <2>3. Len(<<>>) = 0 /\ 1..0 = {} /\ 0 - 0 = 0
    OBVIOUS
  <2>4. Fine(conn'[c], got'[c] \o conn'[c].send, asked'[c] - Len(inbox'[c]), wanted'[c])
    BY <2>2, <2>3 DEF Fine, Upgraded
  <2>5. Coming(inbox'[c], asked'[c] - Len(inbox'[c]), conn'[c].phase, wanted'[c])
    BY <2>2, <2>3 DEF Coming
  <2> QED
    BY <2>2, <2>3, <2>4, <2>5 DEF Life, Served
<1>8. Sound(conn'[c])
  BY <1>2, <1>4 DEF IInv, Sound, SendLen
<1>9. ASSUME NEW d \in Conns PROVE Life(d)' /\ Owner(d)' /\ Sound(conn'[d])
  BY <1>2, <1>3, <1>4, <1>7, <1>8, LifeKept, OwnerKept DEF IInv
<1> QED
  BY <1>5, <1>6, <1>9 DEF IInv

(* The loop moves on.                                                       *)
LEMMA TurnIInv ==
  ASSUME IInv, NEW c \in Conns, turn' \in {Idle} \cup ({c} \X {"read", "write", "close"}),
         turn' # Idle => conn[c].phase \notin {"new", "gone"},
         UNCHANGED <<conn, inbox, got, asked, wanted, newFd, curFd, closes>>
  PROVE  IInv'
<1>1. TypeOK'
  BY DEF IInv, TypeOK
<1>2. TurnOn'
  BY DEF IInv, TurnOn
<1>3. ASSUME NEW d \in Conns PROVE Life(d)' /\ Owner(d)' /\ Sound(conn'[d])
  BY LifeKept, OwnerKept DEF IInv
<1> QED
  BY <1>1, <1>2, <1>3 DEF IInv

(* While the loop is at a connection, the connection exists.                *)
LEMMA AtTurn ==
  ASSUME IInv, NEW c \in Conns, NEW what, turn = <<c, what>>
  PROVE  conn[c].phase \notin {"new", "gone"} /\ turn # Idle
<1>1. <<c, what>> # Idle
  BY RpcServerAssumption DEF Idle
<1> QED
  BY <1>1 DEF IInv, TurnOn

LEMMA VisitIInv == ASSUME IInv, NEW c \in Conns, Visit(c) PROVE IInv'
BY TurnIInv DEF Visit

LEMMA NothingToWriteIInv == ASSUME IInv, NEW c \in Conns, NothingToWrite(c) PROVE IInv'
BY TurnIInv, AtTurn DEF NothingToWrite

(* Nothing but closing is set.                                              *)
LEMMA ClosingIInv ==
  ASSUME IInv, NEW c \in Conns, NEW from, turn = <<c, from>>, NEW to \in {"write", "close"},
         turn' = <<c, to>>, conn' = [conn EXCEPT ![c].closing = TRUE],
         UNCHANGED <<inbox, got, asked, wanted, newFd, curFd, closes>>
  PROVE  IInv'
<1> DEFINE s == [conn[c] EXCEPT !.closing = TRUE]
<1>1. conn[c] \in ConnType /\ conn \in [Conns -> ConnType]
  BY DEF IInv, TypeOK
<1>2. /\ s \in ConnType /\ s.phase = conn[c].phase /\ s.state = conn[c].state
      /\ s.send = conn[c].send /\ s.size = conn[c].size /\ s.junk = conn[c].junk
  BY <1>1 DEF ConnType
<1>3. conn' = [conn EXCEPT ![c] = s]
  BY <1>1, <1>2
<1>4. conn[c].phase \notin {"new", "gone"}
  BY AtTurn
<1> HIDE DEF s
<1>5. conn'[c] = s /\ \A d \in Conns : d # c => conn'[d] = conn[d]
  BY <1>1, <1>3
<1>6. TypeOK' /\ TurnOn'
  BY <1>2, <1>3, <1>4, <1>5 DEF IInv, TypeOK, TurnOn
<1>7. Life(c)'
  <2>1. /\ conn'[c].phase = conn[c].phase /\ conn'[c].state = conn[c].state
        /\ conn'[c].junk = conn[c].junk
        /\ conn'[c].send = conn[c].send /\ inbox'[c] = inbox[c] /\ got'[c] = got[c]
        /\ asked'[c] = asked[c] /\ wanted'[c] = wanted[c] /\ conn[c].phase # "new" /\ Life(c)
    BY <1>2, <1>4, <1>5 DEF IInv
  <2> QED
    BY <2>1 DEF Life, Fine
<1>8. Sound(conn'[c])
  BY <1>2, <1>5 DEF IInv, Sound, SendLen
<1>9. ASSUME NEW d \in Conns PROVE Life(d)' /\ Owner(d)' /\ Sound(conn'[d])
  BY <1>2, <1>3, <1>5, <1>7, <1>8, LifeKept, OwnerKept DEF IInv
<1> QED
  BY <1>6, <1>9 DEF IInv

LEMMA ReadFailsIInv == ASSUME IInv, NEW c \in Conns, ReadFails(c) PROVE IInv'
BY ClosingIInv DEF ReadFails

LEMMA WriteFailsIInv == ASSUME IInv, NEW c \in Conns, WriteFails(c) PROVE IInv'
BY ClosingIInv DEF WriteFails

(* A step of one connection that no socket changes hands in.                *)
LEMMA OneMoves ==
  ASSUME IInv, NEW c \in Conns, TypeOK', TurnOn', Life(c)', Sound(conn'[c]),
         conn[c].phase # "gone", conn'[c].phase # "gone",
         \A d \in Conns : d # c => /\ conn'[d] = conn[d] /\ inbox'[d] = inbox[d]
                                   /\ got'[d] = got[d] /\ asked'[d] = asked[d]
                                   /\ wanted'[d] = wanted[d],
         UNCHANGED <<newFd, curFd, closes>>
  PROVE  IInv'
<1>1. newFd # c /\ curFd # c
  BY DEF IInv, Owner
<1>2. ASSUME NEW d \in Conns PROVE Life(d)' /\ Owner(d)' /\ Sound(conn'[d])
  <2>1. CASE d = c
    BY <2>1, <1>1, OwnerKept DEF IInv
  <2>2. CASE d # c
    BY <2>2, LifeKept, OwnerKept DEF IInv
  <2> QED
    BY <2>1, <2>2
<1> QED
  BY <1>2 DEF IInv

(* The messages read are answered in their order; those that remain are the *)
(* last ones sent.                                                          *)
LEMMA ReadMessages ==
  ASSUME IInv, NEW c \in Conns, conn[c].phase \notin {"new", "gone"}, NEW n \in 0..Len(inbox[c]),
         conn'[c] = HandledTo(conn[c], inbox[c])[n],
         inbox'[c] = SubSeq(inbox[c], n + 1, Len(inbox[c])),
         got'[c] = got[c], asked'[c] = asked[c], wanted'[c] = wanted[c]
  PROVE  /\ conn'[c] \in ConnType /\ Sound(conn'[c]) /\ Life(c)' /\ conn'[c].phase \in Served
         /\ inbox'[c] \in Seq(Message)
<1> DEFINE msgs == inbox[c]
           base == asked[c] - Len(msgs)
           rest == SubSeq(msgs, n + 1, Len(msgs))
           w == wanted[c]
           r == conn[c]
           s == conn'[c]
<1>1. /\ r \in ConnType /\ Sound(r) /\ got[c] \in Seq(Item) /\ asked[c] \in Nat
      /\ msgs \in Seq(Message) /\ Len(msgs) \in Nat /\ w \in Opening
  BY DEF IInv, TypeOK
<1>2. r.phase \in Served
  BY <1>1 DEF ConnType, Served
<1>3. /\ Len(msgs) <= asked[c] /\ Coming(msgs, base, r.phase, w)
      /\ Fine(r, got[c] \o r.send, base, w)
  BY <1>2 DEF IInv, Life
<1>4. base \in Nat /\ Well(r, got[c], base, w)
  BY <1>1, <1>2, <1>3 DEF Well
<1>5. s = HandledTo(r, msgs)[n]
  OBVIOUS
<1>6. /\ rest \in Seq(Message) /\ Len(rest) = Len(msgs) - n /\ n \in Nat /\ n <= Len(msgs)
      /\ \A i \in 1..Len(rest) : rest[i] = msgs[n + i]
  BY <1>1
<1>7. inbox'[c] = rest
  OBVIOUS
<1>b. n \in 0..Len(msgs) /\ base = asked[c] - Len(msgs)
  OBVIOUS
<1> HIDE DEF msgs, base, rest, w, r, s
<1>8. /\ Well(s, got[c], base + n, w)
      /\ s.phase # "http" =>
           r.phase # "http" \/ \A i \in (n + 1)..Len(msgs) : msgs[i].type # "http"
      /\ r.phase # "http" => s.phase # "http"
  BY <1>1, <1>3, <1>4, <1>5, <1>b, AllHandled
<1>9. base + n = asked[c] - Len(rest) /\ Len(rest) <= asked[c] /\ Len(rest) \in Nat
  BY <1>1, <1>3, <1>6, <1>b
<1>10. Coming(rest, base + n, s.phase, w)
  <2> SUFFICES ASSUME NEW i \in 1..Len(rest)
               PROVE  /\ rest[i].id = (base + n) + i
                      /\ rest[i].type # "http" => rest[i].actual <= rest[i].len
                      /\ rest[i].type = "http" =>
                           /\ s.phase = "http"
                           /\ (rest[i].uri # "/" => rest[i].uri = w.uri /\ rest[i].key = w.key)
                           /\ \A j \in 1..(i - 1) : rest[j].type = "http" /\ rest[j].uri = "/"
    BY DEF Coming
  <2>1. /\ rest[i] = msgs[n + i] /\ n + i \in 1..Len(msgs) /\ n + i \in (n + 1)..Len(msgs)
        /\ base + (n + i) = (base + n) + i
    <3>1. base \in Nat /\ n \in Nat /\ Len(msgs) \in Nat /\ Len(rest) = Len(msgs) - n
      BY <1>1, <1>4, <1>6
    <3>2. n + i \in 1..Len(msgs) /\ n + i \in (n + 1)..Len(msgs) /\ base + (n + i) = (base + n) + i
      BY ONLY <3>1, i \in 1..Len(rest)
    <3> QED
      BY <1>6, <3>2
  <2>2. /\ msgs[n + i].id = base + (n + i)
        /\ msgs[n + i].type # "http" => msgs[n + i].actual <= msgs[n + i].len
        /\ msgs[n + i].type = "http" =>
             /\ r.phase = "http"
             /\ (msgs[n + i].uri # "/" => msgs[n + i].uri = w.uri /\ msgs[n + i].key = w.key)
             /\ \A j \in 1..((n + i) - 1) : msgs[j].type = "http" /\ msgs[j].uri = "/"
    BY <1>3, <2>1 DEF Coming
  <2>3. ASSUME rest[i].type = "http" PROVE s.phase = "http"
    <3>1. msgs[n + i].type = "http" /\ r.phase = "http"
      BY <2>1, <2>2, <2>3
    <3> QED
      BY <1>8, <2>1, <3>1
  <2>4. ASSUME NEW j \in 1..(i - 1), rest[i].type = "http"
        PROVE  rest[j].type = "http" /\ rest[j].uri = "/"
    <3>1. j \in 1..Len(rest) /\ rest[j] = msgs[n + j] /\ n + j \in 1..((n + i) - 1)
      BY <1>6, <1>9
    <3> QED
      BY <2>1, <2>2, <2>4, <3>1
  <2> QED
    BY <2>1, <2>2, <2>3, <2>4
<1>11. /\ s \in ConnType /\ Sound(s) /\ s.phase \in Served
       /\ Fine(s, got[c] \o s.send, asked[c] - Len(rest), w)
  BY <1>8, <1>9 DEF Well
<1>12. Coming(rest, asked[c] - Len(rest), s.phase, w)
  BY <1>9, <1>10
<1>13. Life(c)'
  <2>1. s.phase \notin {"new", "gone"}
    BY <1>11 DEF Served
  <2>2. /\ conn'[c] = s /\ inbox'[c] = rest /\ got'[c] = got[c] /\ asked'[c] = asked[c]
        /\ wanted'[c] = w
    BY <1>7 DEF s, w
  <2> QED
    BY <1>9, <1>11, <1>12, <2>1, <2>2 DEF Life
<1> QED
  BY <1>6, <1>7, <1>11, <1>13 DEF s

LEMMA ReadConnIInv == ASSUME IInv, NEW c \in Conns, ReadConn(c) PROVE IInv'
<1>1. PICK n \in 0..Len(inbox[c]) :
        /\ conn' = [conn EXCEPT ![c] = HandledTo(conn[c], inbox[c])[n]]
        /\ inbox' = [inbox EXCEPT ![c] = SubSeq(inbox[c], n + 1, Len(inbox[c]))]
  BY DEF ReadConn
<1>2. /\ turn = <<c, "read">> /\ turn' = <<c, "write">>
      /\ UNCHANGED <<got, asked, wanted, newFd, curFd, closes>>
  BY DEF ReadConn
<1>3. conn[c].phase \notin {"new", "gone"}
  BY <1>2, AtTurn
<1>4. conn \in [Conns -> ConnType] /\ inbox \in [Conns -> Seq(Message)]
  BY DEF IInv, TypeOK
<1>5. /\ conn'[c] = HandledTo(conn[c], inbox[c])[n]
      /\ inbox'[c] = SubSeq(inbox[c], n + 1, Len(inbox[c]))
      /\ \A d \in Conns : d # c => conn'[d] = conn[d] /\ inbox'[d] = inbox[d]
  BY <1>1, <1>4
<1>6. /\ conn'[c] \in ConnType /\ Sound(conn'[c]) /\ Life(c)' /\ conn'[c].phase \in Served
      /\ inbox'[c] \in Seq(Message)
  BY <1>2, <1>3, <1>5, ReadMessages
<1>7. TypeOK'
  <2>1. conn' \in [Conns -> ConnType]
    BY <1>1, <1>4, <1>5, <1>6
  <2>2. inbox' \in [Conns -> Seq(Message)]
    BY <1>1, <1>4, <1>5, <1>6
  <2> QED
    BY <1>2, <2>1, <2>2 DEF IInv, TypeOK
<1>8. TurnOn' /\ conn'[c].phase # "gone"
  BY <1>2, <1>6 DEF TurnOn, Served
<1> QED
  BY <1>2, <1>3, <1>5, <1>6, <1>7, <1>8, OneMoves

(* An item that is left was an item before.                                 *)
LEMMA ItemsLeft ==
  ASSUME NEW send \in Seq(Item), NEW n \in 0..Len(send),
         NEW i \in DOMAIN SubSeq(send, n + 1, Len(send))
  PROVE  SubSeq(send, n + 1, Len(send))[i] = send[n + i] /\ n + i \in DOMAIN send
<1> DEFINE b == SubSeq(send, n + 1, Len(send))
<1>1. Len(send) \in Nat /\ n \in Nat /\ n <= Len(send)
  OBVIOUS
<1>2. \A k \in n + 1..Len(send) : send[k] \in Item
  BY <1>1
<1>3. b \in Seq(Item) /\ Len(b) = Len(send) - n
  BY <1>1, <1>2, SubSeqProperties
<1>4. \A k \in 1..Len(b) : b[k] = send[n + k]
  BY <1>1, <1>3
<1> HIDE DEF b
<1>5. DOMAIN b = 1..Len(b) /\ DOMAIN send = 1..Len(send)
  BY <1>3, LenProperties
<1>6. i \in 1..Len(b)
  BY <1>5 DEF b
<1>7. b[i] = send[n + i] /\ n + i \in DOMAIN send
  BY <1>1, <1>3, <1>4, <1>5, <1>6
<1> QED
  BY <1>7 DEF b

(* What is written moves from the front of the buffer to the client.        *)
LEMMA Written ==
  ASSUME NEW g \in Seq(Item), NEW send \in Seq(Item), NEW n \in 0..Len(send)
  PROVE  /\ g \o SubSeq(send, 1, n) \in Seq(Item) /\ SubSeq(send, n + 1, Len(send)) \in Seq(Item)
         /\ (g \o SubSeq(send, 1, n)) \o SubSeq(send, n + 1, Len(send)) = g \o send
         /\ Len(g \o SubSeq(send, 1, n)) = Len(g) + n
         /\ Len(SubSeq(send, n + 1, Len(send))) = Len(send) - n
<1> DEFINE a == SubSeq(send, 1, n)
           b == SubSeq(send, n + 1, Len(send))
<1>1. /\ a \in Seq(Item) /\ b \in Seq(Item) /\ Len(a) = n /\ Len(b) = Len(send) - n
      /\ Len(send) \in Nat /\ n \in Nat /\ n <= Len(send)
  <2>1. Len(send) \in Nat /\ n \in Nat /\ n <= Len(send)
    OBVIOUS
  <2>2. \A i \in 1..n : send[i] \in Item
    BY <2>1
  <2>3. \A i \in n + 1..Len(send) : send[i] \in Item
    BY <2>1
  <2>4. a \in Seq(Item) /\ Len(a) = n
    BY <2>1, <2>2, SubSeqProperties
  <2>5. b \in Seq(Item) /\ Len(b) = Len(send) - n
    BY <2>1, <2>3, SubSeqProperties
  <2> QED
    BY <2>1, <2>4, <2>5
<1>5. \A i \in 1..n : a[i] = send[i]
  BY <1>1
<1>6. \A i \in 1..Len(b) : b[i] = send[n + i]
  BY <1>1
<1> HIDE DEF a, b
<1>2. a \o b = send
  <2>1. a \o b \in Seq(Item) /\ Len(a \o b) = Len(send)
    <3>1. a \in Seq(Item) /\ b \in Seq(Item)
      BY <1>1
    <3>2. a \o b \in Seq(Item) /\ Len(a \o b) = Len(a) + Len(b)
      BY <3>1, ConcatProperties
    <3> QED
      BY <1>1, <3>2
  <2>2. ASSUME NEW i \in 1..Len(a \o b) PROVE (a \o b)[i] = send[i]
    <3>1. CASE i <= n
      <4>1. (a \o b)[i] = a[i] /\ i \in 1..n
        BY <1>1, <2>1, <3>1
      <4> QED
        BY <1>5, <4>1
    <3>2. CASE i > n
      <4>1. (a \o b)[i] = b[i - n] /\ i - n \in 1..Len(b)
        BY <1>1, <2>1, <3>2
      <4> QED
        BY <1>1, <1>6, <4>1
    <3> QED
      BY <3>1, <3>2, <2>1, <1>1
  <2> QED
    BY <2>1, <2>2, SeqEqual
<1>3. (g \o a) \o b = g \o (a \o b)
  <2>1. a \in Seq(Item) /\ b \in Seq(Item)
    BY <1>1
  <2> QED
    BY <2>1, ConcatAssociative, SMTT(30)
<1>4. g \o a \in Seq(Item) /\ Len(g \o a) = Len(g) + n
  BY <1>1, ConcatProperties
<1> QED
  BY <1>1, <1>2, <1>3, <1>4 DEF a, b

LEMMA GoneType ==
  /\ Gone \in ConnType /\ Gone.phase = "gone" /\ Gone.state = "default" /\ Gone.send = <<>>
  /\ Gone.size = 0
<1>1. NewConn \in ConnType
  BY DEF NewConn, ConnType
<1>2. Gone \in ConnType
  BY <1>1 DEF Gone, ConnType
<1> QED
  BY <1>2 DEF Gone, NewConn

LEMMA WriteIInv ==
  ASSUME IInv, NEW c \in Conns, NEW n \in 0..Len(conn[c].send), Write(c, n)
  PROVE  IInv'
<1> DEFINE send == conn[c].send
           rest == SubSeq(send, n + 1, Len(send))
           out == got[c] \o SubSeq(send, 1, n)
           kept == [conn[c] EXCEPT !.send = rest]
<1>1. /\ turn = <<c, "write">> /\ send # <<>> /\ got' = [got EXCEPT ![c] = out]
      /\ UNCHANGED <<inbox, asked, wanted, curFd>>
      /\ IF HandsOver(kept)
           THEN PushFd(c) /\ turn' = Idle /\ conn' = [conn EXCEPT ![c] = Gone]
           ELSE /\ turn' = <<c, "close">> /\ conn' = [conn EXCEPT ![c] = kept]
                /\ UNCHANGED <<newFd, closes>>
  BY DEF Write
<1>2. conn[c].phase \notin {"new", "gone"}
  BY <1>1, AtTurn
<1>3. /\ conn \in [Conns -> ConnType] /\ got \in [Conns -> Seq(Item)]
      /\ closes \in [Conns -> Nat] /\ newFd \in Conns \cup {None}
  BY DEF IInv, TypeOK
<1>4. conn[c] \in ConnType /\ got[c] \in Seq(Item) /\ send \in Seq(Item)
  BY <1>3 DEF ConnType
<1>5. Sound(conn[c]) /\ Life(c) /\ Owner(c)
  BY DEF IInv
<1>6. /\ out \in Seq(Item) /\ rest \in Seq(Item) /\ out \o rest = got[c] \o send
      /\ Len(out) = Len(got[c]) + n /\ Len(rest) = Len(send) - n
      /\ Len(send) \in Nat /\ Len(got[c]) \in Nat /\ n \in Nat
  <2> DEFINE g == got[c]
  <2>1. g \in Seq(Item) /\ n \in 0..Len(send)
    BY <1>4
  <2>2. Len(send) \in Nat /\ Len(g) \in Nat /\ n \in Nat
    BY <1>4
  <2> HIDE DEF g, send
  <2>3. /\ g \o SubSeq(send, 1, n) \in Seq(Item) /\ SubSeq(send, n + 1, Len(send)) \in Seq(Item)
        /\ (g \o SubSeq(send, 1, n)) \o SubSeq(send, n + 1, Len(send)) = g \o send
        /\ Len(g \o SubSeq(send, 1, n)) = Len(g) + n
        /\ Len(SubSeq(send, n + 1, Len(send))) = Len(send) - n
    BY <1>4, <2>1, Written
  <2> QED
    BY <2>2, <2>3 DEF g
<1>7. /\ kept \in ConnType /\ kept.phase = conn[c].phase /\ kept.state = conn[c].state
      /\ kept.send = rest /\ kept.size = conn[c].size /\ kept.junk = conn[c].junk
  BY <1>4, <1>6 DEF ConnType
<1>8. Sound(kept)
  <2>1. SendLen(kept) <= SendLen(conn[c])
    BY <1>4, <1>7, BytesDrop DEF SendLen
  <2>2. SendLen(kept) \in Nat /\ SendLen(conn[c]) \in Nat /\ conn[c].size \in Nat
    BY <1>4, <1>7, SendLenType DEF ConnType
  <2>3. ASSUME NEW i \in DOMAIN rest PROVE FrameSound(rest[i])
    <3>1. rest[i] = send[n + i] /\ n + i \in DOMAIN send
      BY <1>4, ItemsLeft
    <3> QED
      BY <1>5, <3>1 DEF Sound
  <2> QED
    BY <1>5, <1>7, <2>1, <2>2, <2>3 DEF Sound
<1> HIDE DEF send, rest, out, kept
<1>9. got'[c] = out /\ \A d \in Conns : d # c => got'[d] = got[d]
  BY <1>1, <1>3
<1>10. CASE HandsOver(kept)
  <2>1. PushFd(c) /\ turn' = Idle /\ conn' = [conn EXCEPT ![c] = Gone]
    BY <1>1, <1>10
  <2>2. conn'[c] = Gone /\ \A d \in Conns : d # c => conn'[d] = conn[d]
    BY <1>3, <2>1
  <2>3. Gone \in ConnType /\ Gone.phase = "gone" /\ Gone.state = "default" /\ Gone.send = <<>>
        /\ Gone.size = 0
    BY GoneType
  <2>4. HoseAnswers(out, wanted[c])
    <3>1. conn[c].state = "handoff" /\ rest = <<>>
      BY <1>7, <1>10 DEF HandsOver
    <3>2. conn[c].phase \in Served
      BY <1>2, <1>4 DEF ConnType, Served
    <3>3. HoseAnswers(got[c] \o send, wanted[c])
      BY <1>5, <3>1, <3>2 DEF Life, Fine, send
    <3>4. out \o <<>> = out
      BY <1>6
    <3> QED
      BY <1>6, <3>1, <3>3, <3>4
  <2>5. /\ newFd' = c /\ curFd' = curFd /\ newFd # c /\ curFd # c
        /\ closes' = IF newFd = None THEN closes ELSE [closes EXCEPT ![newFd] = @ + 1]
    BY <1>1, <1>2, <1>5, <2>1 DEF PushFd, Owner
  <2>6. closes' \in [Conns -> Nat] /\ c # None
    BY <1>3, <2>5, RpcServerAssumption
  <2>7. TypeOK'
    BY <1>1, <1>3, <1>6, <2>1, <2>3, <2>5, <2>6 DEF IInv, TypeOK
  <2>8. TurnOn'
    BY <2>1 DEF TurnOn
  <2>9. Life(c)' /\ Sound(conn'[c])
    BY <2>2, <2>3, EmptySend DEF Life, Served, Sound
  <2>10. Owner(c)'
    <3>1. closes'[c] = closes[c] /\ closes[c] = 0
      BY <1>2, <1>3, <1>5, <2>5 DEF Owner
    <3> QED
      BY <1>1, <1>9, <2>2, <2>3, <2>4, <2>5, <3>1 DEF Owner
  <2>11. ASSUME NEW d \in Conns, d # c PROVE Life(d)' /\ Owner(d)' /\ Sound(conn'[d])
    <3>1. Life(d)' /\ Sound(conn'[d])
      BY <1>1, <1>9, <2>2, <2>11, LifeKept DEF IInv
    <3>2. Owner(d) /\ got'[d] = got[d] /\ conn'[d] = conn[d] /\ wanted'[d] = wanted[d]
      BY <1>1, <1>9, <2>2, <2>11 DEF IInv
    <3>3. closes'[d] = IF newFd = d THEN closes[d] + 1 ELSE closes[d]
      BY <1>3, <2>5, RpcServerAssumption
    <3>4. /\ closes'[d] = IF conn'[d].phase = "gone" /\ newFd' # d /\ curFd' # d THEN 1 ELSE 0
          /\ conn'[d].phase # "gone" => newFd' # d /\ curFd' # d
          /\ newFd' = d => curFd' # d
          /\ d \in {newFd', curFd'} => HoseAnswers(got'[d], wanted'[d])
      BY <2>5, <2>11, <3>2, <3>3 DEF Owner
    <3> QED
      BY <3>1, <3>4 DEF Owner
  <2> QED
    BY <2>7, <2>8, <2>9, <2>10, <2>11 DEF IInv
<1>11. CASE ~HandsOver(kept)
  <2>1. /\ turn' = <<c, "close">> /\ conn' = [conn EXCEPT ![c] = kept]
        /\ UNCHANGED <<newFd, closes>>
    BY <1>1, <1>11
  <2>2. conn'[c] = kept /\ \A d \in Conns : d # c => conn'[d] = conn[d]
    BY <1>3, <2>1
  <2>3. TypeOK'
    BY <1>1, <1>3, <1>6, <1>7, <2>1 DEF IInv, TypeOK
  <2>4. TurnOn'
    BY <1>2, <1>7, <2>1, <2>2 DEF TurnOn
  <2>5. Life(c)'
    <3>1. /\ conn'[c].phase = conn[c].phase /\ conn'[c].state = conn[c].state
          /\ conn'[c].junk = conn[c].junk
          /\ inbox'[c] = inbox[c] /\ asked'[c] = asked[c] /\ wanted'[c] = wanted[c]
          /\ got'[c] \o conn'[c].send = got[c] \o conn[c].send
          /\ conn[c].phase \notin {"new", "gone"}
      <4>1. send = conn[c].send
        BY DEF send
      <4>2. got'[c] = out /\ conn'[c].send = rest /\ out \o rest = got[c] \o send
        BY <1>6, <1>7, <1>9, <2>2
      <4>3. /\ conn'[c].phase = conn[c].phase /\ conn'[c].state = conn[c].state
            /\ conn'[c].junk = conn[c].junk
            /\ inbox'[c] = inbox[c] /\ asked'[c] = asked[c] /\ wanted'[c] = wanted[c]
        BY <1>1, <1>7, <2>2
      <4> QED
        BY <1>2, <4>1, <4>2, <4>3
    <3>2. conn'[c].phase \notin {"new", "gone"}
      BY <3>1
    <3> QED
      BY <1>5, <3>1, <3>2 DEF Life, Fine
  <2> QED
    BY <1>1, <1>2, <1>7, <1>8, <1>9, <2>1, <2>2, <2>3, <2>4, <2>5, OneMoves
<1> QED
  BY <1>10, <1>11

LEMMA CloseConnIInv == ASSUME IInv, NEW c \in Conns, CloseConn(c) PROVE IInv'
<1>1. turn = <<c, "close">> /\ turn' = Idle /\ UNCHANGED <<inbox, got, asked, wanted, newFd, curFd>>
  BY DEF CloseConn
<1>2. conn[c].phase \notin {"new", "gone"}
  BY <1>1, AtTurn
<1>3. conn \in [Conns -> ConnType] /\ closes \in [Conns -> Nat]
  BY DEF IInv, TypeOK
<1>4. CASE UNCHANGED <<conn, closes>>
  BY <1>1, <1>4, TurnIInv
<1>5. CASE conn' = [conn EXCEPT ![c] = Gone] /\ closes' = [closes EXCEPT ![c] = @ + 1]
  <2>1. /\ conn'[c] = Gone /\ closes'[c] = closes[c] + 1
        /\ \A d \in Conns : d # c => conn'[d] = conn[d] /\ closes'[d] = closes[d]
    BY <1>3, <1>5
  <2>2. TypeOK'
    <3>1. conn' \in [Conns -> ConnType] /\ closes' \in [Conns -> Nat]
      BY <1>3, <1>5, GoneType
    <3> QED
      BY <1>1, <3>1 DEF IInv, TypeOK
  <2>3. TurnOn'
    BY <1>1 DEF TurnOn
  <2>4. Life(c)' /\ Sound(conn'[c])
    BY <2>1, GoneType, EmptySend DEF Life, Served, Sound
  <2>5. Owner(c)'
    <3>1. Owner(c)
      BY DEF IInv
    <3>2. newFd # c /\ curFd # c /\ closes[c] = 0
      BY <1>2, <3>1 DEF Owner
    <3> QED
      BY <1>1, <2>1, <3>2, GoneType DEF Owner
  <2>6. ASSUME NEW d \in Conns, d # c PROVE Life(d)' /\ Owner(d)' /\ Sound(conn'[d])
    BY <1>1, <2>1, <2>6, LifeKept, OwnerKept DEF IInv
  <2> QED
    BY <2>2, <2>3, <2>4, <2>5, <2>6 DEF IInv
<1> QED
  BY <1>4, <1>5 DEF CloseConn

(* A message sent: it waits behind the others.                              *)
LEMMA SentIInv ==
  ASSUME IInv, NEW c \in Conns, conn[c].phase \in Served, NEW m \in Message,
         m.id = asked[c] + 1, m.type # "http" => m.actual <= m.len, NEW w \in Opening,
         inbox' = [inbox EXCEPT ![c] = Append(@, m)],
         asked' = [asked EXCEPT ![c] = @ + 1], wanted' = [wanted EXCEPT ![c] = w],
         m.type # "http" => w = wanted[c],
         m.type = "http" =>
           /\ conn[c].phase = "http" /\ w.uri = m.uri /\ w.key = m.key
           /\ \A i \in DOMAIN inbox[c] : inbox[c][i].type = "http" /\ inbox[c][i].uri = "/",
         UNCHANGED <<conn, got, turn, newFd, curFd, closes>>
  PROVE  IInv'
<1> DEFINE msgs == inbox[c]
           more == Append(msgs, m)
           base == asked[c] - Len(msgs)
<1>1. /\ inbox \in [Conns -> Seq(Message)] /\ asked \in [Conns -> Nat]
      /\ wanted \in [Conns -> Opening] /\ msgs \in Seq(Message) /\ asked[c] \in Nat
      /\ Len(msgs) \in Nat
  BY DEF IInv, TypeOK
<1>2. inbox' = [inbox EXCEPT ![c] = more] /\ base = asked[c] - Len(msgs)
  BY <1>1
<1>3. /\ Len(msgs) <= asked[c] /\ Coming(msgs, base, conn[c].phase, wanted[c])
      /\ Fine(conn[c], got[c] \o conn[c].send, base, wanted[c])
  BY DEF IInv, Life
<1>a. m.type = "http" => \A i \in 1..Len(msgs) : msgs[i].type = "http" /\ msgs[i].uri = "/"
  BY <1>1
<1> HIDE DEF msgs
<1>4. /\ more \in Seq(Message) /\ Len(more) = Len(msgs) + 1
      /\ more[Len(msgs) + 1] = m /\ \A i \in 1..Len(msgs) : more[i] = msgs[i]
  BY <1>1, AppendProperties
<1> HIDE DEF more
<1>5. /\ inbox'[c] = more /\ asked'[c] = asked[c] + 1 /\ wanted'[c] = w
      /\ \A d \in Conns : d # c => /\ inbox'[d] = inbox[d] /\ asked'[d] = asked[d]
                                 /\ wanted'[d] = wanted[d]
  BY <1>1, <1>2
<1>6. (asked[c] + 1) - Len(more) = base /\ Len(more) <= asked[c] + 1 /\ base + Len(msgs) = asked[c]
      /\ base \in Nat
  <2>1. /\ asked[c] \in Nat /\ Len(msgs) \in Nat /\ Len(msgs) <= asked[c]
        /\ base = asked[c] - Len(msgs) /\ Len(more) = Len(msgs) + 1
    BY <1>1, <1>2, <1>3, <1>4
  <2> HIDE DEF base
  <2> QED
    BY ONLY <2>1
<1>7. TypeOK'
  <2>1. inbox' \in [Conns -> Seq(Message)]
    BY <1>1, <1>2, <1>4
  <2>2. asked' \in [Conns -> Nat] /\ wanted' \in [Conns -> Opening]
    BY <1>1
  <2> QED
    BY <2>1, <2>2 DEF IInv, TypeOK
<1>8. TurnOn'
  BY DEF IInv, TurnOn
<1> HIDE DEF base
<1>9. Coming(more, base, conn[c].phase, w)
  <2> SUFFICES ASSUME NEW i \in 1..Len(more)
               PROVE  /\ more[i].id = base + i
                      /\ more[i].type # "http" => more[i].actual <= more[i].len
                      /\ more[i].type = "http" =>
                           /\ conn[c].phase = "http"
                           /\ (more[i].uri # "/" => more[i].uri = w.uri /\ more[i].key = w.key)
                           /\ \A j \in 1..(i - 1) : more[j].type = "http" /\ more[j].uri = "/"
    BY DEF Coming
  <2>1. CASE i = Len(msgs) + 1
    <3>1. more[i] = m /\ base + i = asked[c] + 1 /\ i - 1 = Len(msgs)
      BY <1>1, <1>4, <1>6, <2>1
    <3>2. \A j \in 1..(i - 1) : more[j] = msgs[j] /\ j \in 1..Len(msgs)
      BY <1>4, <3>1
    <3> QED
      BY <1>a, <3>1, <3>2
  <2>2. CASE i \in 1..Len(msgs)
    <3>1. more[i] = msgs[i] /\ \A j \in 1..(i - 1) : more[j] = msgs[j]
      BY <1>1, <1>4, <2>2
    <3>2. /\ msgs[i].id = base + i
          /\ msgs[i].type # "http" => msgs[i].actual <= msgs[i].len
          /\ msgs[i].type = "http" =>
               /\ conn[c].phase = "http"
               /\ (msgs[i].uri # "/" => msgs[i].uri = wanted[c].uri /\ msgs[i].key = wanted[c].key)
               /\ \A j \in 1..(i - 1) : msgs[j].type = "http" /\ msgs[j].uri = "/"
      BY <1>3, <2>2 DEF Coming
    <3>3. CASE m.type # "http"
      BY <3>1, <3>2, <3>3
    <3>4. CASE m.type = "http"
      <4>1. msgs[i].type = "http" /\ msgs[i].uri = "/"
        BY <1>a, <2>2, <3>4
      <4> QED
        BY <3>1, <3>2, <4>1
    <3> QED
      BY <3>3, <3>4
  <2> QED
    BY <1>4, <2>1, <2>2
<1>10. Fine(conn[c], got[c] \o conn[c].send, base, w)
  <2>1. CASE m.type # "http"
    BY <1>3, <2>1
  <2>2. CASE m.type = "http"
    <3>1. conn[c].phase = "http" /\ conn[c].state # "handoff"
      BY <1>3, <2>2 DEF Fine
    <3> QED
      BY <1>3, <3>1 DEF Fine
  <2> QED
    BY <2>1, <2>2
<1>11. conn[c].phase \notin {"new", "gone"} /\ conn'[c] = conn[c]
  BY DEF Served
<1>12. Life(c)'
  <2>1. /\ inbox'[c] = more /\ asked'[c] = asked[c] + 1 /\ wanted'[c] = w /\ conn'[c] = conn[c]
        /\ got'[c] = got[c] /\ (asked[c] + 1) - Len(more) = base /\ Len(more) <= asked[c] + 1
    BY <1>5, <1>6
  <2> QED
    BY <1>9, <1>10, <1>11, <2>1 DEF Life
<1>13. Sound(conn'[c])
  BY DEF IInv
<1> QED
  BY <1>5, <1>7, <1>8, <1>11, <1>12, <1>13, OneMoves

LEMMA OpenWithIInv ==
  ASSUME IInv, NEW c \in Conns, NEW q \in Openings[c], OpenWith(c, q)
  PROVE  IInv'
<1> DEFINE m == [type |-> "http", uri |-> q.uri, key |-> q.key, id |-> asked[c] + 1]
<1>1. q \in Opening /\ asked[c] \in Nat
  BY RpcServerAssumption DEF IInv, TypeOK
<1>2. m \in HttpRequest /\ m.type = "http" /\ m.id = asked[c] + 1 /\ m.uri = q.uri /\ m.key = q.key
  BY <1>1 DEF HttpRequest, Opening
<1>3. /\ conn[c].phase = "http"
      /\ \A i \in DOMAIN inbox[c] : inbox[c][i].type = "http" /\ inbox[c][i].uri = "/"
      /\ asked' = [asked EXCEPT ![c] = @ + 1] /\ wanted' = [wanted EXCEPT ![c] = q]
      /\ inbox' = [inbox EXCEPT ![c] = Append(@, m)]
      /\ UNCHANGED <<conn, got, turn, newFd, curFd, closes>>
  BY DEF OpenWith
<1> HIDE DEF m
<1>4. m \in Message /\ conn[c].phase \in Served
  BY <1>2, <1>3 DEF Message, Served
<1> QED
  BY <1>1, <1>2, <1>3, <1>4, SentIInv

LEMMA AskIInv ==
  ASSUME IInv, NEW c \in Conns, NEW q \in Requests[c], Ask(c, q)
  PROVE  IInv'
<1> DEFINE m == [type |-> q.type, len |-> q.len, actual |-> q.actual, id |-> asked[c] + 1]
           w == wanted[c]
<1>1. /\ q \in Request /\ q.actual <= q.len /\ asked[c] \in Nat /\ w \in Opening
      /\ wanted \in [Conns -> Opening] /\ conn[c] \in ConnType
  BY RpcServerAssumption DEF IInv, TypeOK
<1>2. m \in Incoming /\ m.type # "http" /\ m.id = asked[c] + 1 /\ m.actual <= m.len
  BY <1>1 DEF Incoming, Request
<1>3. /\ conn[c].phase \notin {"new", "gone"}
      /\ asked' = [asked EXCEPT ![c] = @ + 1] /\ wanted' = wanted
      /\ inbox' = [inbox EXCEPT ![c] = Append(@, m)]
      /\ UNCHANGED <<conn, got, turn, newFd, curFd, closes>>
  BY DEF Ask
<1>4. wanted' = [wanted EXCEPT ![c] = w]
  BY <1>1, <1>3
<1>5. w = wanted[c]
  OBVIOUS
<1> HIDE DEF m, w
<1>6. m \in Message /\ conn[c].phase \in Served
  BY <1>1, <1>2, <1>3 DEF Message, Served, ConnType
<1> QED
  BY <1>1, <1>2, <1>3, <1>4, <1>5, <1>6, SentIInv

(* The hose thread: the connection it leaves is closed.                     *)
LEMMA HoseIInv == ASSUME IInv, HoseTakes \/ HoseFails PROVE IInv'
<1>1. UNCHANGED <<conn, inbox, got, asked, wanted, turn>>
  BY DEF HoseTakes, HoseFails
<1>2. /\ closes \in [Conns -> Nat] /\ newFd \in Conns \cup {None} /\ curFd \in Conns \cup {None}
      /\ None \notin Conns
  BY RpcServerAssumption DEF IInv, TypeOK
<1>3. /\ newFd' \in {None, newFd} /\ curFd' \in {None, newFd}
      /\ closes' = IF curFd = None THEN closes ELSE [closes EXCEPT ![curFd] = @ + 1]
      /\ newFd' # newFd => curFd' = newFd
      /\ newFd' = newFd => curFd' = None
  BY <1>2 DEF HoseTakes, HoseFails
<1>4. closes' \in [Conns -> Nat] /\ newFd' \in Conns \cup {None} /\ curFd' \in Conns \cup {None}
  BY <1>2, <1>3
<1>5. TypeOK' /\ TurnOn'
  BY <1>1, <1>4 DEF IInv, TypeOK, TurnOn
<1>6. ASSUME NEW d \in Conns PROVE Life(d)' /\ Owner(d)' /\ Sound(conn'[d])
  <2>1. Life(d)' /\ Sound(conn'[d]) /\ Owner(d)
    BY <1>1, LifeKept DEF IInv
  <2>2. closes'[d] = IF curFd = d THEN closes[d] + 1 ELSE closes[d]
    BY <1>2, <1>3
  <2>3. (newFd' = d \/ curFd' = d) <=> newFd = d
    BY <1>2, <1>3
  <2>4. newFd' = d => curFd' # d
    BY <1>2, <1>3
  <2>5. Owner(d)'
    BY <1>1, <2>1, <2>2, <2>3, <2>4 DEF Owner
  <2> QED
    BY <2>1, <2>5
<1> QED
  BY <1>5, <1>6 DEF IInv

LEMMA StepIInv == IInv /\ [Next]_vars => IInv'
<1> SUFFICES ASSUME IInv, [Next]_vars PROVE IInv'
  OBVIOUS
<1>1. CASE UNCHANGED vars
  <2>1. UNCHANGED <<conn, inbox, got, asked, wanted, turn, newFd, curFd, closes>>
    BY <1>1 DEF vars
  <2> QED
    BY <2>1 DEF IInv, TypeOK, TurnOn, Life, Owner, Sound, SendLen
<1>2. CASE \E c \in Conns : Accept(c) \/ Poll(c) \/ ReadFails(c) \/ WriteFails(c)
  <2>1. PICK c \in Conns : Accept(c) \/ Poll(c) \/ ReadFails(c) \/ WriteFails(c)
    BY <1>2
  <2>2. CASE WritePart(c)
    <3>1. conn[c].send \in Seq(Item)
      BY DEF IInv, TypeOK, ConnType
    <3>2. 0 \in 0..Len(conn[c].send)
      BY <3>1
    <3> QED
      BY <2>2, <3>2, WriteIInv DEF WritePart
  <2>3. CASE WriteMessages(c)
    <3>1. conn[c].send \in Seq(Item)
      BY DEF IInv, TypeOK, ConnType
    <3>2. PICK n \in DOMAIN conn[c].send : Write(c, n)
      BY <2>3 DEF WriteMessages
    <3>3. n \in 0..Len(conn[c].send)
      BY <3>1
    <3> QED
      BY <3>2, <3>3, WriteIInv
  <2> QED
    BY <2>1, <2>2, <2>3, AcceptIInv, VisitIInv, ReadConnIInv, ReadFailsIInv, WriteFailsIInv,
       NothingToWriteIInv, CloseConnIInv DEF Poll
<1>3. CASE \E c \in Conns : \E q \in Openings[c] : OpenWith(c, q)
  BY <1>3, OpenWithIInv
<1>4. CASE \E c \in Conns : \E q \in Requests[c] : Ask(c, q)
  BY <1>4, AskIInv
<1>5. CASE HoseTakes \/ HoseFails
  BY <1>5, HoseIInv
<1> QED
  BY <1>1, <1>2, <1>3, <1>4, <1>5 DEF Next

(* The invariant of the server's connections, for any number of them, any   *)
(* requests and any number of requests sent ahead.                          *)
THEOREM ServerInvariant == Spec => []IInv
<1>1. Init => IInv
  BY InitIInv
<1>2. IInv /\ [Next]_vars => IInv'
  BY StepIInv
<1> QED
  BY <1>1, <1>2, PTL DEF Spec

(* Every socket has one owner or has been closed, once: mongoose, new_fd_   *)
(* and cur_fd_ never hold it together, and none leaks (push_fd).            *)
THEOREM SocketsOwned == Spec => []FdsOwned
<1>1. IInv => FdsOwned
  <2> SUFFICES ASSUME IInv, NEW c \in Conns
               PROVE  LET owners == (IF conn[c].phase # "gone" THEN {"mongoose"} ELSE {}) \cup
                            (IF newFd = c THEN {"new"} ELSE {}) \cup (IF curFd = c THEN {"current"} ELSE {})
                      IN  /\ closes[c] \in {0, 1}
                          /\ owners = {} <=> closes[c] = 1
                          /\ \A o, p \in owners : o = p
    BY DEF FdsOwned
  <2>1. Owner(c)
    BY DEF IInv
  <2>2. CASE conn[c].phase # "gone"
    BY <2>1, <2>2 DEF Owner
  <2>3. CASE conn[c].phase = "gone"
    BY <2>1, <2>3 DEF Owner
  <2> QED
    BY <2>2, <2>3
<1> QED
  BY <1>1, ServerInvariant, PTL

(* A connection is the hose's only if it asked for it, and the answer to    *)
(* that is out in full, with nothing behind it: 101, or 426 if the request  *)
(* had no key (serve.cpp:701, 709-716).                                     *)
THEOREM HandOverClean == Spec => []HandedOverClean
<1>1. IInv => HandedOverClean
  <2> SUFFICES ASSUME IInv, NEW c \in Conns, c \in {newFd, curFd}
               PROVE  conn[c].send = <<>> /\ HoseAnswers(got[c], wanted[c])
    BY DEF HandedOverClean
  <2>1. Owner(c) /\ Life(c)
    BY DEF IInv
  <2> QED
    BY <2>1 DEF Owner, Life
<1> QED
  BY <1>1, ServerInvariant, PTL

(* The k-th answer on an RPC connection is for the k-th request, errors and *)
(* refusals included, however many requests are sent ahead, unless frames   *)
(* came before the upgrade was answered.                                    *)
THEOREM AnswersOrdered == Spec => []AnswersInOrder
<1>1. IInv => AnswersInOrder
  <2> SUFFICES ASSUME IInv, NEW c \in Conns, conn[c].state = "rpc", conn[c].phase = "ws",
                      ~conn[c].junk
               PROVE  Answered(got[c] \o conn[c].send, asked[c] - Len(inbox[c]))
    BY DEF AnswersInOrder, Answered
  <2>1. Life(c) /\ conn[c].phase \in Served
    BY DEF IInv, Served
  <2> QED
    BY <2>1 DEF Life, Fine
<1> QED
  BY <1>1, ServerInvariant, PTL

(* The send buffer holds what is queued, also after READ grew it to its     *)
(* limit, and every frame's body follows its header, also where READ moved  *)
(* it (serve.cpp:617).                                                      *)
THEOREM BuffersSound == Spec => []BufferSound
<1>1. IInv => BufferSound
  BY DEF IInv, BufferSound, Sound, FrameSound
<1> QED
  BY <1>1, ServerInvariant, PTL

-----------------------------------------------------------------------------
(* The memory a request may touch (MemRegions).  End: where a region ends,   *)
(* which is no address if it is the end of the address space.                *)
End(r) == r.start + r.size
Region == [start : 1..(Space - 1), size : 1..(Space - 1), perm : SUBSET {"R", "W"}]
Kinds == Mappable \cup {"unmapped", "reserved"}

RegionsTypes ==
  /\ memory \in [Addrs -> Kinds] /\ before \in [Addrs -> Kinds] /\ memory[0] = "unmapped"
  /\ memory[Space - 1] = "reserved" /\ before[Space - 1] = "reserved"
  /\ cached \in Seq(Region)
  /\ pc \in {"idle", "load", "find", "again"}
  /\ query \in Addrs /\ (pc # "load" => query = 0)
  /\ first \in Nat /\ count \in Nat /\ first + count <= Len(cached)
  /\ addr \in Addrs /\ left \in Nat /\ copied \in Nat /\ write \in BOOLEAN

(* What is listed is mapped, with the permissions of the list.              *)
ListTrue ==
  \A i \in 1..Len(cached) :
    /\ End(cached[i]) <= Space
    /\ \A b \in cached[i].start..(End(cached[i]) - 1) :
         memory[b] # "unmapped" /\ Perm(memory[b]) = cached[i].perm

BeforeKept == \A b \in Addrs : before[b] # "unmapped" => memory[b] = before[b]

(* Regions may overlap, but each ends after those before it.                *)
Sorted ==
  \A i, j \in 1..Len(cached) : i < j => End(cached[i]) < End(cached[j])

Listed(list, b) ==
  \E i \in 1..Len(list) :
    /\ list[i].start <= b /\ b < End(list[i])
    /\ \A j \in 1..(i - 1) : End(list[j]) <= b

LoadedSoFar ==
  /\ pc = "load" =>
       /\ \A i \in 1..Len(cached) : End(cached[i]) <= query
       /\ \A b \in 0..(query - 1) : before[b] # "unmapped" => Listed(cached, b)
  /\ pc = "again" => \A b \in Addrs : before[b] # "unmapped" => Listed(cached, b)

(* Once the search has compared the last region, whose end is 0 for it, the *)
(* one before may have been passed as well.                                 *)
Halved ==
  Searching =>
    /\ \A i \in 1..first :
         End(cached[i]) <= addr \/ (first = Len(cached) /\ i >= Len(cached) - 1)
    /\ \A i \in (first + count + 1)..Len(cached) : addr < End(cached[i])

Cursor ==
  pc # "idle" =>
    /\ left >= 1 /\ copied + left <= Space
    /\ copied <= addr \/ (addr = 0 /\ copied >= 1)

RegionsInv ==
  /\ RegionsTypes /\ ListTrue /\ BeforeKept /\ Sorted /\ LoadedSoFar /\ Halved /\ Cursor
-----------------------------------------------------------------------------
(* How addresses wrap (uintptr_t).                                          *)
LEMMA NoWrap ==
  ASSUME NEW s \in Nat \ {0}
  PROVE  \A x \in 0..(s - 1) : x % s = x
  OBVIOUS

(* A difference below zero.                                                 *)
LEMMA WrapsUp ==
  ASSUME NEW s \in Nat \ {0}
  PROVE  \A x \in (-s)..(-1) : x % s = x + s
  OBVIOUS

(* The end of the address space.                                            *)
LEMMA WrapsToZero ==
  ASSUME NEW s \in Nat \ {0}
  PROVE  s % s = 0
  OBVIOUS

(* Sets of addresses have a least and a greatest member.                    *)
LEMMA Extremes ==
  ASSUME NEW n \in Nat, NEW T, T \subseteq 0..n, T # {}
  PROVE  /\ Min(T) \in T /\ \A x \in T : Min(T) <= x
         /\ Max(T) \in T /\ \A x \in T : x <= Max(T)
<1>1. \E x \in T : \A y \in T : x <= y
  BY NatLeast, T \subseteq Nat
<1>2. \E x \in T : \A y \in T : x >= y
  <2> DEFINE U == {n - x : x \in T}
  <2>0. \A x \in T : n - x \in Nat
    OBVIOUS
  <2>1. U \subseteq Nat /\ U # {}
    BY <2>0
  <2>2. PICK u \in U : \A v \in U : u <= v
    BY <2>1, NatLeast
  <2>3. PICK x \in T : u = n - x
    BY <2>2
  <2>4. \A y \in T : n - x <= n - y
    BY <2>2, <2>3
  <2>5. \A y \in T : x >= y
    BY <2>4
  <2> QED BY <2>5
<1> QED BY <1>1, <1>2 DEF Min, Max

(* The smaller of two numbers (std::min).                                   *)
LEMMA MinOfTwo ==
  ASSUME NEW a \in Nat, NEW b \in Nat
  PROVE  /\ Min({a, b}) \in {a, b} /\ Min({a, b}) \in Nat
         /\ Min({a, b}) <= a /\ Min({a, b}) <= b
<1>1. \E x \in {a, b} : \A y \in {a, b} : x <= y
  OBVIOUS
<1> QED BY <1>1 DEF Min

(* svcQueryMemory's block holds the address and is of one kind.             *)
LEMMA BlockIs ==
  ASSUME NEW a \in Addrs
  PROVE  /\ Block(a) = [start |-> Block(a).start, size |-> Block(a).size]
         /\ Block(a).start \in Addrs /\ Block(a).size \in 1..Space
         /\ Block(a).start <= a /\ a < Block(a).start + Block(a).size
         /\ Block(a).start + Block(a).size <= Space
         /\ \A c \in Block(a).start..(Block(a).start + Block(a).size - 1) :
              c \in Addrs /\ memory[c] = memory[a]
<1> DEFINE same == {b \in Addrs : \A c \in Addrs :
                      (a <= c /\ c <= b) \/ (b <= c /\ c <= a) => memory[c] = memory[a]}
<1>0. Space \in Nat \ {0}
  BY RegionsAssumption
<1>1. a \in same
  <2> SUFFICES ASSUME NEW c \in Addrs, (a <= c /\ c <= a) \/ (a <= c /\ c <= a)
               PROVE  memory[c] = memory[a]
    OBVIOUS
  <2>1. c = a
    BY <1>0 DEF Addrs
  <2> QED BY <2>1
<1>2. same \subseteq 0..(Space - 1)
  BY DEF Addrs
<1>3. \A b \in same, c \in Addrs :
        (a <= c /\ c <= b) \/ (b <= c /\ c <= a) => memory[c] = memory[a]
  OBVIOUS
<1>4. Block(a) = [start |-> Min(same), size |-> Max(same) - Min(same) + 1]
  BY DEF Block
<1> HIDE DEF same
<1>5. /\ Min(same) \in same /\ Max(same) \in same
      /\ Min(same) <= a /\ a <= Max(same)
  <2>1. Space - 1 \in Nat /\ same # {}
    BY <1>0, <1>1
  <2> QED BY ONLY <1>1, <1>2, <2>1, Extremes
<1>6. \A c \in Min(same)..Max(same) : c \in Addrs /\ memory[c] = memory[a]
  <2> SUFFICES ASSUME NEW c \in Min(same)..Max(same)
               PROVE  c \in Addrs /\ memory[c] = memory[a]
    OBVIOUS
  <2>1. c \in Addrs
    <3>1. Min(same) \in 0..(Space - 1) /\ Max(same) \in 0..(Space - 1)
      BY <1>2, <1>5
    <3> QED BY ONLY <1>0, <3>1, c \in Min(same)..Max(same) DEF Addrs
  <2>2. a <= c \/ c <= a
    BY <1>0, <2>1 DEF Addrs
  <2> QED BY <1>3, <1>5, <2>1, <2>2
<1>7. Min(same) \in Addrs /\ Max(same) \in Addrs
  BY <1>2, <1>5 DEF Addrs
<1> HIDE DEF Addrs
<1>8. Block(a).start = Min(same) /\ Block(a).size = Max(same) - Min(same) + 1
  BY <1>4
<1>9. Block(a).start + Block(a).size - 1 = Max(same)
  BY <1>0, <1>7, <1>8 DEF Addrs
<1> QED BY <1>0, <1>4, <1>5, <1>6, <1>7, <1>8, <1>9 DEF Addrs

(* Before the first request the list is empty (mem_regions).                *)
LEMMA RegionsInitInv == RegionsInit => RegionsInv
<1> SUFFICES ASSUME RegionsInit PROVE RegionsInv
  OBVIOUS
<1>0. Space \in Nat /\ Space >= 3 /\ 0 \in Addrs
  BY RegionsAssumption DEF Addrs
<1>1. memory = [a \in Addrs |-> IF a = Space - 1 THEN "reserved" ELSE "unmapped"]
  BY DEF RegionsInit
<1>2. "reserved" \in Kinds /\ "unmapped" \in Kinds /\ Space - 1 \in Addrs /\ Space - 1 # 0
  BY <1>0 DEF Kinds, Addrs
<1>3. memory \in [Addrs -> Kinds] /\ memory[0] = "unmapped" /\ memory[Space - 1] = "reserved"
  BY <1>0, <1>1, <1>2
<1>4. cached = <<>> /\ Len(cached) = 0 /\ cached \in Seq(Region)
  BY DEF RegionsInit
<1>5. RegionsTypes
  BY <1>0, <1>3, <1>4 DEF RegionsInit, RegionsTypes
<1>6. ListTrue /\ Sorted
  BY <1>4 DEF ListTrue, Sorted
<1>7. BeforeKept /\ LoadedSoFar /\ Halved /\ Cursor
  BY DEF RegionsInit, BeforeKept, LoadedSoFar, Halved, Cursor, Searching
<1> QED BY <1>5, <1>6, <1>7 DEF RegionsInv

(* A region of the list lies within the address space, below its end.       *)
LEMMA RegionBounds ==
  ASSUME RegionsTypes, ListTrue, NEW i \in 1..Len(cached)
  PROVE  /\ cached[i] \in Region
         /\ cached[i].start \in Nat /\ cached[i].size \in Nat
         /\ cached[i].start >= 1 /\ cached[i].size >= 1
         /\ End(cached[i]) \in Nat /\ End(cached[i]) <= Space
         /\ cached[i].start < End(cached[i])
         /\ cached[i].start..(End(cached[i]) - 1) \subseteq Addrs
<1>0. Space \in Nat /\ Space >= 3
  BY RegionsAssumption
<1>1. cached[i] \in Region
  BY DEF RegionsTypes
<1>2. /\ cached[i].start \in 1..(Space - 1) /\ cached[i].size \in 1..(Space - 1)
      /\ End(cached[i]) = cached[i].start + cached[i].size
  BY <1>1 DEF Region, End
<1>3. End(cached[i]) <= Space
  BY DEF ListTrue
<1> QED BY <1>0, <1>1, <1>2, <1>3 DEF Addrs

(* The game maps memory, anywhere but at both ends of the address space.    *)
LEMMA MapInv ==
  ASSUME RegionsInv, NEW lo \in 1..(Space - 2), NEW hi \in 1..(Space - 2),
         NEW k \in Mappable, Map(lo, hi, k)
  PROVE  RegionsInv'
<1>0. Space \in Nat /\ Space >= 3 /\ 0 \in Addrs /\ Space - 1 \in Addrs
  BY RegionsAssumption DEF Addrs
<1>1. RegionsTypes /\ ListTrue /\ BeforeKept /\ Sorted /\ LoadedSoFar /\ Halved /\ Cursor
  BY DEF RegionsInv
<1>2. /\ \A a \in lo..hi : memory[a] = "unmapped"
      /\ memory' = [a \in Addrs |-> IF a \in lo..hi THEN k ELSE memory[a]]
      /\ cached' = cached /\ pc' = pc /\ query' = query /\ first' = first
      /\ count' = count /\ addr' = addr /\ left' = left /\ copied' = copied
      /\ write' = write /\ before' = before
  BY DEF Map, search, request
<1>3. \A a \in Addrs : memory[a] # "unmapped" => memory'[a] = memory[a]
  BY <1>2
<1>4. memory'[0] = memory[0] /\ memory'[Space - 1] = memory[Space - 1]
  BY <1>0, <1>2
<1>5. memory' \in [Addrs -> Kinds]
  BY <1>1, <1>2 DEF RegionsTypes, Kinds
<1>6. RegionsTypes'
  BY <1>1, <1>2, <1>4, <1>5 DEF RegionsTypes
<1>7. ListTrue'
  <2> SUFFICES ASSUME NEW i \in 1..Len(cached),
                      NEW b \in cached[i].start..(End(cached[i]) - 1)
               PROVE  memory'[b] # "unmapped" /\ Perm(memory'[b]) = cached[i].perm
    BY <1>1, <1>2 DEF ListTrue, End
  <2>1. b \in Addrs
    BY <1>1, RegionBounds
  <2> QED BY <1>1, <1>3, <2>1 DEF ListTrue
<1>8. BeforeKept'
  BY <1>1, <1>2, <1>3 DEF BeforeKept
<1>9. Sorted' /\ LoadedSoFar' /\ Cursor'
  BY <1>1, <1>2 DEF Sorted, LoadedSoFar, Cursor, Listed, End
<1>10. Halved'
  BY <1>1, <1>2, <1>4 DEF Halved, Searching, End
<1> QED BY <1>6, <1>7, <1>8, <1>9, <1>10 DEF RegionsInv

(* A request begins with a search of the list as it is.                     *)
LEMMA SafeMemcpyInv ==
  ASSUME RegionsInv, NEW a \in Addrs, NEW n \in Sizes, NEW w \in BOOLEAN,
         SafeMemcpy(a, n, w)
  PROVE  RegionsInv'
<1>0. Space \in Nat /\ n \in 1..Space
  BY RegionsAssumption
<1>1. RegionsTypes /\ ListTrue /\ BeforeKept /\ Sorted /\ LoadedSoFar /\ Halved /\ Cursor
  BY DEF RegionsInv
<1>2. /\ memory' = memory /\ before' = memory /\ cached' = cached /\ query' = query
      /\ pc = "idle" /\ pc' = "find" /\ first' = 0 /\ count' = Len(cached)
      /\ addr' = a /\ left' = n /\ copied' = 0 /\ write' = w
  BY DEF SafeMemcpy, SearchIn
<1>3. Len(cached) \in Nat
  BY <1>1, LenProperties DEF RegionsTypes
<1>4. RegionsTypes'
  BY <1>0, <1>1, <1>2, <1>3 DEF RegionsTypes
<1>5. ListTrue' /\ Sorted'
  BY <1>1, <1>2 DEF ListTrue, Sorted, End
<1>6. BeforeKept' /\ LoadedSoFar'
  BY <1>2 DEF BeforeKept, LoadedSoFar
<1>7. Halved'
  BY <1>2, <1>3 DEF Halved
<1>8. Cursor'
  <2>1. 0 <= a
    BY <1>0 DEF Addrs
  <2> QED BY <1>0, <1>2, <2>1 DEF Cursor
<1> QED BY <1>4, <1>5, <1>6, <1>7, <1>8 DEF RegionsInv

(* An address in no region makes the list be loaded from nothing.           *)
LEMMA ReloadInv == RegionsInv /\ Reload => RegionsInv'
<1> SUFFICES ASSUME RegionsInv, Reload PROVE RegionsInv'
  OBVIOUS
<1>0. Space \in Nat /\ 0 \in Addrs
  BY RegionsAssumption DEF Addrs
<1>1. RegionsTypes /\ ListTrue /\ BeforeKept /\ Sorted /\ LoadedSoFar /\ Halved /\ Cursor
  BY DEF RegionsInv
<1>2. /\ memory' = memory /\ before' = before /\ cached' = <<>> /\ query' = 0
      /\ pc = "find" /\ pc' = "load" /\ first' = 0 /\ count' = 0
      /\ addr' = addr /\ left' = left /\ copied' = copied /\ write' = write
  BY DEF Reload, SearchIn, request
<1>3. cached' \in Seq(Region) /\ Len(cached') = 0
  BY <1>2
<1>4. RegionsTypes'
  BY <1>0, <1>1, <1>2, <1>3 DEF RegionsTypes
<1>5. ListTrue' /\ Sorted'
  BY <1>3 DEF ListTrue, Sorted
<1>6. BeforeKept' /\ Cursor'
  BY <1>1, <1>2 DEF BeforeKept, Cursor
<1>7. LoadedSoFar' /\ Halved'
  BY <1>2, <1>3 DEF LoadedSoFar, Halved, Searching
<1> QED BY <1>4, <1>5, <1>6, <1>7 DEF RegionsInv

(* Nothing found in a fresh list ends the request.                          *)
LEMMA GiveUpInv == RegionsInv /\ GiveUp => RegionsInv'
<1> SUFFICES ASSUME RegionsInv, GiveUp PROVE RegionsInv'
  OBVIOUS
<1>1. RegionsTypes /\ ListTrue /\ BeforeKept /\ Sorted
  BY DEF RegionsInv
<1>2. /\ memory' = memory /\ before' = before /\ cached' = cached /\ query' = query
      /\ pc = "again" /\ pc' = "idle" /\ first' = 0 /\ count' = 0
      /\ addr' = addr /\ left' = left /\ copied' = copied /\ write' = write
  BY DEF GiveUp, SearchIn, request
<1>3. Len(cached) \in Nat
  BY <1>1, LenProperties DEF RegionsTypes
<1>4. RegionsTypes'
  BY <1>1, <1>2, <1>3 DEF RegionsTypes
<1>5. ListTrue' /\ Sorted' /\ BeforeKept'
  BY <1>1, <1>2 DEF ListTrue, Sorted, End, BeforeKept
<1>6. LoadedSoFar' /\ Halved' /\ Cursor'
  BY <1>2 DEF LoadedSoFar, Halved, Searching, Cursor
<1> QED BY <1>4, <1>5, <1>6 DEF RegionsInv

(* A step of the binary search: regions ahead of the middle one end before  *)
(* it, those behind it after it.                                            *)
LEMMA HalveInv == RegionsInv /\ Halve => RegionsInv'
<1> SUFFICES ASSUME RegionsInv, Halve PROVE RegionsInv'
  OBVIOUS
<1>0. Space \in Nat /\ Space \in Nat \ {0}
  BY RegionsAssumption
<1>1. RegionsTypes /\ ListTrue /\ BeforeKept /\ Sorted /\ LoadedSoFar /\ Halved /\ Cursor
  BY DEF RegionsInv
<1> DEFINE half == count \div 2
           mid == first + half + 1
<1>2. /\ memory' = memory /\ before' = before /\ cached' = cached /\ query' = query
      /\ pc' = pc /\ addr' = addr /\ left' = left /\ copied' = copied /\ write' = write
      /\ Searching /\ count > 0
      /\ \/ Precedes(cached[mid], addr) /\ first' = mid /\ count' = count - half - 1
         \/ ~Precedes(cached[mid], addr) /\ count' = half /\ first' = first
  BY DEF Halve, request
<1>3. Len(cached) \in Nat
  BY <1>1, LenProperties DEF RegionsTypes
<1>4. first \in Nat /\ count \in Nat /\ first + count <= Len(cached) /\ addr \in Nat
  BY <1>0, <1>1 DEF RegionsTypes, Addrs
<1>5. half \in Nat /\ half < count /\ count - half - 1 \in Nat /\ mid \in 1..Len(cached)
      /\ mid + (count - half - 1) = first + count /\ first + half <= Len(cached)
  BY <1>2, <1>3, <1>4
<1> HIDE DEF half
<1>6. RegionsTypes'
  BY <1>1, <1>2, <1>3, <1>4, <1>5 DEF RegionsTypes
<1>7. ListTrue' /\ Sorted' /\ BeforeKept' /\ LoadedSoFar' /\ Cursor'
  BY <1>1, <1>2 DEF ListTrue, Sorted, End, BeforeKept, LoadedSoFar, Listed, Cursor
<1>8. Halved'
  <2> DEFINE Len1 == Len(cached)
             Passed(i, f) == End(cached[i]) <= addr \/ (f = Len1 /\ i >= Len1 - 1)
  <2> SUFFICES /\ \A i \in 1..first' : Passed(i, first')
               /\ \A i \in (first' + count' + 1)..Len1 : addr < End(cached[i])
    BY <1>2 DEF Halved, End
  <2>1. \A i \in 1..Len1 : End(cached[i]) \in Nat /\ End(cached[i]) <= Space
    BY <1>1, RegionBounds
  <2>2. CASE ~Precedes(cached[mid], addr)
    <3>1. first' = first /\ first' + count' + 1 = mid
      BY <1>2, <1>4, <1>5, <2>2 DEF mid
    <3>2. \A i \in 1..first : Passed(i, first)
      BY <1>1, <1>2 DEF Halved
    <3>3. addr < End(cached[mid])
      <4>1. CASE End(cached[mid]) < Space
        <5>1. End(cached[mid]) \in 0..(Space - 1)
          BY <1>0, <1>5, <2>1, <4>1
        <5>2. End(cached[mid]) % Space = End(cached[mid])
          BY ONLY <1>0, <5>1, NoWrap
        <5>3. ~(End(cached[mid]) <= addr)
          BY <2>2, <5>2 DEF Precedes, End
        <5> HIDE DEF mid
        <5> QED BY ONLY <1>4, <5>1, <5>3, <1>0
      <4>2. CASE End(cached[mid]) = Space
        BY <1>0, <1>1, <4>2 DEF RegionsTypes, Addrs
      <4> QED BY <1>0, <1>5, <2>1, <4>1, <4>2
    <3>4. \A i, j \in 1..Len1 : i < j => End(cached[i]) < End(cached[j])
      BY <1>1 DEF Sorted
    <3> HIDE DEF mid
    <3>5. \A i \in mid..Len1 : i \in 1..Len1 /\ (i = mid \/ mid < i)
      BY <1>3, <1>5
    <3>6. \A i \in mid..Len1 : addr < End(cached[i])
      BY <1>4, <1>5, <2>1, <3>3, <3>4, <3>5
    <3> QED BY <3>1, <3>2, <3>6
  <2>3. CASE Precedes(cached[mid], addr)
    <3>1. first' = mid /\ first' + count' = first + count
      BY <1>2, <1>5, <2>3
    <3>2. \A i \in (first + count + 1)..Len1 : addr < End(cached[i])
      BY <1>1, <1>2 DEF Halved
    <3>3. \A i \in 1..first : End(cached[i]) <= addr
      <4>1. first # Len1
        BY <1>2, <1>3, <1>4
      <4> QED BY <1>1, <1>2, <4>1 DEF Halved
    <3>4. \A i, j \in 1..Len1 : i < j => End(cached[i]) < End(cached[j])
      BY <1>1 DEF Sorted
    <3>5. CASE End(cached[mid]) < Space
      <4>1. End(cached[mid]) \in 0..(Space - 1)
        BY <1>0, <1>5, <2>1, <3>5
      <4>2. End(cached[mid]) % Space = End(cached[mid])
        BY ONLY <1>0, <4>1, NoWrap
      <4>3. End(cached[mid]) <= addr
        BY <2>3, <4>2 DEF Precedes, End
      <4> HIDE DEF mid
      <4>4. \A i \in 1..mid : i \in 1..Len1 /\ (i = mid \/ i < mid)
        BY <1>3, <1>5
      <4>5. \A i \in 1..mid : End(cached[i]) <= addr
        BY <1>4, <1>5, <2>1, <3>4, <4>3, <4>4
      <4> QED BY <3>1, <3>2, <4>5
    <3>6. CASE End(cached[mid]) = Space
      <4>1. mid = Len1
        <5> HIDE DEF mid
        <5>1. ASSUME mid < Len1 PROVE FALSE
          <6>1. Len1 \in 1..Len1 /\ End(cached[mid]) < End(cached[Len1])
            BY <1>3, <1>5, <3>4, <5>1
          <6> QED BY <1>0, <2>1, <3>6, <6>1
        <5> QED BY <1>3, <1>5, <5>1
      <4>2. count <= 2 /\ first >= Len1 - 2
        <5>1. half = count - 1
          BY <1>3, <1>4, <1>5, <4>1
        <5>2. count <= 2
          BY <1>2, <1>4, <5>1 DEF half
        <5> QED BY <1>3, <1>4, <1>5, <4>1, <5>1, <5>2
      <4> HIDE DEF mid
      <4>3. \A i \in 1..mid : Passed(i, mid)
        <5> SUFFICES ASSUME NEW i \in 1..mid PROVE Passed(i, mid)
          OBVIOUS
        <5>1. CASE i <= first
          BY <3>3, <5>1
        <5>2. CASE first < i
          <6>1. mid = Len1 /\ i >= Len1 - 1
            BY <1>3, <1>4, <4>1, <4>2, <5>2
          <6> QED BY <6>1
        <5> QED BY <1>4, <5>1, <5>2
      <4> QED BY <3>1, <3>2, <4>3
    <3> QED BY <1>0, <1>5, <2>1, <3>5, <3>6
  <2> QED BY <2>2, <2>3
<1> QED BY <1>6, <1>7, <1>8 DEF RegionsInv

(* find_cached_region's result holds the address.                           *)
LEMMA FoundHolds ==
  ASSUME RegionsTypes, ListTrue, NEW r \in Found
  PROVE  /\ first + 1 \in 1..Len(cached) /\ r = cached[first + 1]
         /\ r.start <= addr /\ addr < End(r)
<1>0. Space \in Nat /\ Space \in Nat \ {0}
  BY RegionsAssumption
<1>1. first + 1 \in 1..Len(cached) /\ r = cached[first + 1] /\ (addr - r.start) % Space < r.size
  BY LenProperties DEF Found, RegionsTypes
<1>2. r.start \in Nat /\ r.size \in Nat /\ End(r) <= Space /\ r.start < End(r) /\ r.start >= 1
  BY <1>1, RegionBounds
<1>3. addr \in 0..(Space - 1)
  BY DEF RegionsTypes, Addrs
<1>4. CASE r.start <= addr
  <2>1. addr - r.start \in 0..(Space - 1)
    BY <1>0, <1>2, <1>3, <1>4
  <2>2. (addr - r.start) % Space = addr - r.start
    BY ONLY <1>0, <2>1, NoWrap
  <2> QED BY <1>1, <1>2, <1>3, <1>4, <2>2 DEF End
<1>5. CASE addr < r.start
  <2>1. addr - r.start \in (-Space)..(-1)
    BY <1>0, <1>2, <1>3, <1>5 DEF End
  <2>2. (addr - r.start) % Space = addr - r.start + Space
    BY ONLY <1>0, <2>1, WrapsUp
  <2> QED BY <1>0, <1>1, <1>2, <1>3, <1>5, <2>2 DEF End
<1> QED BY <1>2, <1>3, <1>4, <1>5

(* A copy stays in its region, and stops only where the region forbids it.  *)
LEMMA CopyWithin ==
  ASSUME RegionsTypes, ListTrue, NEW r \in Found, NEW cur, cur = Min({left, Bytes(r)})
  PROVE  /\ cur \in Nat /\ cur <= left /\ addr + cur <= Space
         /\ 1 <= addr
         /\ \A i \in 0..(cur - 1) : (addr + i) % Space = addr + i /\ Holds(memory, addr + i, write)
         /\ cur = 0 /\ left >= 1 => ~Holds(memory, addr, write)
<1>0. Space \in Nat /\ Space \in Nat \ {0}
  BY RegionsAssumption
<1>1. r.start <= addr /\ addr < End(r) /\ first + 1 \in 1..Len(cached) /\ r = cached[first + 1]
  BY FoundHolds
<1>2. /\ r.start \in Nat /\ r.size \in Nat /\ r.start >= 1 /\ End(r) \in Nat /\ End(r) <= Space
      /\ r \in Region
  BY <1>1, RegionBounds
<1>3. addr \in Nat /\ addr < Space /\ left \in Nat
  BY <1>0 DEF RegionsTypes, Addrs
<1> DEFINE needed == IF write THEN {"R", "W"} ELSE {"R"}
<1>4. Bytes(r) = IF needed \subseteq r.perm THEN End(r) - addr ELSE 0
  <2>1. r.size - (addr - r.start) \in 0..(Space - 1)
    BY <1>0, <1>1, <1>2, <1>3 DEF End, Region
  <2>2. (r.size - (addr - r.start)) % Space = r.size - (addr - r.start)
    BY ONLY <1>0, <2>1, NoWrap
  <2>3. r.size - (addr - r.start) = End(r) - addr
    BY <1>2, <1>3 DEF End
  <2> QED BY <2>2, <2>3 DEF Bytes
<1>5. \A b \in r.start..(End(r) - 1) : Perm(memory[b]) = r.perm
  BY <1>1 DEF ListTrue
<1>6. \A b \in r.start..(End(r) - 1) : Holds(memory, b, write) <=> needed \subseteq r.perm
  BY <1>5 DEF Holds
<1> HIDE DEF needed
<1>7. Bytes(r) \in Nat
  BY <1>1, <1>2, <1>3, <1>4
<1>8. cur \in {left, Bytes(r)} /\ cur \in Nat /\ cur <= left /\ cur <= Bytes(r)
  BY ONLY <1>3, <1>7, cur = Min({left, Bytes(r)}), MinOfTwo
<1>9. addr + cur <= End(r) /\ (cur # 0 => needed \subseteq r.perm)
  BY <1>1, <1>2, <1>3, <1>4, <1>8
<1>10. \A i \in 0..(cur - 1) : addr + i \in r.start..(End(r) - 1) /\ (addr + i) % Space = addr + i
  <2> SUFFICES ASSUME NEW i \in 0..(cur - 1)
               PROVE  addr + i \in r.start..(End(r) - 1) /\ (addr + i) % Space = addr + i
    OBVIOUS
  <2>1. addr + i \in r.start..(End(r) - 1) /\ addr + i \in 0..(Space - 1)
    BY <1>0, <1>1, <1>2, <1>3, <1>8, <1>9
  <2>2. (addr + i) % Space = addr + i
    BY ONLY <1>0, <2>1, NoWrap
  <2> QED BY <2>1, <2>2
<1>11. \A i \in 0..(cur - 1) : Holds(memory, addr + i, write)
  <2> SUFFICES ASSUME NEW i \in 0..(cur - 1) PROVE Holds(memory, addr + i, write)
    OBVIOUS
  <2>1. cur # 0
    BY <1>8
  <2> QED BY <1>6, <1>9, <1>10, <2>1
<1>12. ASSUME cur = 0, left >= 1 PROVE ~Holds(memory, addr, write)
  <2>1. addr \in r.start..(End(r) - 1)
    BY <1>1, <1>2, <1>3
  <2>2. ~(needed \subseteq r.perm)
    BY <1>1, <1>2, <1>3, <1>4, <1>8, <1>12
  <2> QED BY <1>6, <2>1, <2>2
<1>13. addr + cur <= Space /\ 1 <= addr
  BY <1>0, <1>1, <1>2, <1>3, <1>8, <1>9
<1>14. cur = 0 /\ left >= 1 => ~Holds(memory, addr, write)
  BY <1>12
<1>15. \A i \in 0..(cur - 1) : (addr + i) % Space = addr + i /\ Holds(memory, addr + i, write)
  BY <1>10, <1>11
<1> QED BY ONLY <1>8, <1>13, <1>14, <1>15

(* A copy, and the search for what is left.                                 *)
LEMMA CopySomeInv == RegionsInv /\ CopySome => RegionsInv'
<1> SUFFICES ASSUME RegionsInv, CopySome PROVE RegionsInv'
  OBVIOUS
<1>0. Space \in Nat /\ Space \in Nat \ {0}
  BY RegionsAssumption
<1>1. RegionsTypes /\ ListTrue /\ BeforeKept /\ Sorted /\ Cursor
  BY DEF RegionsInv
<1>2. PICK r \in Found :
        LET cur == Min({left, Bytes(r)}) IN
        /\ addr' = (addr + cur) % Space /\ left' = left - cur /\ copied' = copied + cur
        /\ IF cur = 0 \/ left' = 0 THEN pc' = "idle" /\ SearchIn(<<>>)
           ELSE pc' = "find" /\ SearchIn(cached)
  BY DEF CopySome
<1> DEFINE cur == Min({left, Bytes(r)})
<1>3. /\ memory' = memory /\ before' = before /\ cached' = cached /\ query' = query
      /\ write' = write /\ Searching
      /\ addr' = (addr + cur) % Space /\ left' = left - cur /\ copied' = copied + cur
  BY <1>2 DEF CopySome
<1>4. \/ pc' = "idle" /\ first' = 0 /\ count' = 0
      \/ pc' = "find" /\ cur # 0 /\ left' # 0 /\ first' = 0 /\ count' = Len(cached)
  BY <1>2 DEF SearchIn
<1>5. cur \in Nat /\ cur <= left /\ addr + cur <= Space /\ 1 <= addr
  <2> HIDE DEF cur
  <2>1. cur = Min({left, Bytes(r)})
    BY DEF cur
  <2> QED BY ONLY r \in Found, <1>1, <2>1, CopyWithin
<1> HIDE DEF cur
<1>6. Len(cached) \in Nat
  BY <1>1, LenProperties DEF RegionsTypes
<1>7. addr \in 0..(Space - 1) /\ left \in Nat /\ copied \in Nat
  BY <1>1 DEF RegionsTypes, Addrs
<1>8. \/ addr + cur < Space /\ addr' = addr + cur
      \/ addr + cur = Space /\ addr' = 0
  <2>1. CASE addr + cur < Space
    <3>1. addr + cur \in 0..(Space - 1)
      BY <1>0, <1>5, <1>7, <2>1
    <3>2. (addr + cur) % Space = addr + cur
      BY ONLY <1>0, <3>1, NoWrap
    <3> QED BY <1>3, <2>1, <3>2
  <2>2. CASE addr + cur = Space
    BY ONLY <1>0, <1>3, <2>2, WrapsToZero
  <2> QED BY <1>0, <1>5, <1>7, <2>1, <2>2
<1>9. addr' \in Addrs /\ left' \in Nat /\ copied' \in Nat
  BY <1>0, <1>3, <1>5, <1>7, <1>8 DEF Addrs
<1>10. RegionsTypes'
  BY <1>1, <1>3, <1>4, <1>6, <1>9 DEF RegionsTypes, Searching
<1>11. ListTrue' /\ Sorted' /\ BeforeKept'
  BY <1>1, <1>3 DEF ListTrue, Sorted, End, BeforeKept
<1>12. LoadedSoFar' /\ Halved'
  BY <1>3, <1>4, <1>6 DEF LoadedSoFar, Halved, Searching
<1>13. Cursor'
  <2> SUFFICES ASSUME pc' = "find", cur # 0, left' # 0
               PROVE  /\ left' >= 1 /\ copied' + left' <= Space
                      /\ copied' <= addr' \/ (addr' = 0 /\ copied' >= 1)
    BY <1>4 DEF Cursor
  <2>1. left >= 1 /\ copied + left <= Space /\ (copied <= addr \/ (addr = 0 /\ copied >= 1))
    BY <1>1, <1>3 DEF Cursor, Searching
  <2>2. left' >= 1 /\ copied' + left' = copied + left /\ copied' >= 1
    BY <1>3, <1>5, <1>7, <1>9
  <2> QED BY <1>0, <1>3, <1>5, <1>7, <1>8, <2>1, <2>2
<1> QED BY <1>10, <1>11, <1>12, <1>13 DEF RegionsInv

(* What load_cached_regions makes of a block: nothing, or a list that ends  *)
(* with it.                                                                 *)
LEMMA AbsorbedIs ==
  ASSUME RegionsTypes, ListTrue, NEW q \in Addrs,
         \A i \in 1..Len(cached) : End(cached[i]) <= q,
         NEW r, r = [start |-> Block(q).start, size |-> Block(q).size, perm |-> Perm(memory[q])],
         NEW new, new = Absorbed(cached, r, memory[q])
  PROVE  \/ memory[q] = "unmapped" /\ new = cached
         \/ /\ new \in Seq(Region) /\ Len(new) \in {Len(cached), Len(cached) + 1}
            /\ Len(new) >= 1
            /\ \A i \in 1..(Len(new) - 1) : new[i] = cached[i]
            /\ End(new[Len(new)]) = Block(q).start + Block(q).size
            /\ new[Len(new)].start <= q
            /\ \A b \in new[Len(new)].start..(End(new[Len(new)]) - 1) :
                 memory[b] # "unmapped" /\ Perm(memory[b]) = new[Len(new)].perm
            /\ Len(new) = Len(cached) => new[Len(new)].start = cached[Len(new)].start
<1>0. Space \in Nat /\ Space \in Nat \ {0} /\ 0 \in Addrs /\ Addrs \subseteq Nat
  BY RegionsAssumption DEF Addrs
<1> DEFINE L == Len(cached)
           be == Block(q).start + Block(q).size
<1>1. /\ r.start = Block(q).start /\ r.size = Block(q).size /\ r.perm = Perm(memory[q])
      /\ r.start \in Nat /\ r.size \in Nat /\ be \in Nat
      /\ r.start <= q /\ q < be /\ be <= Space /\ be = r.start + r.size
      /\ \A c \in r.start..(be - 1) : memory[c] = memory[q]
  <2> DEFINE B == Block(q)
  <2>1. /\ B.start \in Addrs /\ B.size \in 1..Space
        /\ B.start <= q /\ q < B.start + B.size /\ B.start + B.size <= Space
        /\ \A c \in B.start..(B.start + B.size - 1) : memory[c] = memory[q]
    BY BlockIs
  <2>2. r = [start |-> B.start, size |-> B.size, perm |-> Perm(memory[q])]
        /\ be = B.start + B.size
    OBVIOUS
  <2> HIDE DEF B, be
  <2>3. r.start = B.start /\ r.size = B.size /\ r.perm = Perm(memory[q])
    BY <2>2
  <2>4. B.start \in Nat /\ B.size \in Nat /\ be \in Nat
    <3>1. B.start \in Nat /\ B.size \in 1..Space /\ Space \in Nat
      BY <1>0, <2>1
    <3> QED BY ONLY <3>1, <2>2
  <2>5. r.start = Block(q).start /\ r.size = Block(q).size
    BY <2>3 DEF B
  <2> QED BY <2>1, <2>2, <2>3, <2>4, <2>5
<1>2. q \in Nat /\ q < Space
  BY <1>0 DEF Addrs
<1>3. L \in Nat /\ cached \in Seq(Region)
  BY LenProperties DEF RegionsTypes
<1> HIDE DEF be, L
<1>4. CASE memory[q] = "unmapped"
  BY <1>4 DEF Absorbed
<1>5. CASE memory[q] # "unmapped"
  <2>1. r.start >= 1 /\ be \in 1..Space
    <3>1. CASE r.start = 0
      <4>1. 0 \in r.start..(be - 1)
        <5>1. be >= 1
          BY <1>1, <1>2, <3>1
        <5> QED BY <1>1, <3>1, <5>1
      <4> QED BY <1>1, <1>5, <4>1 DEF RegionsTypes
    <3> QED BY <1>1, <3>1
  <2>2. r.perm \in SUBSET {"R", "W"}
    BY <1>1 DEF Perm
  <2>3. r \in Region
    <3>1. r.start \in 1..(Space - 1) /\ r.size \in 1..(Space - 1)
      BY <1>0, <1>1, <1>2, <2>1
    <3> QED BY <1>1, <2>2, <3>1 DEF Region
  <2>4. \A c \in r.start..(be - 1) : memory[c] # "unmapped" /\ Perm(memory[c]) = r.perm
    BY <1>1, <1>5
  <2>5. CASE cached # <<>> /\ cached[L].perm = r.perm
             /\ (cached[L].start + cached[L].size) % Space = r.start
    <3>1. new = [cached EXCEPT ![L].size = (@ + r.size) % Space]
      BY <1>5, <2>5 DEF Absorbed, L
    <3>2. L >= 1 /\ L \in 1..Len(cached)
      BY <1>3, <2>5, EmptySeq DEF L
    <3>3. /\ cached[L] \in Region /\ cached[L].start \in Nat /\ cached[L].size \in Nat
          /\ End(cached[L]) \in Nat /\ End(cached[L]) <= q
          /\ cached[L].start >= 1 /\ cached[L].size >= 1
          /\ End(cached[L]) = cached[L].start + cached[L].size
      BY <3>2, RegionBounds DEF End
    <3>4. End(cached[L]) = r.start
      <4>1. End(cached[L]) \in 0..(Space - 1)
        BY <1>0, <1>2, <3>3
      <4>2. End(cached[L]) % Space = End(cached[L])
        BY ONLY <1>0, <4>1, NoWrap
      <4> QED BY <2>5, <3>3, <4>2
    <3> DEFINE sz == cached[L].size + r.size
    <3>5. sz \in 1..(Space - 1) /\ sz \in 0..(Space - 1) /\ cached[L].start + sz = be
      <4> DEFINE u == cached[L].start
                 z == cached[L].size
                 y == r.size
                 x == r.start
      <4>1. u \in Nat /\ u >= 1 /\ z \in Nat /\ z >= 1 /\ y \in Nat /\ x \in Nat /\ u + z = x
            /\ x + y = be /\ be <= Space /\ Space \in Nat
        BY <1>0, <1>1, <3>3, <3>4
      <4> HIDE DEF u, z, y, x
      <4>2. z + y \in 1..(Space - 1) /\ z + y \in 0..(Space - 1) /\ u + (z + y) = be
        BY ONLY <4>1
      <4> QED BY <4>2 DEF u, z, y
    <3>6. sz % Space = sz
      BY ONLY <1>0, <3>5, NoWrap
    <3>7. new = [cached EXCEPT ![L] = [cached[L] EXCEPT !.size = sz]]
      BY <1>3, <3>1, <3>2, <3>6 DEF L
    <3> DEFINE last == [cached[L] EXCEPT !.size = sz]
    <3> HIDE DEF sz
    <3>8. last \in Region /\ last.start = cached[L].start /\ last.size = sz
          /\ last.perm = cached[L].perm
      BY <3>3, <3>5 DEF Region
    <3>9. End(last) = be /\ last.start <= q
      BY <1>2, <3>3, <3>5, <3>8 DEF End
    <3>10. \A b \in last.start..(be - 1) : memory[b] # "unmapped" /\ Perm(memory[b]) = last.perm
      <4> SUFFICES ASSUME NEW b \in last.start..(be - 1)
                   PROVE  memory[b] # "unmapped" /\ Perm(memory[b]) = last.perm
        OBVIOUS
      <4>1. CASE b < r.start
        <5>1. b \in cached[L].start..(End(cached[L]) - 1)
          BY <1>1, <3>3, <3>4, <3>8, <4>1
        <5> QED BY <3>2, <3>8, <5>1 DEF ListTrue
      <4>2. CASE b >= r.start
        <5>1. b \in r.start..(be - 1)
          BY <1>1, <3>3, <3>8, <4>2
        <5> QED BY <2>4, <2>5, <3>8, <5>1
      <4> QED BY <1>1, <3>3, <3>8, <4>1, <4>2
    <3> HIDE DEF last
    <3>11. /\ new \in Seq(Region) /\ Len(new) = L /\ new[L] = last
           /\ \A i \in 1..(L - 1) : new[i] = cached[i]
      <4>1. new = [cached EXCEPT ![L] = last]
        BY <3>7 DEF last
      <4> QED BY <1>3, <3>2, <3>8, <4>1 DEF L
    <3> QED BY <3>2, <3>8, <3>9, <3>10, <3>11 DEF L, be
  <2>6. CASE ~(cached # <<>> /\ cached[L].perm = r.perm
               /\ (cached[L].start + cached[L].size) % Space = r.start)
    <3>1. new = Append(cached, r)
      BY <1>5, <2>6 DEF Absorbed, L
    <3>2. /\ new \in Seq(Region) /\ Len(new) = L + 1 /\ new[L + 1] = r
          /\ \A i \in 1..L : new[i] = cached[i]
      BY <1>3, <2>3, <3>1 DEF L
    <3>3. End(r) = be /\ Len(new) >= 1 /\ Len(new) - 1 = L /\ Len(new) # L
      BY <1>1, <1>3, <3>2 DEF End
    <3>4. /\ new[Len(new)] = r /\ r.start <= q
          /\ \A b \in r.start..(End(r) - 1) : memory[b] # "unmapped" /\ Perm(memory[b]) = r.perm
      BY <1>1, <2>4, <3>2, <3>3
    <3> QED BY <3>2, <3>3, <3>4 DEF L, be
  <2> QED BY <2>5, <2>6
<1> QED BY <1>4, <1>5

(* Loading a block lists every address of it that was mapped when the       *)
(* request came, where the search will find it; the rest stays listed.      *)
LEMMA QueryInv == RegionsInv /\ Query => RegionsInv'
<1> SUFFICES ASSUME RegionsInv, Query PROVE RegionsInv'
  OBVIOUS
<1>0. Space \in Nat /\ Space \in Nat \ {0} /\ Addrs = 0..(Space - 1)
  BY RegionsAssumption DEF Addrs
<1>1. RegionsTypes /\ ListTrue /\ BeforeKept /\ Sorted /\ LoadedSoFar /\ Cursor
  BY DEF RegionsInv
<1> DEFINE r == [start |-> Block(query).start, size |-> Block(query).size,
                 perm |-> Perm(memory[query])]
           new == Absorbed(cached, r, memory[query])
           be == Block(query).start + Block(query).size
<1>2. /\ memory' = memory /\ before' = before /\ addr' = addr /\ left' = left
      /\ copied' = copied /\ write' = write /\ maps' = maps
      /\ pc = "load" /\ cached' = new /\ query' = be % Space
      /\ \/ query' = 0 /\ pc' = "again" /\ first' = 0 /\ count' = Len(new)
         \/ query' # 0 /\ pc' = "load" /\ first' = first /\ count' = count
  BY DEF Query, request, search, SearchIn
<1>3. query \in Addrs /\ query \in Nat /\ query < Space
  BY <1>0, <1>1 DEF RegionsTypes
<1>4. /\ be \in Nat /\ query < be /\ be <= Space
      /\ Block(query).start \in Nat /\ Block(query).start <= query
      /\ \A c \in Block(query).start..(be - 1) : memory[c] = memory[query]
  <2> DEFINE B == Block(query)
  <2>1. /\ B.start \in Addrs /\ B.size \in 1..Space
        /\ B.start <= query /\ query < B.start + B.size /\ B.start + B.size <= Space
        /\ \A c \in B.start..(B.start + B.size - 1) : memory[c] = memory[query]
    BY <1>3, BlockIs
  <2>2. be = B.start + B.size
    OBVIOUS
  <2> HIDE DEF be, B
  <2>3. B.start \in Nat /\ B.size \in 1..Space /\ Space \in Nat
    BY <1>0, <2>1
  <2>4. be \in Nat
    BY ONLY <2>2, <2>3
  <2> QED BY <2>1, <2>2, <2>3, <2>4 DEF B
<1>5. /\ \A i \in 1..Len(cached) : End(cached[i]) <= query
      /\ \A b \in 0..(query - 1) : before[b] # "unmapped" => Listed(cached, b)
  BY <1>1, <1>2 DEF LoadedSoFar
<1>6. \A i \in 1..Len(cached) :
        End(cached[i]) \in Nat /\ cached[i].start \in Nat
  BY <1>1, RegionBounds
<1>7. Len(cached) \in Nat /\ cached \in Seq(Region)
  BY <1>1, LenProperties DEF RegionsTypes
<1> HIDE DEF new
<1>8. \/ memory[query] = "unmapped" /\ new = cached
      \/ /\ new \in Seq(Region) /\ Len(new) \in {Len(cached), Len(cached) + 1}
         /\ Len(new) >= 1
         /\ \A i \in 1..(Len(new) - 1) : new[i] = cached[i]
         /\ End(new[Len(new)]) = be
         /\ new[Len(new)].start <= query
         /\ \A b \in new[Len(new)].start..(End(new[Len(new)]) - 1) :
              memory[b] # "unmapped" /\ Perm(memory[b]) = new[Len(new)].perm
         /\ Len(new) = Len(cached) => new[Len(new)].start = cached[Len(new)].start
  <2> HIDE DEF r
  <2>1. r = [start |-> Block(query).start, size |-> Block(query).size,
             perm |-> Perm(memory[query])]
    BY DEF r
  <2>2. new = Absorbed(cached, r, memory[query])
    BY DEF new
  <2>3. RegionsTypes /\ ListTrue /\ query \in Addrs
    BY <1>1, <1>3
  <2>4. \A i \in 1..Len(cached) : End(cached[i]) <= query
    BY <1>5
  <2> QED BY ONLY <2>1, <2>2, <2>3, <2>4, AbsorbedIs
<1> HIDE DEF be, r
<1>9. /\ new \in Seq(Region) /\ Len(new) \in Nat /\ Len(new) >= Len(cached)
      /\ \A i \in 1..Len(new) : End(new[i]) <= be
  <2>1. CASE memory[query] = "unmapped" /\ new = cached
    BY <1>3, <1>4, <1>5, <1>6, <1>7, <2>1
  <2>2. CASE ~(memory[query] = "unmapped" /\ new = cached)
    <3>1. new \in Seq(Region) /\ Len(new) \in Nat /\ Len(new) >= Len(cached)
      BY <1>7, <1>8, <2>2
    <3>2. \A i \in 1..(Len(new) - 1) : i \in 1..Len(cached) /\ End(new[i]) <= query
      BY <1>5, <1>7, <1>8, <2>2
    <3>3. \A i \in 1..Len(new) : i = Len(new) \/ i \in 1..(Len(new) - 1)
      BY <3>1
    <3>4. \A i \in 1..(Len(new) - 1) : End(new[i]) <= be
      <4> SUFFICES ASSUME NEW i \in 1..(Len(new) - 1) PROVE End(new[i]) <= be
        OBVIOUS
      <4>1. new[i] = cached[i] /\ i \in 1..Len(cached)
        BY <1>8, <2>2, <3>2
      <4>2. End(new[i]) \in Nat /\ End(new[i]) <= query
        BY <1>5, <1>6, <4>1
      <4> QED BY <1>3, <1>4, <4>2
    <3>5. End(new[Len(new)]) <= be
      BY <1>4, <1>8, <2>2
    <3> QED BY <3>1, <3>3, <3>4, <3>5
  <2> QED BY <2>1, <2>2
<1>10. ListTrue'
  <2> SUFFICES ASSUME NEW i \in 1..Len(new)
               PROVE  /\ End(new[i]) <= Space
                      /\ \A b \in new[i].start..(End(new[i]) - 1) :
                           memory[b] # "unmapped" /\ Perm(memory[b]) = new[i].perm
    BY <1>2 DEF ListTrue, End
  <2>1. CASE memory[query] = "unmapped" /\ new = cached
    BY <1>1, <2>1 DEF ListTrue
  <2>2. CASE ~(memory[query] = "unmapped" /\ new = cached) /\ i = Len(new)
    BY <1>4, <1>8, <2>2
  <2>3. CASE ~(memory[query] = "unmapped" /\ new = cached) /\ i # Len(new)
    <3>1. i \in 1..(Len(new) - 1) /\ i \in 1..Len(cached)
      BY <1>7, <1>8, <1>9, <2>3
    <3>2. new[i] = cached[i]
      BY <1>8, <2>3, <3>1
    <3> QED BY <1>1, <3>1, <3>2 DEF ListTrue
  <2> QED BY <2>1, <2>2, <2>3
<1>11. Sorted'
  <2> SUFFICES ASSUME NEW i \in 1..Len(new), NEW j \in 1..Len(new), i < j
               PROVE  End(new[i]) < End(new[j])
    BY <1>2 DEF Sorted, End
  <2>1. CASE memory[query] = "unmapped" /\ new = cached
    BY <1>1, <2>1 DEF Sorted
  <2>2. CASE ~(memory[query] = "unmapped" /\ new = cached)
    <3>1. i \in 1..(Len(new) - 1) /\ i \in 1..Len(cached)
      BY <1>7, <1>8, <1>9, <2>2
    <3>2. new[i] = cached[i] /\ End(new[i]) \in Nat /\ End(new[i]) <= query
      BY <1>5, <1>6, <1>8, <2>2, <3>1
    <3>3. CASE j = Len(new)
      BY <1>3, <1>4, <1>8, <2>2, <3>2, <3>3
    <3>4. CASE j # Len(new)
      <4>1. j \in 1..(Len(new) - 1) /\ j \in 1..Len(cached)
        BY <1>7, <1>8, <1>9, <2>2, <3>4
      <4>2. new[j] = cached[j]
        BY <1>8, <2>2, <4>1
      <4> QED BY <1>1, <3>1, <3>2, <4>1, <4>2 DEF Sorted
    <3> QED BY <3>3, <3>4
  <2> QED BY <2>1, <2>2
<1>12. \A b \in 0..(be - 1) : before[b] # "unmapped" => Listed(new, b)
  <2> SUFFICES ASSUME NEW b \in 0..(be - 1), before[b] # "unmapped"
               PROVE  Listed(new, b)
    OBVIOUS
  <2>0. b \in Addrs /\ memory[b] = before[b] /\ b \in Nat /\ b < be
    <3>1. b \in Addrs
      BY <1>0, <1>4
    <3> QED BY <1>1, <1>4, <3>1 DEF BeforeKept
  <2>1. CASE b < query
    <3>1. b \in 0..(query - 1)
      BY <1>3, <2>0, <2>1
    <3>2. PICK i \in 1..Len(cached) :
            /\ cached[i].start <= b /\ b < End(cached[i])
            /\ \A j \in 1..(i - 1) : End(cached[j]) <= b
      BY <1>5, <3>1 DEF Listed
    <3>3. CASE memory[query] = "unmapped" /\ new = cached
      BY <3>2, <3>3 DEF Listed
    <3>4. CASE ~(memory[query] = "unmapped" /\ new = cached)
      <4>1. i \in 1..Len(new) /\ \A j \in 1..(i - 1) : j \in 1..(Len(new) - 1)
        BY <1>7, <1>9
      <4>2. \A j \in 1..(i - 1) : End(new[j]) <= b
        BY <1>8, <3>2, <3>4, <4>1
      <4>3. CASE i = Len(new)
        <5>1. Len(new) = Len(cached)
          BY <1>7, <1>9, <4>3
        <5>2. new[i].start = cached[i].start /\ End(new[i]) = be
          BY <1>8, <3>4, <4>3, <5>1
        <5> QED BY <2>0, <3>2, <4>1, <4>2, <5>2 DEF Listed
      <4>4. CASE i # Len(new)
        <5>1. i \in 1..(Len(new) - 1)
          BY <1>9, <4>1, <4>4
        <5>2. new[i] = cached[i]
          BY <1>8, <3>4, <5>1
        <5> QED BY <3>2, <4>1, <4>2, <5>2 DEF Listed
      <4> QED BY <4>3, <4>4
    <3> QED BY <3>3, <3>4
  <2>2. CASE query <= b
    <3>1. memory[b] = memory[query]
      BY <1>3, <1>4, <2>0, <2>2
    <3>2. ~(memory[query] = "unmapped" /\ new = cached)
      BY <2>0, <3>1
    <3>3. Len(new) \in 1..Len(new)
      BY <1>8, <1>9, <3>2
    <3>4. new[Len(new)] \in Region
      BY <1>9, <3>3
    <3>5. new[Len(new)].start <= b /\ b < End(new[Len(new)])
      <4>1. new[Len(new)].start \in Nat
        BY <1>0, <3>4 DEF Region
      <4> QED BY <1>3, <1>8, <2>0, <2>2, <3>2, <4>1
    <3>6. \A j \in 1..(Len(new) - 1) : End(new[j]) <= b
      <4> SUFFICES ASSUME NEW j \in 1..(Len(new) - 1) PROVE End(new[j]) <= b
        OBVIOUS
      <4>1. j \in 1..Len(cached)
        BY <1>7, <1>8, <3>2
      <4>2. new[j] = cached[j]
        BY <1>8, <3>2
      <4>3. End(new[j]) \in Nat /\ End(new[j]) <= query
        BY <1>5, <1>6, <4>1, <4>2
      <4> QED BY <1>3, <2>0, <2>2, <4>3
    <3> QED BY <3>3, <3>5, <3>6 DEF Listed
  <2> QED BY <1>3, <2>0, <2>1, <2>2
<1>13. \/ query' = be /\ be # 0 /\ be < Space /\ pc' = "load"
       \/ query' = 0 /\ be = Space /\ pc' = "again"
  <2>1. CASE be < Space
    <3>1. be \in 0..(Space - 1)
      BY <1>0, <1>4, <2>1
    <3>2. be % Space = be
      BY ONLY <1>0, <3>1, NoWrap
    <3>3. be # 0
      BY <1>3, <1>4
    <3> QED BY <1>2, <2>1, <3>2, <3>3
  <2>2. CASE be = Space
    <3>1. be % Space = 0
      BY ONLY <1>0, <2>2, WrapsToZero
    <3> QED BY <1>2, <2>2, <3>1
  <2> QED BY <1>0, <1>4, <2>1, <2>2
<1>14. first \in Nat /\ count \in Nat /\ first + count <= Len(cached)
  BY <1>1 DEF RegionsTypes
<1>15. RegionsTypes'
  <2>1. query' \in Addrs /\ (pc' # "load" => query' = 0)
    BY <1>0, <1>4, <1>13
  <2>2. first' \in Nat /\ count' \in Nat /\ first' + count' <= Len(new)
    BY <1>2, <1>7, <1>9, <1>14
  <2> QED BY <1>1, <1>2, <1>9, <1>13, <2>1, <2>2 DEF RegionsTypes
<1>16. LoadedSoFar'
  <2>1. pc' = "load" => query' = be
    BY <1>13
  <2>2. pc' = "again" => Addrs = 0..(be - 1)
    BY <1>0, <1>13
  <2> QED BY <1>2, <1>9, <1>12, <2>1, <2>2 DEF LoadedSoFar, Listed, End
<1>17. Halved'
  <2>1. pc' = "again" => first' = 0 /\ count' = Len(new)
    BY <1>2
  <2> QED BY <1>2, <1>9, <1>13, <2>1 DEF Halved, Searching
<1>18. BeforeKept' /\ Cursor'
  BY <1>1, <1>2, <1>13 DEF BeforeKept, Cursor
<1> QED BY <1>10, <1>11, <1>15, <1>16, <1>17, <1>18 DEF RegionsInv

(* Whatever happens, the list says what is so, loading misses nothing, and  *)
(* a search has excluded only regions that do not hold the address.         *)
LEMMA RegionsNextInv == RegionsInv /\ [RegionsNext]_regionVars => RegionsInv'
<1> SUFFICES ASSUME RegionsInv, [RegionsNext]_regionVars PROVE RegionsInv'
  OBVIOUS
<1>1. CASE UNCHANGED regionVars
  BY <1>1 DEF regionVars, search, request, RegionsInv, RegionsTypes, ListTrue, BeforeKept,
              Sorted, LoadedSoFar, Listed, Halved, Searching, Cursor, End
<1>2. CASE \E lo, hi \in 1..(Space - 2), k \in Mappable : lo <= hi /\ Map(lo, hi, k)
  BY <1>2, MapInv
<1>3. CASE \E a \in Addrs, n \in Sizes, w \in BOOLEAN : SafeMemcpy(a, n, w)
  BY <1>3, SafeMemcpyInv
<1>4. CASE Reload \/ Query \/ Halve \/ CopySome \/ GiveUp
  BY <1>4, ReloadInv, QueryInv, HalveInv, CopySomeInv, GiveUpInv
<1> QED BY <1>1, <1>2, <1>3, <1>4 DEF RegionsNext

(* The cached list is true of the memory, whatever the game has mapped      *)
(* since it was loaded, and complete for what was mapped when the request   *)
(* came (mem_regions, serve.cpp:99-175).                                    *)
THEOREM RegionsInvariant == RegionsSpec => []RegionsInv
<1>1. RegionsInit => RegionsInv
  BY RegionsInitInv
<1>2. RegionsInv /\ [RegionsNext]_regionVars => RegionsInv'
  BY RegionsNextInv
<1> QED BY <1>1, <1>2, PTL DEF RegionsSpec

(* A step that does not add to the number of copied bytes copies none.      *)
LEMMA NoneCopied ==
  ASSUME NEW m \in Nat, NEW n \in Nat, m <= n
  PROVE  0..(m - n - 1) = {}
  OBVIOUS

(* Every byte that safe_memcpy copies is in memory that allows it.          *)
THEOREM CopiesOnlyAllowed == RegionsSpec => CopiesAllowed
<1> DEFINE Allowed == \A i \in 0..(copied' - copied - 1) : Holds(memory, (addr + i) % Space, write)
<1>1. RegionsInv /\ [RegionsNext]_regionVars => [Allowed]_regionVars
  <2> SUFFICES ASSUME RegionsInv, RegionsNext PROVE Allowed
    OBVIOUS
  <2>0. RegionsTypes /\ ListTrue /\ copied \in Nat
    BY DEF RegionsInv, RegionsTypes
  <2>1. CASE copied' \in Nat /\ copied' <= copied
    <3>1. copied \in Nat /\ copied' \in Nat /\ copied' <= copied
      BY <2>0, <2>1
    <3>2. 0..(copied' - copied - 1) = {}
      BY ONLY <3>1, NoneCopied
    <3> QED BY <3>2
  <2>2. CASE CopySome
    <3>1. PICK r \in Found : copied' = copied + Min({left, Bytes(r)})
      BY <2>2 DEF CopySome
    <3> DEFINE cur == Min({left, Bytes(r)})
    <3>2. cur \in Nat /\ \A i \in 0..(cur - 1) :
            (addr + i) % Space = addr + i /\ Holds(memory, addr + i, write)
      <4> HIDE DEF cur
      <4>1. cur = Min({left, Bytes(r)})
        BY DEF cur
      <4> QED BY ONLY r \in Found, <2>0, <4>1, CopyWithin
    <3> HIDE DEF cur
    <3>3. copied' = copied + cur
      BY <3>1 DEF cur
    <3>4. copied' - copied - 1 = cur - 1
      BY ONLY <2>0, <3>2, <3>3
    <3> QED BY <3>2, <3>4
  <2>3. CASE \E lo, hi \in 1..(Space - 2), k \in Mappable : lo <= hi /\ Map(lo, hi, k)
    <3>1. copied' = copied
      BY <2>3 DEF Map, request
    <3> QED BY <2>0, <2>1, <3>1
  <2>4. CASE \E a \in Addrs, n \in Sizes, w \in BOOLEAN : SafeMemcpy(a, n, w)
    <3>1. copied' = 0
      BY <2>4 DEF SafeMemcpy
    <3> QED BY <2>0, <2>1, <3>1
  <2>5. CASE Reload \/ Query \/ Halve \/ GiveUp
    <3>1. copied' = copied
      BY <2>5 DEF Reload, Query, Halve, GiveUp, request
    <3> QED BY <2>0, <2>1, <3>1
  <2> QED BY <2>2, <2>3, <2>4, <2>5 DEF RegionsNext
<1> QED BY <1>1, RegionsInvariant, PTL DEF RegionsSpec, CopiesAllowed

(* What a request could reach ends where it may not read or write.          *)
LEMMA ReachableEnds ==
  ASSUME NEW a \in Nat, NEW n \in Nat, NEW w
  PROVE  /\ Reachable(a, n, w) \in 0..n
         /\ \A c \in 0..(n - 1) :
              ~(a + c < Space /\ Holds(before, a + c, w)) => Reachable(a, n, w) <= c
<1> DEFINE Ok(i) == a + i < Space /\ Holds(before, a + i, w)
           T == {l \in 0..n : l < n => ~Ok(l)}
<1> HIDE DEF Ok
<1>1. T \subseteq Nat /\ n \in T
  OBVIOUS
<1>2. PICK m \in T : \A l \in T : m <= l
  BY ONLY <1>1, NatLeast
<1>3. m \in 0..n /\ (m < n => ~Ok(m)) /\ \A i \in 0..(m - 1) : Ok(i)
  <2>1. m \in 0..n
    OBVIOUS
  <2>2. \A i \in 0..(m - 1) : i \in 0..n /\ i < n /\ ~(m <= i)
    BY <2>1
  <2> QED BY <1>2, <2>1, <2>2
<1>4. \E l \in 0..n : (\A i \in 0..(l - 1) : Ok(i)) /\ (l < n => ~Ok(l))
  BY <1>3
<1>5. Reachable(a, n, w) = CHOOSE l \in 0..n : (\A i \in 0..(l - 1) : Ok(i)) /\ (l < n => ~Ok(l))
  BY DEF Reachable, Ok
<1> DEFINE R == Reachable(a, n, w)
<1>6. R \in 0..n /\ \A i \in 0..(R - 1) : Ok(i)
  BY <1>4, <1>5
<1> HIDE DEF R
<1>7. ASSUME NEW c \in 0..(n - 1), ~Ok(c), ~(R <= c) PROVE FALSE
  <2>1. c \in 0..(R - 1)
    BY <1>6, <1>7
  <2> QED BY <1>6, <1>7, <2>1
<1> QED BY <1>6, <1>7 DEF R, Ok

(* A request ends only where it has all it asked for, or is at an address   *)
(* that did not allow more when it came, or in the region next below the    *)
(* topmost one, when the search has compared that: loading and searching    *)
(* miss nothing else that was mapped (serve.cpp:99-175).                    *)
THEOREM MappedMemoryFound == RegionsSpec => MappedIsFound
<1> DEFINE Enough ==
      pc # "idle" /\ pc' = "idle" => FoundAll \/ HiddenByTop
<1>1. RegionsInv /\ [RegionsNext]_regionVars => [Enough]_regionVars
  <2> SUFFICES ASSUME RegionsInv, RegionsNext, pc # "idle", pc' = "idle", ~HiddenByTop
               PROVE  copied' >= Reachable((addr - copied) % Space, copied + left, write)
    BY DEF FoundAll
  <2>0. Space \in Nat /\ Space \in Nat \ {0}
    BY RegionsAssumption
  <2>1. RegionsTypes /\ ListTrue /\ BeforeKept /\ Sorted /\ LoadedSoFar /\ Halved
    BY DEF RegionsInv
  <2>2. /\ addr \in 0..(Space - 1) /\ addr \in Addrs /\ left \in Nat /\ copied \in Nat
        /\ left >= 1 /\ copied + left <= Space
        /\ copied <= addr \/ (addr = 0 /\ copied >= 1)
    BY DEF RegionsInv, RegionsTypes, Addrs, Cursor
  <2> DEFINE a == (addr - copied) % Space
             n == copied + left
             R == Reachable(a, n, write)
  <2>3. a \in Nat /\ \/ a + copied = addr
                     \/ addr = 0 /\ a + copied = Space
    <3>1. CASE copied <= addr
      <4>1. addr - copied \in 0..(Space - 1)
        BY <2>0, <2>2, <3>1
      <4>2. (addr - copied) % Space = addr - copied
        BY ONLY <2>0, <4>1, NoWrap
      <4> QED BY <2>2, <4>1, <4>2
    <3>2. CASE addr = 0 /\ copied >= 1
      <4>1. addr - copied \in (-Space)..(-1)
        BY <2>0, <2>2, <3>2
      <4>2. (addr - copied) % Space = addr - copied + Space
        BY ONLY <2>0, <4>1, WrapsUp
      <4>3. a = Space - copied
        BY <2>0, <2>2, <3>2, <4>2
      <4> QED BY <2>0, <2>2, <3>2, <4>3
    <3> QED BY <2>2, <3>1, <3>2
  <2> HIDE DEF a
  <2>4. n \in Nat /\ copied \in 0..(n - 1)
    BY <2>2
  <2> HIDE DEF n
  <2>5. /\ R \in 0..n
        /\ ~(a + copied < Space /\ Holds(before, a + copied, write)) => R <= copied
    BY ONLY <2>3, <2>4, ReachableEnds
  <2> HIDE DEF R
  <2>6. Holds(before, addr, write) => before[addr] # "unmapped" /\ Holds(memory, addr, write)
    <3>1. Holds(before, addr, write) => before[addr] # "unmapped"
      BY DEF Holds, Perm
    <3>2. before[addr] # "unmapped" => memory[addr] = before[addr]
      BY <2>1, <2>2 DEF BeforeKept
    <3> QED BY <3>1, <3>2 DEF Holds
  <2>7. ASSUME copied' = copied, Holds(before, addr, write) => addr = 0 /\ a + copied = Space
        PROVE  copied' >= R
    <3>1. CASE a + copied = Space
      BY <2>0, <2>2, <2>4, <2>5, <2>7, <3>1
    <3>2. CASE a + copied # Space
      <4>1. a + copied = addr /\ ~Holds(before, addr, write)
        BY <2>3, <2>7, <3>2
      <4> QED BY <2>2, <2>4, <2>5, <2>7, <4>1
    <3> QED BY <3>1, <3>2
  <2>8. CASE CopySome
    <3>1. PICK r \in Found :
            LET cur == Min({left, Bytes(r)}) IN
            /\ left' = left - cur /\ copied' = copied + cur
            /\ cur = 0 \/ left' = 0
      BY <2>8 DEF CopySome
    <3> DEFINE cur == Min({left, Bytes(r)})
    <3>2. cur \in Nat /\ cur <= left /\ (cur = 0 /\ left >= 1 => ~Holds(memory, addr, write))
      <4> HIDE DEF cur
      <4>1. cur = Min({left, Bytes(r)})
        BY DEF cur
      <4> QED BY ONLY r \in Found, <2>1, <4>1, CopyWithin
    <3>3. left' = left - cur /\ copied' = copied + cur /\ (cur = 0 \/ left' = 0)
      BY <3>1
    <3> HIDE DEF cur
    <3>4. CASE left' = 0
      <4>1. copied' = n
        BY <2>2, <3>2, <3>3, <3>4 DEF n
      <4> QED BY <2>4, <2>5, <4>1 DEF R, a, n
    <3>5. CASE cur = 0
      <4>1. copied' = copied /\ ~Holds(before, addr, write)
        BY <2>2, <2>6, <3>2, <3>3, <3>5
      <4> QED BY <2>7, <4>1 DEF R, a, n
    <3> QED BY <3>3, <3>4, <3>5
  <2>9. CASE GiveUp
    <3>1. copied' = copied /\ pc = "again" /\ count = 0 /\ Found = {} /\ Searching
      BY <2>9 DEF GiveUp, request, Searching
    <3>2. ASSUME Holds(before, addr, write) PROVE FALSE
      <4>0. /\ first \in Nat /\ first <= Len(cached) /\ Len(cached) \in Nat
            /\ cached \in Seq(Region)
            /\ \A j \in 1..first :
                 End(cached[j]) <= addr \/ (first = Len(cached) /\ j >= Len(cached) - 1)
            /\ \A j \in (first + 1)..Len(cached) : addr < End(cached[j])
        BY <2>1, <3>1, LenProperties DEF RegionsTypes, Halved
      <4>1. PICK i \in 1..Len(cached) :
              /\ cached[i].start <= addr /\ addr < End(cached[i])
              /\ \A j \in 1..(i - 1) : End(cached[j]) <= addr
        BY <2>1, <2>2, <2>6, <3>1, <3>2 DEF LoadedSoFar, Listed
      <4>3. \A j \in 1..Len(cached) : End(cached[j]) \in Nat
        BY <2>1, RegionBounds
      <4>4. CASE first < Len(cached)
        <5>1. i = first + 1
          <6>1. CASE i <= first
            <7>1. End(cached[i]) <= addr
              BY <4>0, <4>4, <6>1
            <7> QED BY <2>2, <4>1, <4>3, <7>1
          <6>2. CASE first + 1 < i
            <7>1. first + 1 \in 1..(i - 1) /\ first + 1 \in (first + 1)..Len(cached)
                  /\ first + 1 \in 1..Len(cached)
              BY <4>0, <6>2
            <7>2. End(cached[first + 1]) <= addr /\ addr < End(cached[first + 1])
              BY <4>0, <4>1, <7>1
            <7> QED BY <2>2, <4>3, <7>1, <7>2
          <6> QED BY <4>0, <6>1, <6>2
        <5>2. /\ cached[i].start \in Nat /\ cached[i].size \in Nat
              /\ End(cached[i]) = cached[i].start + cached[i].size
          BY <2>1, RegionBounds DEF End
        <5>3. addr - cached[i].start \in 0..(Space - 1) /\ addr - cached[i].start < cached[i].size
          BY <2>0, <2>2, <4>1, <5>2
        <5>4. (addr - cached[i].start) % Space = addr - cached[i].start
          BY ONLY <2>0, <5>3, NoWrap
        <5>5. cached[i] \in Found
          BY <4>0, <5>1, <5>3, <5>4 DEF Found
        <5> QED BY <3>1, <5>5
      <4>5. CASE first = Len(cached)
        <5>1. i >= Len(cached) - 1
          <6>1. End(cached[i]) <= addr \/ i >= Len(cached) - 1
            BY <4>0, <4>5
          <6> QED BY <2>2, <4>1, <4>3, <6>1
        <5>2. i = Len(cached)
          <6>1. ~(i = Len(cached) - 1)
            BY <4>0, <4>1, <4>5 DEF HiddenByTop, End
          <6> QED BY <4>0, <5>1, <6>1
        <5>3. End(cached[i]) = Space
          <6>1. Space - 1 \in Addrs /\ before[Space - 1] = "reserved"
            BY <2>1, RegionsAssumption DEF RegionsTypes, Addrs
          <6>2. PICK k \in 1..Len(cached) : Space - 1 < End(cached[k])
            BY <2>1, <3>1, <6>1 DEF LoadedSoFar, Listed
          <6>3. End(cached[k]) <= Space /\ End(cached[k]) \in Nat
            BY <2>1, RegionBounds
          <6>4. End(cached[k]) = Space
            BY <2>0, <6>2, <6>3
          <6>5. k = i
            <7>1. ASSUME k < i PROVE FALSE
              <8>1. End(cached[k]) < End(cached[i]) /\ End(cached[i]) <= Space
                BY <2>1, <7>1, RegionBounds DEF Sorted
              <8> QED BY <2>0, <4>3, <6>4, <8>1
            <7> QED BY <4>0, <5>2, <7>1
          <6> QED BY <6>4, <6>5
        <5>4. Perm(memory[Space - 1]) = cached[i].perm /\ Perm(memory[addr]) = cached[i].perm
          <6>1. Space - 1 \in cached[i].start..(End(cached[i]) - 1)
                /\ addr \in cached[i].start..(End(cached[i]) - 1)
            BY <2>0, <2>1, <2>2, <4>1, <5>3, RegionBounds
          <6> QED BY <2>1, <6>1 DEF ListTrue
        <5>5. Perm(memory[addr]) = {}
          BY <2>1, <5>4 DEF RegionsTypes, Perm
        <5> QED BY <2>6, <3>2, <5>5 DEF Holds
      <4> QED BY <4>0, <4>4, <4>5
    <3>3. ~Holds(before, addr, write)
      BY <3>2
    <3> QED BY <2>7, <3>1, <3>3 DEF R, a, n
  <2>10. CASE \E lo, hi \in 1..(Space - 2), k \in Mappable : lo <= hi /\ Map(lo, hi, k)
    <3>1. pc' = pc
      BY <2>10 DEF Map
    <3> QED BY <3>1
  <2>11. CASE \E b \in Addrs, m \in Sizes, w \in BOOLEAN : SafeMemcpy(b, m, w)
    BY <2>11 DEF SafeMemcpy
  <2>12. CASE Reload \/ Query \/ Halve
    <3>1. pc' # "idle"
      BY <2>12 DEF Reload, Query, Halve, Searching
    <3> QED BY <3>1
  <2> QED BY <2>8, <2>9, <2>10, <2>11, <2>12 DEF RegionsNext
<1> QED BY <1>1, RegionsInvariant, PTL DEF RegionsSpec, MappedIsFound
=============================================================================
