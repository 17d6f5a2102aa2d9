------------------------------ MODULE WebProofs ------------------------------
(***************************************************************************)
(* Proofs about the web client's connection, for every set of requests and *)
(* any number of sockets.  WebInv is inductive as the run checks it.       *)
(***************************************************************************)
EXTENDS WebConn, SequenceTheorems, TLAPS

-----------------------------------------------------------------------------
(* Queues without repetitions.                                               *)

LEMMA Members ==
  ASSUME NEW S, NEW q \in Seq(S)
  PROVE  /\ Len(q) \in Nat /\ DOMAIN q = 1..Len(q)
         /\ \A x : x \in Range(q) <=> \E i \in 1..Len(q) : q[i] = x
  BY LenProperties DEF Range

LEMMA EmptyQueue == Distinct(<<>>) /\ Range(<<>>) = {}
  BY DEF Distinct, Range

LEMMA AppendDistinct ==
  ASSUME NEW S, NEW q \in Seq(S), NEW x \in S, Distinct(q), x \notin Range(q)
  PROVE  /\ Append(q, x) \in Seq(S) /\ Distinct(Append(q, x))
         /\ Range(Append(q, x)) = Range(q) \cup {x}
         /\ \A y : y # x => \A i \in DOMAIN Append(q, x) : Append(q, x)[i] = y => i \in DOMAIN q /\ q[i] = y
  <1> DEFINE a == Append(q, x)
  <1>1. /\ a \in Seq(S) /\ Len(a) = Len(q) + 1 /\ a[Len(q) + 1] = x
        /\ \A i \in 1..Len(q) : a[i] = q[i]
    BY AppendProperties
  <1> HIDE DEF a
  <1>2. /\ Len(q) \in Nat /\ DOMAIN q = 1..Len(q)
        /\ \A y : y \in Range(q) <=> \E i \in 1..Len(q) : q[i] = y
    BY Members
  <1>3. /\ DOMAIN a = 1..Len(a)
        /\ \A y : y \in Range(a) <=> \E i \in 1..Len(a) : a[i] = y
    BY <1>1, Members
  <1>4. \A i \in 1..Len(a) : i \in 1..Len(q) \/ i = Len(q) + 1  BY <1>1, <1>2
  <1>5. \A i \in 1..Len(q) : i \in 1..Len(a)  BY <1>1, <1>2
  <1>6. Len(q) + 1 \in 1..Len(a)  BY <1>1, <1>2
  <1>7. Distinct(a)
    <2> SUFFICES ASSUME NEW i \in 1..Len(a), NEW j \in 1..Len(a), a[i] = a[j] PROVE i = j
      BY <1>3 DEF Distinct
    <2>1. \A k \in 1..Len(q) : a[k] # x  BY <1>1, <1>2
    <2> QED  BY <2>1, <1>1, <1>2, <1>4 DEF Distinct
  <1>8. \A y : y \in Range(a) <=> y \in Range(q) \/ y = x
    <2> SUFFICES ASSUME NEW y PROVE y \in Range(a) <=> y \in Range(q) \/ y = x  OBVIOUS
    <2>1. ASSUME y \in Range(a) PROVE y \in Range(q) \/ y = x
      BY <2>1, <1>1, <1>2, <1>3, <1>4
    <2>2. ASSUME y \in Range(q) PROVE y \in Range(a)  BY <2>2, <1>1, <1>2, <1>3, <1>5
    <2>3. x \in Range(a)  BY <1>1, <1>3, <1>6
    <2> QED  BY <2>1, <2>2, <2>3
  <1>9. \A y : y # x => \A i \in DOMAIN a : a[i] = y => i \in DOMAIN q /\ q[i] = y
    BY <1>1, <1>2, <1>3, <1>4
  <1> QED  BY <1>1, <1>7, <1>8, <1>9 DEF a

LEMMA ConsDistinct ==
  ASSUME NEW S, NEW q \in Seq(S), NEW x \in S, Distinct(q), x \notin Range(q)
  PROVE  /\ <<x>> \o q \in Seq(S) /\ Distinct(<<x>> \o q)
         /\ Range(<<x>> \o q) = Range(q) \cup {x}
         /\ \A i \in DOMAIN (<<x>> \o q) : (<<x>> \o q)[i] = x => i = 1
  <1> DEFINE a == <<x>> \o q
  <1>1. <<x>> \in Seq(S) /\ Len(<<x>>) = 1 /\ <<x>>[1] = x  OBVIOUS
  <1>2. /\ Len(q) \in Nat /\ DOMAIN q = 1..Len(q)
        /\ \A y : y \in Range(q) <=> \E i \in 1..Len(q) : q[i] = y
    BY Members
  <1>3. /\ a \in Seq(S) /\ Len(a) = 1 + Len(q)
        /\ \A i \in 1..(1 + Len(q)) : a[i] = IF i <= 1 THEN <<x>>[i] ELSE q[i - 1]
    BY <1>1, ConcatProperties
  <1> HIDE DEF a
  <1>4. /\ DOMAIN a = 1..Len(a)
        /\ \A y : y \in Range(a) <=> \E i \in 1..Len(a) : a[i] = y
    BY <1>3, Members
  <1>5. a[1] = x /\ 1 \in 1..Len(a)  BY <1>1, <1>2, <1>3
  <1>6. \A i \in 1..Len(a) : i = 1 \/ (i - 1 \in 1..Len(q) /\ a[i] = q[i - 1])  BY <1>2, <1>3
  <1>7. \A i \in 1..Len(q) : i + 1 \in 1..Len(a) /\ a[i + 1] = q[i]  BY <1>2, <1>3
  <1>8. \A i \in 1..Len(a) : a[i] = x => i = 1  BY <1>2, <1>6
  <1>9. Distinct(a)
    <2> SUFFICES ASSUME NEW i \in 1..Len(a), NEW j \in 1..Len(a), a[i] = a[j] PROVE i = j
      BY <1>4 DEF Distinct
    <2>1. CASE i = 1 \/ j = 1  BY <2>1, <1>5, <1>8
    <2>2. CASE i # 1 /\ j # 1
      <3>1. i - 1 \in DOMAIN q /\ j - 1 \in DOMAIN q /\ q[i - 1] = q[j - 1]  BY <2>2, <1>2, <1>6
      <3>2. i - 1 = j - 1  BY <3>1 DEF Distinct
      <3> QED  BY <3>2, <1>2, <1>3
    <2> QED  BY <2>1, <2>2
  <1>10. \A y : y \in Range(a) <=> y \in Range(q) \/ y = x
    <2> SUFFICES ASSUME NEW y PROVE y \in Range(a) <=> y \in Range(q) \/ y = x  OBVIOUS
    <2>1. ASSUME y \in Range(a) PROVE y \in Range(q) \/ y = x  BY <2>1, <1>2, <1>4, <1>5, <1>6
    <2>2. ASSUME y \in Range(q) PROVE y \in Range(a)  BY <2>2, <1>2, <1>4, <1>7
    <2>3. x \in Range(a)  BY <1>4, <1>5
    <2> QED  BY <2>1, <2>2, <2>3
  <1> QED  BY <1>3, <1>4, <1>8, <1>9, <1>10 DEF a

LEMMA TailDistinct ==
  ASSUME NEW S, NEW q \in Seq(S), q # <<>>, Distinct(q)
  PROVE  /\ Tail(q) \in Seq(S) /\ Head(q) \in S /\ Distinct(Tail(q))
         /\ Head(q) \in Range(q) /\ Range(Tail(q)) = Range(q) \ {Head(q)}
         /\ \A y : (\A i \in DOMAIN q : q[i] = y => i = 1) => y \notin Range(Tail(q))
  <1> DEFINE a == Tail(q)
  <1>1. /\ a \in Seq(S) /\ Head(q) \in S /\ Len(a) = Len(q) - 1
        /\ \A i \in 1..Len(a) : a[i] = q[i + 1]
    BY HeadTailProperties
  <1>2. Head(q) = q[1] /\ Len(q) # 0  BY EmptySeq
  <1> HIDE DEF a
  <1>3. /\ Len(q) \in Nat /\ DOMAIN q = 1..Len(q)
        /\ \A y : y \in Range(q) <=> \E i \in 1..Len(q) : q[i] = y
    BY Members
  <1>4. /\ DOMAIN a = 1..Len(a)
        /\ \A y : y \in Range(a) <=> \E i \in 1..Len(a) : a[i] = y
    BY <1>1, Members
  <1>5. \A i \in 1..Len(a) : i + 1 \in 1..Len(q) /\ i + 1 # 1  BY <1>1, <1>3
  <1>6. \A i \in 1..Len(q) : i = 1 \/ (i - 1 \in 1..Len(a) /\ a[i - 1] = q[i])  BY <1>1, <1>3
  <1>7. 1 \in 1..Len(q)  BY <1>2, <1>3
  <1>8. Distinct(a)
    <2> SUFFICES ASSUME NEW i \in 1..Len(a), NEW j \in 1..Len(a), a[i] = a[j] PROVE i = j
      BY <1>4 DEF Distinct
    <2>1. i + 1 = j + 1  BY <1>1, <1>3, <1>5 DEF Distinct
    <2> QED  BY <2>1, <1>1, <1>3
  <1>9. \A y : y \in Range(a) <=> y \in Range(q) /\ y # Head(q)
    <2> SUFFICES ASSUME NEW y PROVE y \in Range(a) <=> y \in Range(q) /\ y # Head(q)  OBVIOUS
    <2>1. ASSUME y \in Range(a) PROVE y \in Range(q) /\ y # Head(q)
      BY <2>1, <1>1, <1>2, <1>3, <1>4, <1>5, <1>7 DEF Distinct
    <2>2. ASSUME y \in Range(q), y # Head(q) PROVE y \in Range(a)
      BY <2>2, <1>2, <1>3, <1>4, <1>6
    <2> QED  BY <2>1, <2>2
  <1>10. \A y : (\A i \in DOMAIN q : q[i] = y => i = 1) => y \notin Range(a)
    BY <1>1, <1>3, <1>4, <1>5
  <1> QED  BY <1>1, <1>2, <1>3, <1>7, <1>8, <1>9, <1>10 DEF a

(* Joining three queues; the front of one.                                   *)
LEMMA Grouped ==
  ASSUME NEW S, NEW s \in Seq(S), NEW t \in Seq(S), NEW u \in Seq(S)
  PROVE  (s \o t) \o u = s \o (t \o u) /\ s \o t \in Seq(S) /\ t \o u \in Seq(S)
  BY ConcatAssociative, ConcatProperties, SMTT(30)

LEMMA PutInFront ==
  ASSUME NEW S, NEW x \in S, NEW q \in Seq(S)
  PROVE  /\ <<x>> \in Seq(S) /\ <<x>> \o q \in Seq(S) /\ Len(<<x>> \o q) = Len(q) + 1
         /\ Len(q) \in Nat /\ (<<x>> \o q)[1] = x
         /\ \A i \in 1..Len(q) : (<<x>> \o q)[i + 1] = q[i]
  <1>1. <<x>> \in Seq(S) /\ Len(<<x>>) = 1 /\ <<x>>[1] = x  OBVIOUS
  <1>2. Len(q) \in Nat  BY LenProperties
  <1>3. /\ <<x>> \o q \in Seq(S) /\ Len(<<x>> \o q) = 1 + Len(q)
        /\ \A i \in 1..(1 + Len(q)) :
             (<<x>> \o q)[i] = IF i <= 1 THEN <<x>>[i] ELSE q[i - 1]
    BY <1>1, ConcatProperties
  <1>4. (<<x>> \o q)[1] = x  BY <1>1, <1>2, <1>3
  <1>5. ASSUME NEW i \in 1..Len(q) PROVE (<<x>> \o q)[i + 1] = q[i]
    <2>1. i + 1 \in 1..(1 + Len(q)) /\ ~(i + 1 <= 1) /\ (i + 1) - 1 = i  BY <1>2
    <2>2. (<<x>> \o q)[i + 1] = q[(i + 1) - 1]  BY <1>3, <2>1
    <2> QED  BY <2>1, <2>2
  <1> QED  BY <1>1, <1>2, <1>3, <1>4, <1>5

LEMMA FrontOf ==
  ASSUME NEW S, NEW x \in S, NEW q \in Seq(S)
  PROVE  /\ <<x>> \in Seq(S) /\ <<x>> \o q \in Seq(S) /\ <<x>> \o q # <<>>
         /\ Head(<<x>> \o q) = x /\ Tail(<<x>> \o q) = q
  <1> DEFINE a == <<x>> \o q
  <1>1. <<x>> \in Seq(S) /\ Len(<<x>>) = 1 /\ <<x>>[1] = x  OBVIOUS
  <1>2. Len(q) \in Nat  BY LenProperties
  <1>3. /\ a \in Seq(S) /\ Len(a) = 1 + Len(q)
        /\ \A i \in 1..(1 + Len(q)) : a[i] = IF i <= 1 THEN <<x>>[i] ELSE q[i - 1]
    BY <1>1, ConcatProperties
  <1> HIDE DEF a
  <1>4. a # <<>>  BY <1>2, <1>3, EmptySeq
  <1>5. /\ Head(a) = a[1] /\ Tail(a) \in Seq(S) /\ Len(Tail(a)) = Len(q)
        /\ \A i \in 1..Len(Tail(a)) : Tail(a)[i] = a[i + 1]
    BY <1>2, <1>3, <1>4, HeadTailProperties
  <1>6. \A i \in 1..Len(q) : Tail(a)[i] = q[i]  BY <1>2, <1>3, <1>5
  <1>7. Tail(a) = q  BY <1>5, <1>6, SeqEqual
  <1>8. Head(a) = x  BY <1>1, <1>2, <1>3, <1>5
  <1> QED  BY <1>1, <1>3, <1>4, <1>7, <1>8 DEF a

LEMMA FrontAndRest ==
  ASSUME NEW S, NEW s \in Seq(S), s # <<>>
  PROVE  <<Head(s)>> \o Tail(s) = s /\ Head(s) \in S /\ Tail(s) \in Seq(S)
  <1>1. /\ Head(s) \in S /\ Tail(s) \in Seq(S) /\ Len(Tail(s)) = Len(s) - 1
        /\ \A i \in 1..Len(Tail(s)) : Tail(s)[i] = s[i + 1]
    BY HeadTailProperties
  <1>2. Len(s) \in Nat \ {0} /\ Head(s) = s[1]  BY EmptySeq
  <1> DEFINE h == Head(s)
             t == Tail(s)
             a == <<h>> \o t
  <1>3. <<h>> \in Seq(S) /\ Len(<<h>>) = 1 /\ <<h>>[1] = h  BY <1>1
  <1>4. /\ a \in Seq(S) /\ Len(a) = 1 + Len(t)
        /\ \A i \in 1..(1 + Len(t)) : a[i] = IF i <= 1 THEN <<h>>[i] ELSE t[i - 1]
    <2> HIDE DEF h, t
    <2> QED  BY <1>1, <1>3, ConcatProperties DEF h, t
  <1> HIDE DEF h, t, a
  <1>5. ASSUME NEW i \in 1..Len(s) PROVE a[i] = s[i]
    <2>1. CASE i = 1  BY <2>1, <1>1, <1>2, <1>3, <1>4 DEF h, t
    <2>2. CASE i # 1
      <3>1. i - 1 \in 1..Len(t) /\ (i - 1) + 1 = i  BY <2>2, <1>1, <1>2 DEF t
      <3>2. t[i - 1] = s[(i - 1) + 1]  BY <3>1, <1>1 DEF t
      <3> QED  BY <2>2, <3>1, <3>2, <1>1, <1>2, <1>4 DEF t
    <2> QED  BY <2>1, <2>2
  <1>6. Len(a) = Len(s)  BY <1>1, <1>2, <1>4 DEF t
  <1>7. a = s  BY <1>4, <1>5, <1>6, SeqEqual
  <1> QED  BY <1>1, <1>7 DEF a, h, t

-----------------------------------------------------------------------------
(* What is on its way: the answers, then the requests the server still has. *)

Waiters == Requests \cup {Hello}

Answers == [to : Waiters, ok : BOOLEAN]

To(d) == [i \in DOMAIN d |-> d[i].to]

LEMMA ToType ==
  ASSUME NEW d \in Seq(Answers)
  PROVE  /\ To(d) \in Seq(Waiters) /\ Len(To(d)) = Len(d) /\ Len(d) \in Nat
         /\ \A i \in 1..Len(d) : To(d)[i] = d[i].to
  <1>1. Len(d) \in Nat /\ DOMAIN d = 1..Len(d)  BY LenProperties
  <1>2. \A i \in 1..Len(d) : d[i].to \in Waiters
    <2> TAKE i \in 1..Len(d)
    <2>1. d[i] \in Answers  BY ElementOfSeq
    <2> QED  BY <2>1 DEF Answers
  <1>3. [i \in 1..Len(d) |-> d[i].to] \in Seq(Waiters)  BY <1>1, <1>2
  <1>4. To(d) = [i \in 1..Len(d) |-> d[i].to]  BY <1>1 DEF To
  <1>5. DOMAIN To(d) = 1..Len(To(d)) /\ Len(To(d)) \in Nat  BY <1>3, <1>4, LenProperties
  <1>6. Len(To(d)) = Len(d)  BY <1>1, <1>4, <1>5
  <1> QED  BY <1>1, <1>3, <1>4, <1>6

(* A request is sent.                                                        *)
LEMMA SentTo ==
  ASSUME NEW d \in Seq(Answers), NEW u \in Seq(Requests), NEW r \in Requests
  PROVE  To(d) \o Append(u, r) = Append(To(d) \o u, r)
  <1>1. To(d) \in Seq(Waiters) /\ u \in Seq(Waiters) /\ r \in Waiters
    BY ToType, SeqMonotonic DEF Waiters
  <1>2. <<r>> \in Seq(Waiters)  BY <1>1
  <1>3. To(d) \o (u \o <<r>>) = (To(d) \o u) \o <<r>> /\ To(d) \o u \in Seq(Waiters)
    <2> DEFINE w == <<r>>
    <2>1. w \in Seq(Waiters)  BY <1>2
    <2> HIDE DEF w
    <2>2. To(d) \o (u \o w) = (To(d) \o u) \o w /\ To(d) \o u \in Seq(Waiters)
      BY <1>1, <2>1, Grouped
    <2> QED  BY <2>2 DEF w
  <1>4. u \o <<r>> = Append(u, r)  BY <1>1, AppendIsConcat
  <1>5. (To(d) \o u) \o <<r>> = Append(To(d) \o u, r)  BY <1>1, <1>3, AppendIsConcat
  <1> QED  BY <1>3, <1>4, <1>5

(* The server answers the oldest one.                                        *)
LEMMA AnsweredTo ==
  ASSUME NEW d \in Seq(Answers), NEW u \in Seq(Requests), u # <<>>, NEW m \in Answers,
         m.to = Head(u)
  PROVE  To(Append(d, m)) \o Tail(u) = To(d) \o u
  <1> DEFINE e == Append(d, m)
             a == To(d)
             b == To(e)
             h == Head(u)
             w == <<h>>
             t == Tail(u)
  <1>1. /\ e \in Seq(Answers) /\ Len(e) = Len(d) + 1 /\ e[Len(d) + 1] = m
        /\ \A i \in 1..Len(d) : e[i] = d[i]
    BY AppendProperties
  <1>2. w \o t = u /\ h \in Requests /\ t \in Seq(Requests)  BY FrontAndRest
  <1> HIDE DEF e, h, t
  <1>3. h \in Waiters /\ w \in Seq(Waiters) /\ t \in Seq(Waiters)
    BY <1>2, SeqMonotonic DEF Waiters
  <1>4. /\ a \in Seq(Waiters) /\ Len(a) = Len(d) /\ Len(d) \in Nat
        /\ \A i \in 1..Len(d) : a[i] = d[i].to
    BY ToType
  <1>5. /\ b \in Seq(Waiters) /\ Len(b) = Len(d) + 1
        /\ \A i \in 1..(Len(d) + 1) : b[i] = e[i].to
    BY <1>1, ToType
  <1> HIDE DEF a, b
  <1> DEFINE c == Append(a, h)
  <1>6. /\ c \in Seq(Waiters) /\ Len(c) = Len(a) + 1 /\ c[Len(a) + 1] = h
        /\ \A i \in 1..Len(a) : c[i] = a[i]
    BY <1>3, <1>4, AppendProperties
  <1>7. c = a \o w  BY <1>3, <1>4, AppendIsConcat
  <1> HIDE DEF c
  <1>8. ASSUME NEW i \in 1..Len(b) PROVE b[i] = c[i]
    <2>1. CASE i \in 1..Len(d)
      <3>1. b[i] = d[i].to  BY <2>1, <1>1, <1>4, <1>5
      <3>2. c[i] = d[i].to  BY <2>1, <1>4, <1>6
      <3> QED  BY <3>1, <3>2
    <2>2. CASE i = Len(d) + 1
      <3>1. b[i] = m.to  BY <2>2, <1>1, <1>4, <1>5
      <3>2. c[i] = h  BY <2>2, <1>4, <1>6
      <3> QED  BY <3>1, <3>2 DEF h
    <2> QED  BY <2>1, <2>2, <1>4, <1>5
  <1>9. Len(b) = Len(c)  BY <1>4, <1>5, <1>6
  <1>10. b = c  BY <1>5, <1>6, <1>8, <1>9, SeqEqual
  <1> HIDE DEF w
  <1>11. (a \o w) \o t = a \o (w \o t)
    <2>1. a \in Seq(Waiters) /\ w \in Seq(Waiters) /\ t \in Seq(Waiters)  BY <1>3, <1>4
    <2> QED  BY ONLY <2>1, Grouped
  <1>12. b \o t = a \o u  BY <1>2, <1>7, <1>10, <1>11
  <1> QED  BY <1>12 DEF a, b, e, t

(* The oldest answer arrives.                                                *)
LEMMA DeliveredTo ==
  ASSUME NEW d \in Seq(Answers), NEW u \in Seq(Requests), d # <<>>
  PROVE  /\ Tail(d) \in Seq(Answers) /\ Head(d) \in Answers
         /\ To(d) \o u # <<>> /\ Head(To(d) \o u) = Head(d).to
         /\ Tail(To(d) \o u) = To(Tail(d)) \o u
  <1> DEFINE t == Tail(d)
             h == Head(d).to
             w == <<h>>
             a == To(d)
             b == To(t)
  <1>1. /\ t \in Seq(Answers) /\ Head(d) \in Answers /\ Len(t) = Len(d) - 1
        /\ \A i \in 1..Len(t) : t[i] = d[i + 1]
    BY HeadTailProperties
  <1>2. Len(d) \in Nat \ {0} /\ Head(d) = d[1]  BY EmptySeq
  <1>3. h \in Waiters  BY <1>1 DEF Answers
  <1>4. a \in Seq(Waiters) /\ Len(a) = Len(d) /\ \A i \in 1..Len(d) : a[i] = d[i].to
    BY ToType
  <1>5. a[1] = h  BY <1>2, <1>4
  <1> HIDE DEF t, h
  <1>6. b \in Seq(Waiters) /\ Len(b) = Len(t) /\ \A i \in 1..Len(t) : b[i] = t[i].to
    BY <1>1, ToType
  <1> HIDE DEF a, b
  <1> DEFINE c == <<h>> \o b
  <1>7. /\ w \in Seq(Waiters) /\ c \in Seq(Waiters) /\ Len(c) = Len(b) + 1
        /\ Len(b) \in Nat /\ c[1] = h /\ \A i \in 1..Len(b) : c[i + 1] = b[i]
    BY <1>3, <1>6, PutInFront
  <1> HIDE DEF c
  <1>8. Len(a) = Len(c)  BY <1>1, <1>2, <1>4, <1>6, <1>7
  <1>9. ASSUME NEW i \in 1..Len(a) PROVE a[i] = c[i]
    <2>1. CASE i = 1  BY <2>1, <1>5, <1>7
    <2>2. CASE i # 1
      <3>1. PICK k \in 1..Len(b) : i = k + 1
        <4>1. i - 1 \in 1..Len(b) /\ i = (i - 1) + 1  BY <2>2, <1>7, <1>8
        <4> QED  BY <4>1
      <3>2. a[i] = d[k + 1].to /\ c[i] = b[k]  BY <3>1, <1>4, <1>7
      <3>3. b[k] = t[k].to /\ t[k] = d[k + 1]  BY <3>1, <1>1, <1>6
      <3> QED  BY <3>2, <3>3
    <2> QED  BY <2>1, <2>2
  <1>10. a = c  BY <1>4, <1>7, <1>8, <1>9, SeqEqual
  <1>11. u \in Seq(Waiters)  BY SeqMonotonic DEF Waiters
  <1>12. a = w \o b  BY <1>10 DEF c
  <1>13. (w \o b) \o u = w \o (b \o u) /\ b \o u \in Seq(Waiters)
    <2>1. w \in Seq(Waiters) /\ b \in Seq(Waiters) /\ u \in Seq(Waiters)  BY <1>6, <1>7, <1>11
    <2> HIDE DEF w
    <2> QED  BY ONLY <2>1, Grouped
  <1> DEFINE z == b \o u
  <1>14. w \o z # <<>> /\ Head(w \o z) = h /\ Tail(w \o z) = z
    <2> HIDE DEF z
    <2>1. z \in Seq(Waiters)  BY <1>13 DEF z
    <2> QED  BY <2>1, <1>3, FrontOf
  <1>15. a \o u = w \o z  BY <1>12, <1>13
  <1>16. a \o u # <<>> /\ Head(a \o u) = h /\ Tail(a \o u) = b \o u  BY <1>14, <1>15
  <1> QED  BY <1>1, <1>16 DEF a, b, h, t

(* A socket opens: the hello is on its way.                                  *)
LEMMA OpenedTo ==
  ASSUME NEW ok \in BOOLEAN
  PROVE  /\ <<[to |-> Hello, ok |-> ok]>> \in Seq(Answers)
         /\ To(<<[to |-> Hello, ok |-> ok]>>) = <<Hello>>
  BY DEF To, Answers, Waiters

-----------------------------------------------------------------------------
(***************************************************************************)
(* Which socket lives, what the wrapper's fields say of it, and what a     *)
(* kill leaves behind: this much is inductive whatever the queues hold.    *)
(***************************************************************************)
WrapperTypes ==
  /\ state \in {"idle", "connecting", "open", "openThrottle", "dead"}
  /\ socket \in Socks \cup {NoSocket}
  /\ socket # NoSocket <=> state \in {"connecting", "open"}
  /\ socket # NoSocket => wantOpen /\ sock[socket] = state
  /\ throttles \in 0..1 /\ (state = "openThrottle" => throttles = 1)
  /\ isOpen = "yes" <=> state = "open"
  /\ sock \in [Socks -> {"none", "connecting", "open", "closing", "closed"}]
  /\ wantOpen \in BOOLEAN /\ asserted \in BOOLEAN /\ isOpen \in {"no", "yes", "killed"}
  /\ killedIn \in {"no", "connecting", "open", "openThrottle"}

QueueTypes ==
  /\ tested \in Seq(Requests) /\ waiting \in Seq(Requests) /\ late \subseteq Requests
  /\ pendingResponsePRs \in Seq(Waiters)
  /\ up \in [Socks -> Seq(Requests)] /\ down \in [Socks -> Seq(Answers)]
  /\ result \in [Requests -> {"new", "called", "done", "threw", "killed"}]

Control == WrapperTypes /\ OneSocket /\ KilledStays /\ AssertionsHold

LEMMA SocketNumbers == NoSocket \notin Socks /\ 1 \in Socks
  BY WebAssumption DEF NoSocket, Socks

LEMMA ControlInit == WebInit => Control
  <1> SUFFICES ASSUME WebInit PROVE Control  OBVIOUS
  <1>1. \A s \in Socks : sock[s] = IF s = 1 THEN "connecting" ELSE "none"  BY DEF WebInit
  <1>2. WrapperTypes
    <2>1. sock[1] = "connecting" /\ socket = 1 /\ 1 \in Socks /\ 1 # NoSocket
      BY <1>1, SocketNumbers DEF WebInit
    <2>2. sock \in [Socks -> {"none", "connecting", "open", "closing", "closed"}]
      BY DEF WebInit
    <2>3. /\ state = "connecting" /\ throttles = 0 /\ isOpen = "no" /\ killedIn = "no"
          /\ wantOpen = TRUE /\ asserted = FALSE
      BY DEF WebInit
    <2>4. wantOpen /\ wantOpen \in BOOLEAN /\ asserted \in BOOLEAN  BY <2>3
    <2> QED  BY <2>1, <2>2, <2>3, <2>4 DEF WrapperTypes
  <1>3. \A s \in Socks : Lives(s) => s = 1  BY <1>1 DEF Lives
  <1>4. OneSocket  BY <1>3 DEF OneSocket, WebInit
  <1>5. KilledStays /\ AssertionsHold  BY DEF KilledStays, AssertionsHold, WebInit
  <1> QED  BY <1>2, <1>4, <1>5 DEF Control

(* RawRequest, Subscribe, ServerAnswers and OnMessage.                       *)
LEMMA ControlKept ==
  ASSUME Control,
         UNCHANGED <<state, socket, wantOpen, throttles, isOpen, sock, killedIn, asserted>>
  PROVE  Control'
  BY DEF Control, WrapperTypes, OneSocket, Lives, KilledStays, AssertionsHold

LEMMA OnOpenControl == ASSUME Control, NEW s \in Socks, OnOpen(s) PROVE Control'
  <1>1. /\ sock[s] = "connecting" /\ socket = s /\ sock' = [sock EXCEPT ![s] = "open"]
        /\ state' = "open" /\ isOpen' = "yes"
        /\ UNCHANGED <<socket, wantOpen, throttles, killedIn, asserted>>
    BY DEF OnOpen
  <1>2. sock \in [Socks -> {"none", "connecting", "open", "closing", "closed"}]
    BY DEF Control, WrapperTypes
  <1>3. /\ sock' \in [Socks -> {"none", "connecting", "open", "closing", "closed"}]
        /\ sock'[s] = "open" /\ \A t \in Socks \ {s} : sock'[t] = sock[t]
    BY <1>1, <1>2
  <1>4. \A t \in Socks : Lives(t)' <=> Lives(t)  BY <1>1, <1>3 DEF Lives
  <1>5. wantOpen /\ killedIn = "no" /\ isOpen # "killed" /\ Lives(s)
    BY <1>1, SocketNumbers DEF Control, WrapperTypes, KilledStays, Lives
  <1>6. WrapperTypes'
    <2>1. wantOpen' /\ wantOpen' \in BOOLEAN /\ asserted' \in BOOLEAN
      BY <1>1, <1>5 DEF Control, WrapperTypes
    <2>2. throttles' \in 0..1 /\ killedIn' = "no"  BY <1>1, <1>5 DEF Control, WrapperTypes
    <2>3. socket' = s /\ s # NoSocket /\ s \in Socks  BY <1>1, SocketNumbers
    <2>4. sock'[socket'] = state'  BY <1>1, <1>3, <2>3
    <2> QED  BY <1>1, <1>3, <2>1, <2>2, <2>3, <2>4 DEF WrapperTypes
  <1>7. OneSocket'  BY <1>1, <1>3, <1>4, <1>5 DEF Control, OneSocket
  <1>8. KilledStays'  BY <1>1, <1>5 DEF Control, KilledStays
  <1>9. AssertionsHold'  BY <1>1 DEF Control, AssertionsHold
  <1> QED  BY <1>6, <1>7, <1>8, <1>9 DEF Control

(* A socket the wrapper has let go of opened or sent a message: only one     *)
(* that was connecting at the kill can.                                      *)
LEMMA StrayControl ==
  ASSUME Control, NEW s \in Socks, sock[s] \in {"connecting", "open"}, socket # s,
         sock' \in {sock, [sock EXCEPT ![s] = "open"]}, asserted' = TRUE,
         UNCHANGED <<state, socket, wantOpen, throttles, isOpen, killedIn>>
  PROVE  Control'
  <1>1. sock \in [Socks -> {"none", "connecting", "open", "closing", "closed"}]
    BY DEF Control, WrapperTypes
  <1>2. /\ sock' \in [Socks -> {"none", "connecting", "open", "closing", "closed"}]
        /\ sock'[s] \in {"connecting", "open"} /\ \A t \in Socks \ {s} : sock'[t] = sock[t]
    BY <1>1
  <1>3. \A t \in Socks : Lives(t)' <=> Lives(t)  BY <1>2 DEF Lives
  <1>4. Lives(s)  BY DEF Lives
  <1>5. killedIn = "connecting"
    BY <1>4 DEF Control, OneSocket, WrapperTypes
  <1>6. WrapperTypes'  BY <1>2 DEF Control, WrapperTypes
  <1>7. OneSocket'  BY <1>3, <1>5 DEF Control, OneSocket
  <1>8. KilledStays'  BY DEF Control, KilledStays
  <1>9. AssertionsHold'  BY <1>5 DEF AssertionsHold
  <1> QED  BY <1>6, <1>7, <1>8, <1>9 DEF Control

LEMMA OnCloseControl == ASSUME Control, NEW s \in Socks, OnClose(s) PROVE Control'
  <1>1. /\ Lives(s) /\ sock' = [sock EXCEPT ![s] = "closed"] /\ socket' = NoSocket
        /\ asserted' = (asserted \/ ~(socket = s \/ state = "dead"))
        /\ state' = IF wantOpen THEN "openThrottle" ELSE "idle"
        /\ throttles' = IF wantOpen THEN throttles + 1 ELSE throttles
        /\ isOpen' = IF isOpen = "killed" THEN "killed" ELSE "no"
        /\ UNCHANGED <<wantOpen, killedIn>>
    BY DEF OnClose, Lives
  <1>2. sock \in [Socks -> {"none", "connecting", "open", "closing", "closed"}]
    BY DEF Control, WrapperTypes
  <1>3. /\ sock' \in [Socks -> {"none", "connecting", "open", "closing", "closed"}]
        /\ sock'[s] = "closed" /\ \A t \in Socks \ {s} : sock'[t] = sock[t]
    BY <1>1, <1>2
  <1>4. \A t \in Socks : ~Lives(t)'
    <2> TAKE t \in Socks
    <2>1. CASE t = s  BY <2>1, <1>3 DEF Lives
    <2>2. CASE t # s
      <3>1. ~Lives(t)  BY <2>2, <1>1 DEF Control, OneSocket
      <3> QED  BY <3>1, <2>2, <1>3 DEF Lives
    <2> QED  BY <2>1, <2>2
  <1>5. throttles = 0 /\ (IF killedIn = "no" THEN socket = s ELSE state = "dead")
    BY <1>1 DEF Control, OneSocket
  <1>6. OneSocket'  BY <1>4 DEF OneSocket
  <1>7. CASE wantOpen
    <2>1. killedIn = "no" /\ isOpen # "killed" /\ socket = s
      BY <1>5, <1>7 DEF Control, KilledStays
    <2>2. state' = "openThrottle" /\ throttles' = 1 /\ isOpen' = "no"  BY <1>1, <1>5, <1>7, <2>1
    <2>3. asserted' = asserted  BY <1>1, <2>1 DEF Control, WrapperTypes
    <2>4. WrapperTypes'  BY <1>1, <1>3, <2>1, <2>2, <2>3 DEF Control, WrapperTypes
    <2>5. KilledStays'  BY <1>1, <2>1, <2>2 DEF Control, KilledStays
    <2>6. AssertionsHold'  BY <1>1, <2>3 DEF Control, AssertionsHold
    <2> QED  BY <1>6, <2>4, <2>5, <2>6 DEF Control
  <1>8. CASE ~wantOpen
    <2>1. killedIn # "no" /\ isOpen = "killed" /\ state = "dead"
      BY <1>5, <1>8 DEF Control, KilledStays
    <2>2. state' = "idle" /\ throttles' = 0 /\ isOpen' = "killed"  BY <1>1, <1>5, <1>8, <2>1
    <2>3. asserted' = asserted  BY <1>1, <2>1 DEF Control, WrapperTypes
    <2>4. WrapperTypes'  BY <1>1, <1>3, <2>1, <2>2, <2>3 DEF Control, WrapperTypes
    <2>5. KilledStays'  BY <1>1, <1>8, <2>1, <2>2 DEF Control, KilledStays
    <2>6. AssertionsHold'  BY <1>1, <2>3 DEF Control, AssertionsHold
    <2> QED  BY <1>6, <2>4, <2>5, <2>6 DEF Control
  <1> QED  BY <1>7, <1>8

LEMMA ThrottleControl == ASSUME Control, Throttle PROVE Control'
  <1>1. /\ throttles = 1 /\ throttles' = 0 /\ UNCHANGED <<wantOpen, isOpen, killedIn, asserted>>
    BY DEF Throttle, Control, WrapperTypes, conn
  <1>2. \A t \in Socks : ~Lives(t)  BY <1>1 DEF Control, OneSocket
  <1>3. sock \in [Socks -> {"none", "connecting", "open", "closing", "closed"}]
    BY DEF Control, WrapperTypes
  <1>4. socket = NoSocket /\ state \notin {"connecting", "open"} /\ isOpen # "yes"
    BY <1>2 DEF Control, WrapperTypes, Lives
  <1>5. CASE wantOpen
    <2>1. PICK s \in Socks : /\ sock' = [sock EXCEPT ![s] = "connecting"]
                             /\ socket' = s /\ state' = "connecting"
      BY <1>5 DEF Throttle
    <2>2. /\ sock' \in [Socks -> {"none", "connecting", "open", "closing", "closed"}]
          /\ sock'[s] = "connecting" /\ \A t \in Socks \ {s} : sock'[t] = sock[t]
      BY <1>3, <2>1
    <2>3. \A t \in Socks : Lives(t)' => t = s  BY <1>2, <2>2 DEF Lives
    <2>4. killedIn = "no"  BY <1>5 DEF Control, KilledStays
    <2>5. WrapperTypes'  BY <1>1, <1>4, <1>5, <2>1, <2>2, SocketNumbers DEF Control, WrapperTypes
    <2>6. OneSocket'  BY <1>1, <2>1, <2>3, <2>4 DEF OneSocket
    <2>7. KilledStays'  BY <1>1, <2>1, <2>4 DEF Control, KilledStays
    <2>8. AssertionsHold'  BY <1>1 DEF Control, AssertionsHold
    <2> QED  BY <2>5, <2>6, <2>7, <2>8 DEF Control
  <1>6. CASE ~wantOpen
    <2>1. state' = "idle" /\ sock' = sock /\ socket' = socket  BY <1>6 DEF Throttle
    <2>2. \A t \in Socks : ~Lives(t)'  BY <1>2, <2>1 DEF Lives
    <2>3. WrapperTypes'  BY <1>1, <1>3, <1>4, <2>1 DEF Control, WrapperTypes
    <2>4. OneSocket'  BY <2>2 DEF OneSocket
    <2>5. KilledStays'  BY <1>1, <1>6, <2>1 DEF Control, KilledStays
    <2>6. AssertionsHold'  BY <1>1 DEF Control, AssertionsHold
    <2> QED  BY <2>3, <2>4, <2>5, <2>6 DEF Control
  <1> QED  BY <1>5, <1>6

LEMMA KillControl == ASSUME Control, Kill PROVE Control'
  <1>1. /\ state \in {"connecting", "open", "openThrottle"} /\ killedIn' = state
        /\ sock' = (IF state = "open" THEN [sock EXCEPT ![socket] = "closing"] ELSE sock)
        /\ state' = "dead" /\ wantOpen' = FALSE /\ socket' = NoSocket /\ isOpen' = "killed"
        /\ UNCHANGED <<throttles, asserted>>
    BY DEF Kill
  <1>2. sock \in [Socks -> {"none", "connecting", "open", "closing", "closed"}]
    BY DEF Control, WrapperTypes
  <1>3. killedIn = "no"  BY <1>1 DEF Control, KilledStays, WrapperTypes
  <1>4. /\ \A t \in Socks : Lives(t) => t = socket /\ throttles = 0
        /\ state = "openThrottle" => throttles = 1
        /\ ~asserted
    BY <1>3 DEF Control, OneSocket, WrapperTypes, AssertionsHold
  <1>5. /\ sock' \in [Socks -> {"none", "connecting", "open", "closing", "closed"}]
        /\ \A t \in Socks : Lives(t)' => Lives(t)
        /\ state = "open" => \A t \in Socks : Lives(t)' => sock'[t] = "closing"
    <2>1. CASE state = "open"
      <3>1. socket \in Socks  BY <2>1 DEF Control, WrapperTypes
      <3>2. sock'[socket] = "closing" /\ \A t \in Socks \ {socket} : sock'[t] = sock[t]
        BY <1>1, <1>2, <2>1, <3>1
      <3>3. sock[socket] = "open"  BY <2>1, <3>1, SocketNumbers DEF Control, WrapperTypes
      <3>4. Lives(socket)  BY <3>3 DEF Lives
      <3>5. \A t \in Socks : Lives(t)' => Lives(t)  BY <3>2, <3>4 DEF Lives
      <3>6. \A t \in Socks : Lives(t)' => sock'[t] = "closing"  BY <1>4, <3>2, <3>5
      <3> QED  BY <1>1, <1>2, <2>1, <3>5, <3>6
    <2>2. CASE state # "open"
      <3>1. sock' = sock  BY <1>1, <2>2
      <3> QED  BY <2>2, <1>2, <3>1 DEF Lives
    <2> QED  BY <2>1, <2>2
  <1>6. WrapperTypes'  BY <1>1, <1>5 DEF Control, WrapperTypes
  <1>7. OneSocket'
    <2>1. \A s, t \in Socks : Lives(s)' /\ Lives(t)' => s = t  BY <1>4, <1>5
    <2>2. ASSUME NEW s \in Socks, Lives(s)'
          PROVE  /\ throttles' = 0 /\ killedIn' # "no" /\ state' = "dead"
                 /\ killedIn' \in {"open", "openThrottle"} => sock'[s] = "closing"
      <3>1. Lives(s) /\ throttles = 0  BY <1>4, <1>5, <2>2
      <3>2. state # "openThrottle"  BY <1>4, <3>1
      <3> QED  BY <1>1, <1>5, <2>2, <3>1, <3>2
    <2> QED  BY <2>1, <2>2 DEF OneSocket
  <1>8. KilledStays'  BY <1>1 DEF KilledStays
  <1>9. AssertionsHold'  BY <1>1, <1>4 DEF AssertionsHold
  <1> QED  BY <1>6, <1>7, <1>8, <1>9 DEF Control

-----------------------------------------------------------------------------
(***************************************************************************)
(* The queues.  Requests wait, or have promises; those that have yet to     *)
(* subscribe do neither, and after a kill stay so.                         *)
(***************************************************************************)
Outcomes == {"new", "called", "done", "threw", "killed"}

Queues == QueueTypes /\ NoneForgotten /\ Paired

(* Mapped onto one another by their contents.                                *)
LEMMA PairedIs ==
  /\ Paired <=> (state = "open" => pendingResponsePRs = To(down[socket]) \o up[socket])
  /\ Paired' <=> (state' = "open" => pendingResponsePRs' = To(down'[socket']) \o up'[socket'])
  BY DEF Paired, To

LEMMA SetResult ==
  ASSUME NEW f \in [Requests -> Outcomes], NEW q, NEW v \in Outcomes
  PROVE  /\ Set(f, q, v) \in [Requests -> Outcomes]
         /\ \A r \in Requests : Set(f, q, v)[r] = IF r \in Range(q) THEN v ELSE f[r]
  BY DEF Set

(* Those that have yet to subscribe.                                         *)
Apart ==
  /\ \A r \in Range(tested) \cup late :
       r \notin Range(waiting) /\ r \notin Range(pendingResponsePRs)
  /\ isOpen = "yes" => tested = <<>>
  /\ isOpen = "killed" => Range(tested) \subseteq late
  /\ isOpen # "killed" => late = {}

LEMMA QueueParts ==
  ASSUME Queues
  PROVE  /\ waiting \in Seq(Requests) /\ pendingResponsePRs \in Seq(Waiters)
         /\ tested \in Seq(Requests) /\ late \subseteq Requests /\ Distinct(tested)
         /\ Apart
         /\ up \in [Socks -> Seq(Requests)] /\ down \in [Socks -> Seq(Answers)]
         /\ result \in [Requests -> Outcomes]
         /\ \A r \in Requests :
              result[r] = "called" <=> \/ r \in Range(waiting) \/ r \in Range(pendingResponsePRs)
                                       \/ r \in Range(tested) \/ r \in late
         /\ Distinct(waiting) /\ Distinct(pendingResponsePRs)
         /\ \A i \in DOMAIN pendingResponsePRs : pendingResponsePRs[i] = Hello => i = 1
         /\ isOpen = "no" => pendingResponsePRs = <<>>
         /\ isOpen # "no" => waiting = <<>>
         /\ state = "open" => pendingResponsePRs = To(down[socket]) \o up[socket]
  <1>1. Apart
    BY DEF Queues, NoneForgotten, Apart
  <1> QED  BY <1>1, PairedIs DEF Queues, QueueTypes, NoneForgotten, Outcomes

(* And the other way, for the state after a step.                            *)
LEMMA QueuesNext ==
  ASSUME waiting' \in Seq(Requests), pendingResponsePRs' \in Seq(Waiters),
         up' \in [Socks -> Seq(Requests)], down' \in [Socks -> Seq(Answers)],
         result' \in [Requests -> Outcomes],
         \A r \in Requests :
           result'[r] = "called" <=> \/ r \in Range(waiting') \/ r \in Range(pendingResponsePRs')
                                    \/ r \in Range(tested') \/ r \in late',
         tested' \in Seq(Requests), late' \subseteq Requests, Distinct(tested'), Apart',
         Distinct(waiting'), Distinct(pendingResponsePRs'),
         \A i \in DOMAIN pendingResponsePRs' : pendingResponsePRs'[i] = Hello => i = 1,
         isOpen' = "no" => pendingResponsePRs' = <<>>,
         isOpen' # "no" => waiting' = <<>>,
         state' = "open" => pendingResponsePRs' = To(down'[socket']) \o up'[socket']
  PROVE  Queues'
  <1>1. QueueTypes'  BY DEF QueueTypes, Outcomes
  <1>2. Paired'  BY PairedIs
  <1>3. NoneForgotten'
    <2>1. \A r \in Requests :
            result'[r] = "called" <=>
              r \in Range(tested') \cup Range(waiting') \cup Range(pendingResponsePRs') \cup late'
      OBVIOUS
    <2>2. /\ Range(tested') \cap (Range(waiting') \cup Range(pendingResponsePRs')) = {}
          /\ late' \cap (Range(waiting') \cup Range(pendingResponsePRs')) = {}
          /\ isOpen' = "yes" => tested' = <<>>
          /\ IF isOpen' = "killed" THEN Range(tested') \subseteq late' ELSE late' = {}
      BY DEF Apart
    <2> QED  BY <2>1, <2>2 DEF NoneForgotten, Distinct
  <1> QED  BY <1>1, <1>2, <1>3 DEF Queues

(* The socket of an open wrapper.                                            *)
LEMMA OpenSocket ==
  ASSUME Control
  PROVE  /\ state = "open" <=> isOpen = "yes"
         /\ state = "open" => socket \in Socks /\ sock[socket] = "open"
         /\ \A s \in Socks : socket = s /\ sock[s] = "open" => state = "open"
         /\ isOpen \in {"no", "yes", "killed"}
  BY SocketNumbers DEF Control, WrapperTypes

LEMMA QueuesInit == WebInit => Queues
  <1> SUFFICES ASSUME WebInit PROVE Queues  OBVIOUS
  <1>1. /\ waiting = <<>> /\ pendingResponsePRs = <<>> /\ state = "connecting" /\ isOpen = "no"
        /\ tested = <<>> /\ late = {}
        /\ result = [r \in Requests |-> "new"]
        /\ up = [s \in Socks |-> <<>>] /\ down = [s \in Socks |-> <<>>]
    BY DEF WebInit
  <1>2. \A S : <<>> \in Seq(S)  BY EmptySeq
  <1>3. QueueTypes  BY <1>1, <1>2 DEF QueueTypes
  <1>4. Paired  BY <1>1 DEF Paired
  <1>5. Distinct(<<>>) /\ Range(<<>>) = {} /\ DOMAIN <<>> = {}  BY EmptyQueue
  <1>6. NoneForgotten  BY <1>1, <1>5 DEF NoneForgotten
  <1> QED  BY <1>3, <1>4, <1>6 DEF Queues

LEMMA RawRequestQueues ==
  ASSUME Control, Queues, NEW r \in Requests, RawRequest(r)
  PROVE  Queues'
  <1> DEFINE p == pendingResponsePRs
  <1>1. /\ result[r] = "new" /\ UNCHANGED <<state, socket, isOpen, down>>
        /\ result' = [result EXCEPT ![r] = IF isOpen = "killed" THEN "killed" ELSE "called"]
        /\ tested' = IF isOpen = "no" THEN Append(tested, r) ELSE tested
        /\ UNCHANGED <<waiting, late>>
    BY DEF RawRequest, wrapper
  <1>2. /\ r \notin Range(waiting) /\ r \notin Range(p)
        /\ r \notin Range(tested) /\ r \notin late
    BY <1>1, QueueParts
  <1>3. /\ result' \in [Requests -> Outcomes]
        /\ result'[r] = IF isOpen = "killed" THEN "killed" ELSE "called"
        /\ \A q \in Requests \ {r} : result'[q] = result[q]
    BY <1>1, QueueParts DEF Outcomes
  <1>4. r \in Waiters /\ r # Hello  BY WebAssumption DEF Waiters
  <1>5. CASE isOpen = "no"
    <2>1. up' = up /\ p' = p /\ p = <<>>  BY <1>5, QueueParts DEF RawRequest
    <2>2. tested' = Append(tested, r)  BY <1>1, <1>5
    <2>3. /\ tested' \in Seq(Requests) /\ Distinct(tested')
          /\ Range(tested') = Range(tested) \cup {r}
      BY <1>2, <2>2, QueueParts, AppendDistinct
    <2>4. state # "open"  BY <1>5, OpenSocket
    <2>5. \A q \in Requests :
            result'[q] = "called" <=> \/ q \in Range(waiting') \/ q \in Range(p')
                                     \/ q \in Range(tested') \/ q \in late'
      BY <1>1, <1>2, <1>3, <1>5, <2>1, <2>3, QueueParts
    <2>6. \A i \in DOMAIN p' : p'[i] = Hello => i = 1  BY <2>1, QueueParts
    <2>7. Apart'
      <3>1. Apart /\ UNCHANGED <<waiting, late, p, isOpen>>  BY <1>1, <2>1, QueueParts
      <3> QED  BY <1>2, <1>5, <2>3, <3>1 DEF Apart
    <2> QED  BY <1>1, <1>3, <1>5, <2>1, <2>3, <2>4, <2>5, <2>6, <2>7, QueueParts, QueuesNext
  <1>6. CASE isOpen = "killed"
    <2>1. up' = up /\ p' = p /\ waiting' = waiting /\ waiting = <<>> /\ tested' = tested
      BY <1>1, <1>6, QueueParts DEF RawRequest
    <2>2. state # "open"  BY <1>6, OpenSocket
    <2>3. \A q \in Requests :
            result'[q] = "called" <=> \/ q \in Range(waiting') \/ q \in Range(p')
                                     \/ q \in Range(tested') \/ q \in late'
      BY <1>1, <1>2, <1>3, <1>6, <2>1, QueueParts
    <2>4. \A i \in DOMAIN p' : p'[i] = Hello => i = 1  BY <2>1, QueueParts
    <2>5. Apart'
      <3>1. Apart /\ UNCHANGED <<tested, waiting, late, p, isOpen>>
        BY <1>1, <2>1, QueueParts
      <3> QED  BY <3>1 DEF Apart
    <2> QED  BY <1>1, <1>3, <1>6, <2>1, <2>2, <2>3, <2>4, <2>5, QueueParts, QueuesNext
  <1>7. CASE isOpen = "yes"
    <2>1. up' = [up EXCEPT ![socket] = Append(@, r)] /\ p' = Append(p, r)
      BY <1>7 DEF RawRequest
    <2>2. /\ waiting' = waiting /\ waiting = <<>> /\ tested' = tested /\ tested = <<>>
          /\ late' = late /\ late = {}
      BY <1>1, <1>7, QueueParts DEF Apart
    <2>3. state = "open" /\ socket \in Socks  BY <1>7, OpenSocket
    <2>4. /\ p' \in Seq(Waiters) /\ Distinct(p') /\ Range(p') = Range(p) \cup {r}
          /\ \A i \in DOMAIN p' : p'[i] = Hello => i \in DOMAIN p /\ p[i] = Hello
      <3>1. p \in Seq(Waiters) /\ Distinct(p)  BY QueueParts
      <3> HIDE DEF p
      <3>2. /\ Append(p, r) \in Seq(Waiters) /\ Distinct(Append(p, r))
            /\ Range(Append(p, r)) = Range(p) \cup {r}
            /\ \A i \in DOMAIN Append(p, r) :
                 Append(p, r)[i] = Hello => i \in DOMAIN p /\ p[i] = Hello
        BY <1>2, <1>4, <3>1, AppendDistinct
      <3> QED  BY <2>1, <3>2
    <2>5. \A i \in DOMAIN p' : p'[i] = Hello => i = 1  BY <2>4, QueueParts
    <2>6. /\ up[socket] \in Seq(Requests) /\ down[socket] \in Seq(Answers)
          /\ p = To(down[socket]) \o up[socket]
      BY <2>3, QueueParts
    <2>7. up' \in [Socks -> Seq(Requests)] /\ up'[socket] = Append(up[socket], r)
      <3>1. Append(up[socket], r) \in Seq(Requests)  BY <2>6, AppendProperties
      <3> QED  BY <2>1, <2>3, <3>1, QueueParts
    <2>8. p' = To(down'[socket']) \o up'[socket']
      <3>1. To(down[socket]) \o Append(up[socket], r) = Append(To(down[socket]) \o up[socket], r)
        BY <2>6, SentTo
      <3>2. down'[socket'] = down[socket] /\ up'[socket'] = Append(up[socket], r)  BY <1>1, <2>7
      <3> QED  BY <2>1, <2>6, <3>1, <3>2
    <2>9. \A q \in Requests :
            result'[q] = "called" <=> \/ q \in Range(waiting') \/ q \in Range(p')
                                     \/ q \in Range(tested') \/ q \in late'
      BY <1>2, <1>3, <1>7, <2>2, <2>4, QueueParts
    <2>10. Apart'
      <3>1. Range(<<>>) = {}  BY EmptyQueue
      <3> QED  BY <1>1, <1>7, <2>2, <3>1 DEF Apart
    <2> QED  BY <1>1, <1>3, <1>7, <2>2, <2>4, <2>5, <2>7, <2>8, <2>9, <2>10, QueueParts, QueuesNext
  <1> QED  BY <1>5, <1>6, <1>7, OpenSocket

LEMMA SubscribeQueues == ASSUME Control, Queues, Subscribe PROVE Queues'
  <1> DEFINE h == Head(tested)
  <1>1. /\ tested # <<>> /\ tested' = Tail(tested)
        /\ waiting' = (IF isOpen = "killed" THEN waiting ELSE Append(waiting, h))
        /\ UNCHANGED <<state, socket, isOpen, pendingResponsePRs, result, late, up, down>>
    BY DEF Subscribe, wrapper, net
  <1>2. tested \in Seq(Requests) /\ Distinct(tested)  BY QueueParts
  <1>3. /\ tested' \in Seq(Requests) /\ h \in Requests /\ Distinct(tested')
        /\ h \in Range(tested) /\ Range(tested') = Range(tested) \ {h}
    BY <1>1, <1>2, TailDistinct
  <1> HIDE DEF h
  <1>4. CASE isOpen = "killed"
    <2>1. waiting' = waiting /\ h \in late  BY <1>1, <1>3, <1>4, QueueParts DEF Apart
    <2>2. \A r \in Requests :
            result'[r] = "called" <=> \/ r \in Range(waiting') \/ r \in Range(pendingResponsePRs')
                                     \/ r \in Range(tested') \/ r \in late'
      BY <1>1, <1>3, <2>1, QueueParts
    <2>3. Apart'
      <3>1. Apart  BY QueueParts
      <3> QED  BY <1>1, <1>3, <1>4, <2>1, <3>1 DEF Apart
    <2> QED  BY <1>1, <1>3, <2>1, <2>2, <2>3, QueueParts, QueuesNext
  <1>5. CASE isOpen # "killed"
    <2>1. waiting' = Append(waiting, h) /\ isOpen = "no" /\ late = {} /\ pendingResponsePRs = <<>>
      BY <1>1, <1>5, QueueParts, OpenSocket DEF Apart
    <2>2. waiting \in Seq(Requests) /\ Distinct(waiting) /\ h \notin Range(waiting)
      BY <1>3, QueueParts DEF Apart
    <2>3. /\ waiting' \in Seq(Requests) /\ Distinct(waiting')
          /\ Range(waiting') = Range(waiting) \cup {h}
      BY <1>3, <2>1, <2>2, AppendDistinct
    <2>4. \A r \in Requests :
            result'[r] = "called" <=> \/ r \in Range(waiting') \/ r \in Range(pendingResponsePRs')
                                     \/ r \in Range(tested') \/ r \in late'
      BY <1>1, <1>3, <2>3, QueueParts
    <2>5. Apart'
      <3>1. Apart /\ Range(<<>>) = {}  BY QueueParts, EmptyQueue
      <3> QED  BY <1>1, <1>3, <2>1, <2>3, <3>1 DEF Apart
    <2> QED  BY <1>1, <1>3, <2>1, <2>3, <2>4, <2>5, QueueParts, QueuesNext
  <1> QED  BY <1>4, <1>5

LEMMA ServerAnswersQueues ==
  ASSUME Control, Queues, NEW s \in Socks, ServerAnswers(s)
  PROVE  Queues'
  <1>1. /\ up[s] # <<>> /\ up' = [up EXCEPT ![s] = Tail(@)]
        /\ UNCHANGED <<state, socket, isOpen, pendingResponsePRs, waiting, result, tested, late>>
    BY DEF ServerAnswers, wrapper, conn
  <1>2. PICK ok \in BOOLEAN :
          down' = [down EXCEPT ![s] = Append(@, [to |-> Head(up[s]), ok |-> ok])]
    BY DEF ServerAnswers
  <1> DEFINE d == down[s]
             u == up[s]
             m == [to |-> Head(u), ok |-> ok]
  <1>3. d \in Seq(Answers) /\ u \in Seq(Requests)  BY QueueParts
  <1>4. Head(u) \in Requests /\ Tail(u) \in Seq(Requests)  BY <1>1, <1>3, FrontAndRest
  <1>5. m \in Answers /\ m.to = Head(u)  BY <1>4 DEF Answers, Waiters
  <1>6. Append(d, m) \in Seq(Answers)  BY <1>3, <1>5, AppendProperties
  <1>7. /\ up' \in [Socks -> Seq(Requests)] /\ up'[s] = Tail(u)
        /\ \A t \in Socks \ {s} : up'[t] = up[t]
    BY <1>1, <1>4, QueueParts
  <1>8. /\ down' \in [Socks -> Seq(Answers)] /\ down'[s] = Append(d, m)
        /\ \A t \in Socks \ {s} : down'[t] = down[t]
    BY <1>2, <1>6, QueueParts
  <1>9. To(Append(d, m)) \o Tail(u) = To(d) \o u
    <2> HIDE DEF d, u, m
    <2> QED  BY <1>1, <1>3, <1>5, AnsweredTo DEF u
  <1>10. ASSUME state' = "open"
         PROVE  pendingResponsePRs' = To(down'[socket']) \o up'[socket']
    <2>1. socket \in Socks /\ pendingResponsePRs = To(down[socket]) \o up[socket]
      BY <1>1, <1>10, OpenSocket, QueueParts
    <2>2. CASE socket = s  BY <1>1, <1>7, <1>8, <1>9, <2>1, <2>2
    <2>3. CASE socket # s
      <3>1. down'[socket] = down[socket] /\ up'[socket] = up[socket]  BY <1>7, <1>8, <2>1, <2>3
      <3> QED  BY <1>1, <2>1, <3>1
    <2> QED  BY <2>2, <2>3
  <1>11. Apart'  BY <1>1, QueueParts DEF Apart
  <1> QED  BY <1>1, <1>7, <1>8, <1>10, <1>11, QueueParts, QueuesNext

LEMMA OnOpenQueues ==
  ASSUME Control, Queues, tested = <<>>, NEW s \in Socks, OnOpen(s)
  PROVE  Queues'
  <1> DEFINE p == pendingResponsePRs
             hello == <<[to |-> Hello, ok |-> TRUE]>>
  <1>1. /\ sock[s] = "connecting" /\ socket = s /\ socket' = socket
        /\ state' = "open" /\ isOpen' = "yes" /\ waiting' = <<>> /\ result' = result
        /\ tested' = tested /\ late' = late
        /\ p' = <<Hello>> \o waiting
        /\ up' = [up EXCEPT ![s] = waiting] /\ down' = [down EXCEPT ![s] = hello]
    BY DEF OnOpen
  <1>2. isOpen = "no"
    BY <1>1, SocketNumbers DEF Control, WrapperTypes, KilledStays
  <1>3. p = <<>> /\ late = {}  BY <1>2, QueueParts DEF Apart
  <1>4. Hello \notin Range(waiting)
    <2>1. Range(waiting) \subseteq Requests  BY QueueParts, RangeOfSeq
    <2> QED  BY <2>1, WebAssumption
  <1>5. waiting \in Seq(Waiters) /\ Hello \in Waiters /\ Distinct(waiting)
    BY QueueParts, SeqMonotonic DEF Waiters
  <1>6. /\ p' \in Seq(Waiters) /\ Distinct(p') /\ Range(p') = Range(waiting) \cup {Hello}
        /\ \A i \in DOMAIN p' : p'[i] = Hello => i = 1
    <2>1. /\ <<Hello>> \o waiting \in Seq(Waiters) /\ Distinct(<<Hello>> \o waiting)
          /\ Range(<<Hello>> \o waiting) = Range(waiting) \cup {Hello}
          /\ \A i \in DOMAIN (<<Hello>> \o waiting) : (<<Hello>> \o waiting)[i] = Hello => i = 1
      BY <1>4, <1>5, ConsDistinct
    <2> QED  BY <1>1, <2>1
  <1>7. hello \in Seq(Answers) /\ To(hello) = <<Hello>>
    <2>1. TRUE \in BOOLEAN  OBVIOUS
    <2> QED  BY <2>1, OpenedTo
  <1> HIDE DEF hello
  <1>8. up' \in [Socks -> Seq(Requests)] /\ up'[s] = waiting  BY <1>1, QueueParts
  <1>9. down' \in [Socks -> Seq(Answers)] /\ down'[s] = hello  BY <1>1, <1>7, QueueParts
  <1>10. p' = To(down'[socket']) \o up'[socket']  BY <1>1, <1>7, <1>8, <1>9
  <1>11. Range(<<>>) = {} /\ Distinct(<<>>) /\ <<>> \in Seq(Requests)  BY EmptyQueue, EmptySeq
  <1>12. \A q \in Requests :
           result'[q] = "called" <=> \/ q \in Range(waiting') \/ q \in Range(p')
                                    \/ q \in Range(tested') \/ q \in late'
    BY <1>1, <1>3, <1>6, <1>11, QueueParts, WebAssumption
  <1>13. result' \in [Requests -> Outcomes]  BY <1>1, QueueParts
  <1>14. Apart'  BY <1>1, <1>3, <1>11 DEF Apart
  <1> QED
    BY <1>1, <1>3, <1>6, <1>8, <1>9, <1>10, <1>11, <1>12, <1>13, <1>14, QueuesNext

(* A socket that is not the wrapper's.                                       *)
LEMMA StrayQueues ==
  ASSUME Control, Queues, NEW s \in Socks, socket # s, NEW d \in Seq(Answers),
         down' = [down EXCEPT ![s] = d],
         UNCHANGED <<state, socket, isOpen, pendingResponsePRs, waiting, result, up, tested, late>>
  PROVE  Queues'
  <1>1. down' \in [Socks -> Seq(Answers)] /\ \A t \in Socks \ {s} : down'[t] = down[t]
    BY QueueParts
  <1>2. ASSUME state' = "open"
        PROVE  pendingResponsePRs' = To(down'[socket']) \o up'[socket']
    <2>1. socket \in Socks /\ pendingResponsePRs = To(down[socket]) \o up[socket]
      BY <1>2, OpenSocket, QueueParts
    <2>2. down'[socket] = down[socket]  BY <1>1, <2>1
    <2> QED  BY <2>1, <2>2
  <1>3. Apart'  BY QueueParts DEF Apart
  <1> QED  BY <1>1, <1>2, <1>3, QueueParts, QueuesNext

LEMMA OnMessageQueues ==
  ASSUME Control, Queues, NEW s \in Socks, OnMessage(s)
  PROVE  Queues'
  <1> DEFINE p == pendingResponsePRs
             o == IF Head(down[s]).ok THEN "done" ELSE "threw"
  <1>1. /\ sock[s] = "open" /\ socket = s /\ down[s] # <<>> /\ p # <<>>
        /\ down' = [down EXCEPT ![s] = Tail(@)] /\ p' = Tail(p)
        /\ result' = Set(result, <<Head(p)>>, o)
        /\ UNCHANGED <<state, socket, isOpen, waiting, up, tested, late>>
    BY DEF OnMessage, wrapper
  <1>2. state = "open" /\ isOpen = "yes"  BY <1>1, OpenSocket
  <1>3. /\ down[s] \in Seq(Answers) /\ up[s] \in Seq(Requests)
        /\ p = To(down[s]) \o up[s] /\ waiting = <<>> /\ tested = <<>> /\ late = {}
    BY <1>1, <1>2, QueueParts DEF Apart
  <1>4. /\ Tail(down[s]) \in Seq(Answers) /\ Tail(p) = To(Tail(down[s])) \o up[s]
    BY <1>1, <1>3, DeliveredTo
  <1>5. down' \in [Socks -> Seq(Answers)] /\ down'[s] = Tail(down[s])  BY <1>1, <1>4, QueueParts
  <1>6. p' = To(down'[socket']) \o up'[socket']  BY <1>1, <1>4, <1>5
  <1>7. /\ p \in Seq(Waiters) /\ Distinct(p)
        /\ \A i \in DOMAIN p : p[i] = Hello => i = 1
    BY QueueParts
  <1>8. /\ p' \in Seq(Waiters) /\ Head(p) \in Waiters /\ Distinct(p')
        /\ Head(p) \in Range(p) /\ Range(p') = Range(p) \ {Head(p)} /\ Hello \notin Range(p')
    <2> HIDE DEF p
    <2>1. /\ Tail(p) \in Seq(Waiters) /\ Head(p) \in Waiters /\ Distinct(Tail(p))
          /\ Head(p) \in Range(p) /\ Range(Tail(p)) = Range(p) \ {Head(p)}
          /\ Hello \notin Range(Tail(p))
      BY <1>1, <1>7, TailDistinct
    <2> QED  BY <1>1, <2>1
  <1>9. \A i \in DOMAIN p' : p'[i] = Hello => i = 1
    <2>1. \A i \in DOMAIN p' : p'[i] \in Range(p')  BY DEF Range
    <2> QED  BY <1>8, <2>1
  <1>10. o \in Outcomes /\ o # "called"  BY DEF Outcomes
  <1> HIDE DEF o
  <1>11. /\ result' \in [Requests -> Outcomes]
         /\ \A r \in Requests : result'[r] = IF r = Head(p) THEN o ELSE result[r]
    <2>1. \A x : x \in Range(<<Head(p)>>) <=> x = Head(p)  BY DEF Range
    <2>2. /\ Set(result, <<Head(p)>>, o) \in [Requests -> Outcomes]
          /\ \A r \in Requests :
               Set(result, <<Head(p)>>, o)[r] = IF r \in Range(<<Head(p)>>) THEN o ELSE result[r]
      <3>1. result \in [Requests -> Outcomes]  BY QueueParts
      <3> DEFINE q == <<Head(p)>>
      <3> HIDE DEF q
      <3>2. /\ Set(result, q, o) \in [Requests -> Outcomes]
            /\ \A r \in Requests : Set(result, q, o)[r] = IF r \in Range(q) THEN o ELSE result[r]
        BY <1>10, <3>1, SetResult
      <3> QED  BY <3>2 DEF q
    <2> QED  BY <1>1, <2>1, <2>2
  <1>12. Range(<<>>) = {}  BY EmptyQueue
  <1>13. \A r \in Requests :
           result'[r] = "called" <=> \/ r \in Range(waiting') \/ r \in Range(p')
                                    \/ r \in Range(tested') \/ r \in late'
    BY <1>1, <1>3, <1>8, <1>10, <1>11, <1>12, QueueParts
  <1>14. Apart'  BY <1>1, <1>2, <1>3, <1>12 DEF Apart
  <1> QED
    BY <1>1, <1>2, <1>3, <1>5, <1>6, <1>8, <1>9, <1>11, <1>13, <1>14, QueueParts, QueuesNext

(* The requests among the promises.                                          *)
LEMMA PromisedIs ==
  ASSUME Queues
  PROVE  /\ Promised \in Seq(Requests) /\ Distinct(Promised)
         /\ Range(Promised) = Range(pendingResponsePRs) \ {Hello}
         /\ pendingResponsePRs = <<>> => Promised = <<>>
  <1> DEFINE p == pendingResponsePRs
  <1>1. /\ p \in Seq(Waiters) /\ Distinct(p) /\ \A i \in DOMAIN p : p[i] = Hello => i = 1
    BY QueueParts
  <1> HIDE DEF p
  <1>2. Promised = IF p # <<>> /\ Head(p) = Hello THEN Tail(p) ELSE p  BY DEF Promised, p
  <1>3. /\ Promised \in Seq(Waiters) /\ Distinct(Promised) /\ Range(Promised) = Range(p) \ {Hello}
    <2>1. CASE p # <<>> /\ Head(p) = Hello  BY <1>1, <1>2, <2>1, TailDistinct
    <2>2. CASE ~(p # <<>> /\ Head(p) = Hello)
      <3>1. Promised = p  BY <1>2, <2>2
      <3>2. Hello \notin Range(p)
        <4> SUFFICES ASSUME Hello \in Range(p) PROVE FALSE  OBVIOUS
        <4>1. PICK i \in 1..Len(p) : p[i] = Hello  BY <1>1, Members
        <4>2. i = 1  BY <1>1, <4>1, Members
        <4>3. p # <<>>  BY <1>1, <4>1, EmptySeq
        <4>4. Head(p) = p[1]  BY <1>1, <4>3
        <4> QED  BY <2>2, <4>1, <4>2, <4>3, <4>4
      <3> QED  BY <1>1, <3>1, <3>2
    <2> QED  BY <2>1, <2>2
  <1>4. Range(Promised) \subseteq Requests
    <2>1. Range(p) \subseteq Waiters  BY <1>1, RangeOfSeq
    <2> QED  BY <1>3, <2>1 DEF Waiters
  <1>5. Promised \in Seq(Range(Promised))  BY <1>3, SeqOfRange
  <1>6. Promised \in Seq(Requests)  BY <1>4, <1>5, SeqMonotonic
  <1> QED  BY <1>2, <1>3, <1>6 DEF p

LEMMA OnCloseQueues ==
  ASSUME Control, Queues, tested = <<>>, NEW s \in Socks, OnClose(s)
  PROVE  Queues'
  <1> DEFINE p == pendingResponsePRs
  <1>1. /\ state' # "open" /\ isOpen' = (IF isOpen = "killed" THEN "killed" ELSE "no")
        /\ up' = [up EXCEPT ![s] = <<>>] /\ down' = [down EXCEPT ![s] = <<>>]
        /\ tested' = (IF isOpen = "killed" THEN tested ELSE Promised)
        /\ UNCHANGED <<waiting, late>>
        /\ result' = (IF isOpen = "killed" THEN Set(result, Promised, "killed") ELSE result)
        /\ p' = <<>>
    BY DEF OnClose
  <1>2. <<>> \in Seq(Waiters) /\ <<>> \in Seq(Requests) /\ <<>> \in Seq(Answers)  BY EmptySeq
  <1>3. up' \in [Socks -> Seq(Requests)] /\ down' \in [Socks -> Seq(Answers)]
    BY <1>1, <1>2, QueueParts
  <1>4. /\ Range(<<>>) = {} /\ Distinct(<<>>) /\ DOMAIN <<>> = {}  BY EmptyQueue
  <1>5. p' \in Seq(Waiters) /\ Distinct(p') /\ \A i \in DOMAIN p' : p'[i] = Hello => i = 1
    BY <1>1, <1>2, <1>4
  <1>6. \A r \in Requests : r \in Range(Promised) <=> r \in Range(p)
    BY PromisedIs, WebAssumption
  <1>7. Promised \in Seq(Requests) /\ Distinct(Promised)  BY PromisedIs
  <1>8. CASE isOpen = "killed"
    <2>1. waiting = <<>> /\ waiting' = <<>> /\ isOpen' = "killed"  BY <1>1, <1>8, QueueParts
    <2>2. /\ result' \in [Requests -> Outcomes]
          /\ \A r \in Requests :
               result'[r] = IF r \in Range(Promised) THEN "killed" ELSE result[r]
      <3>1. "killed" \in Outcomes /\ result \in [Requests -> Outcomes]  BY QueueParts DEF Outcomes
      <3> QED  BY <1>1, <1>8, <3>1, SetResult
    <2>3. \A r \in late : r \notin Range(p) /\ r \notin Range(Promised)
      <3>1. late \subseteq Requests /\ Apart  BY QueueParts
      <3> QED  BY <1>6, <3>1 DEF Apart
    <2>4. tested' = <<>> /\ late' = late  BY <1>1, <1>8
    <2>5. \A r \in Requests :
            result'[r] = "called" <=> \/ r \in Range(waiting') \/ r \in Range(p')
                                     \/ r \in Range(tested') \/ r \in late'
      <3> SUFFICES ASSUME NEW r \in Requests
                   PROVE  result'[r] = "called" <=> r \in late
        BY <1>1, <1>4, <2>1, <2>4
      <3>1. result[r] = "called" <=> r \in Range(p) \/ r \in late  BY <1>4, <2>1, QueueParts
      <3>2. CASE r \in Range(Promised)  BY <2>2, <2>3, <3>2
      <3>3. CASE r \notin Range(Promised)
        <4>1. result'[r] = result[r] /\ r \notin Range(p)  BY <1>6, <2>2, <3>3
        <4> QED  BY <3>1, <4>1
      <3> QED  BY <3>2, <3>3
    <2>6. Apart'  BY <1>1, <1>4, <2>1, <2>4 DEF Apart
    <2> QED
      BY <1>1, <1>2, <1>3, <1>4, <1>5, <2>1, <2>2, <2>4, <2>5, <2>6, QueueParts, QueuesNext
  <1>9. CASE isOpen # "killed"
    <2>1. /\ isOpen' = "no" /\ result' = result /\ tested' = Promised /\ late = {}
          /\ waiting' = waiting /\ late' = {}
      BY <1>1, <1>9, QueueParts DEF Apart
    <2>2. \A r \in Requests : r \in Range(Promised) => r \notin Range(waiting)
      <3>1. CASE isOpen = "no"
        <4>1. Promised = <<>>  BY <3>1, QueueParts, PromisedIs
        <4> QED  BY <1>4, <4>1
      <3>2. CASE isOpen = "yes"
        <4>1. waiting = <<>>  BY <3>2, QueueParts
        <4> QED  BY <1>4, <4>1
      <3> QED  BY <1>9, <3>1, <3>2, OpenSocket
    <2>3. \A r \in Requests :
            result'[r] = "called" <=> \/ r \in Range(waiting') \/ r \in Range(p')
                                     \/ r \in Range(tested') \/ r \in late'
      BY <1>1, <1>4, <1>6, <2>1, QueueParts
    <2>4. result' \in [Requests -> Outcomes]  BY <2>1, QueueParts
    <2>5. Apart'
      <3>1. Range(Promised) \subseteq Requests  BY <1>7, RangeOfSeq
      <3> QED  BY <1>1, <1>4, <2>1, <2>2, <3>1 DEF Apart
    <2> QED
      BY <1>1, <1>3, <1>5, <1>7, <2>1, <2>3, <2>4, <2>5, QueueParts, QueuesNext
  <1> QED  BY <1>8, <1>9

LEMMA ThrottleQueues == ASSUME Control, Queues, Throttle PROVE Queues'
  <1>1. /\ state' # "open"
        /\ UNCHANGED <<isOpen, pendingResponsePRs, waiting, result, tested, late, up, down>>
    BY DEF Throttle, conn
  <1>2. Apart'  BY <1>1, QueueParts DEF Apart
  <1> QED  BY <1>1, <1>2, QueueParts, QueuesNext

LEMMA KillQueues == ASSUME Control, Queues, Kill PROVE Queues'
  <1>1. /\ state' = "dead" /\ isOpen' = "killed" /\ waiting' = <<>>
        /\ result' = Set(result, waiting, "killed")
        /\ late' = Range(tested)
        /\ UNCHANGED <<tested, pendingResponsePRs, up, down>>
        /\ state \in {"connecting", "open", "openThrottle"}
    BY DEF Kill
  <1>2. Range(<<>>) = {} /\ Distinct(<<>>) /\ <<>> \in Seq(Requests)  BY EmptyQueue, EmptySeq
  <1>3. "killed" \in Outcomes /\ result \in [Requests -> Outcomes]  BY QueueParts DEF Outcomes
  <1>4. /\ result' \in [Requests -> Outcomes]
        /\ \A r \in Requests : result'[r] = IF r \in Range(waiting) THEN "killed" ELSE result[r]
    BY <1>1, <1>3, SetResult
  <1>5. \A r \in Requests : r \in Range(waiting) => r \notin Range(pendingResponsePRs)
    <2>1. CASE isOpen = "no"  BY <1>2, <2>1, QueueParts
    <2>2. CASE isOpen # "no"  BY <1>2, <2>2, QueueParts
    <2> QED  BY <2>1, <2>2
  <1>6. isOpen # "killed" /\ late = {} /\ Apart
    <2>1. isOpen # "killed"  BY <1>1 DEF Control, KilledStays
    <2> QED  BY <2>1, QueueParts DEF Apart
  <1>7. \A r \in Range(tested) : r \notin Range(waiting) /\ r \notin Range(pendingResponsePRs)
    BY <1>6 DEF Apart
  <1>8. \A r \in Requests :
          result'[r] = "called" <=> \/ r \in Range(waiting') \/ r \in Range(pendingResponsePRs')
                                   \/ r \in Range(tested') \/ r \in late'
    BY <1>1, <1>2, <1>4, <1>5, <1>6, <1>7, QueueParts
  <1>9. Apart'  BY <1>1, <1>2, <1>7 DEF Apart
  <1>10. late' \subseteq Requests
    <2>1. tested \in Seq(Requests)  BY QueueParts
    <2> QED  BY <1>1, <2>1, RangeOfSeq
  <1> QED  BY <1>1, <1>2, <1>4, <1>8, <1>9, <1>10, QueueParts, QueuesNext

-----------------------------------------------------------------------------
(* Both halves, by the event.                                                *)
LEMMA WebStep == Control /\ Queues /\ [WebNext]_webVars => Control' /\ Queues'
  <1> SUFFICES ASSUME Control, Queues, [WebNext]_webVars PROVE Control' /\ Queues'  OBVIOUS
  <1>1. ASSUME NEW r \in Requests, RawRequest(r) PROVE Control' /\ Queues'
    <2>1. UNCHANGED <<state, socket, wantOpen, throttles, isOpen, sock, killedIn, asserted>>
      BY <1>1 DEF RawRequest, wrapper
    <2> QED  BY <1>1, <2>1, ControlKept, RawRequestQueues
  <1>2. ASSUME NEW s \in Socks, ServerAnswers(s) PROVE Control' /\ Queues'
    <2>1. UNCHANGED <<state, socket, wantOpen, throttles, isOpen, sock, killedIn, asserted>>
      BY <1>2 DEF ServerAnswers, wrapper, conn
    <2> QED  BY <1>2, <2>1, ControlKept, ServerAnswersQueues
  <1>3. ASSUME tested = <<>>, NEW s \in Socks, OnOpen(s) PROVE Control' /\ Queues'
    BY <1>3, OnOpenControl, OnOpenQueues
  <1>4. ASSUME NEW s \in Socks, OnOpenStray(s) PROVE Control' /\ Queues'
    <2> DEFINE d == <<[to |-> Hello, ok |-> TRUE]>>
    <2>1. /\ sock[s] = "connecting" /\ socket # s /\ asserted' = TRUE
          /\ sock' = [sock EXCEPT ![s] = "open"] /\ down' = [down EXCEPT ![s] = d]
          /\ UNCHANGED <<state, socket, wantOpen, throttles, isOpen, killedIn,
                         pendingResponsePRs, waiting, result, up, tested, late>>
      BY <1>4 DEF OnOpenStray, wrapper, conn
    <2>2. d \in Seq(Answers)
      <3>1. TRUE \in BOOLEAN  OBVIOUS
      <3> QED  BY <3>1, OpenedTo
    <2> HIDE DEF d
    <2>3. Control'  BY <2>1, StrayControl
    <2>4. Queues'  BY <2>1, <2>2, StrayQueues
    <2> QED  BY <2>3, <2>4
  <1>5. ASSUME NEW s \in Socks, OnMessageStray(s) PROVE Control' /\ Queues'
    <2>1. /\ sock[s] = "open" /\ socket # s /\ asserted' = TRUE /\ sock' = sock /\ down[s] # <<>>
          /\ down' = [down EXCEPT ![s] = Tail(down[s])]
          /\ UNCHANGED <<state, socket, wantOpen, throttles, isOpen, killedIn,
                         pendingResponsePRs, waiting, result, up, tested, late>>
      BY <1>5 DEF OnMessageStray, wrapper, conn
    <2>2. down[s] \in Seq(Answers)  BY QueueParts
    <2>3. Tail(down[s]) \in Seq(Answers)  BY <2>1, <2>2, HeadTailProperties
    <2>4. Control'  BY <2>1, StrayControl
    <2>5. Queues'  BY <2>1, <2>3, StrayQueues
    <2> QED  BY <2>4, <2>5
  <1>6. ASSUME NEW s \in Socks, OnMessage(s) PROVE Control' /\ Queues'
    <2>1. UNCHANGED <<state, socket, wantOpen, throttles, isOpen, sock, killedIn, asserted>>
      BY <1>6 DEF OnMessage, wrapper
    <2> QED  BY <1>6, <2>1, ControlKept, OnMessageQueues
  <1>7. ASSUME tested = <<>>, NEW s \in Socks, OnClose(s) PROVE Control' /\ Queues'
    BY <1>7, OnCloseControl, OnCloseQueues
  <1>8. CASE Throttle  BY <1>8, ThrottleControl, ThrottleQueues
  <1>9. CASE Kill  BY <1>9, KillControl, KillQueues
  <1>10. CASE UNCHANGED webVars
    <2>1. /\ UNCHANGED <<state, socket, wantOpen, throttles, isOpen, sock, killedIn, asserted>>
          /\ UNCHANGED <<pendingResponsePRs, waiting, result, tested, late, up, down>>
      BY <1>10 DEF webVars, wrapper, conn, net
    <2>2. Control'  BY <2>1, ControlKept
    <2>3. Apart'  BY <2>1, QueueParts DEF Apart
    <2>4. Queues'  BY <2>1, <2>3, QueueParts, QueuesNext
    <2> QED  BY <2>2, <2>4
  <1>11. CASE Subscribe
    <2>1. UNCHANGED <<state, socket, wantOpen, throttles, isOpen, sock, killedIn, asserted>>
      BY <1>11 DEF Subscribe, wrapper, net
    <2> QED  BY <1>11, <2>1, ControlKept, SubscribeQueues
  <1> QED
    BY <1>1, <1>2, <1>3, <1>4, <1>5, <1>6, <1>7, <1>8, <1>9, <1>10, <1>11 DEF WebNext, Browser

(* The web client, for every set of requests and any number of sockets: one  *)
(* socket lives, a kill is final, every answer meets the promise of its own  *)
(* request, and no call is sent twice over one socket, or forgotten, but for *)
(* those that a kill overtook before they subscribed (client.html:790-942).  *)
THEOREM WebInvariant == WebSpec => []WebInv
  <1>1. Control /\ Queues => WebInv
    <2> SUFFICES ASSUME Control, Queues PROVE WebInv  OBVIOUS
    <2>1. WebTypeOK
      BY DEF Control, Queues, WrapperTypes, QueueTypes, WebTypeOK, Answers, Waiters
    <2> QED  BY <2>1 DEF Control, Queues, WebInv
  <1> QED  BY <1>1, ControlInit, QueuesInit, WebStep, PTL DEF WebSpec
==============================================================================
