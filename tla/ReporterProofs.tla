--------------------------- MODULE ReporterProofs ---------------------------
(***************************************************************************)
(* Proofs about the reporters of main.cpp: CollReport and HitboxReport,    *)
(* for every set of colliders, scols and hitboxes, every capacity of the   *)
(* tables and of the queue.  Both follow one idea: whatever the client     *)
(* must know is said in the queue after the packet that began its picture, *)
(* or an overrun comes after that packet.                                  *)
(***************************************************************************)
EXTENDS CollReport, HitboxReport, FiniteSetTheorems, TLAPS

-----------------------------------------------------------------------------
(* Positions in a sequence of packets; 0 is what was read before it.         *)
Pos(q, T) == {i \in 1..Len(q) : q[i] \in T}
From(b, q, T) == {i \in 0..Len(q) : IF i = 0 THEN b ELSE q[i] \in T}

(* From each beginning (in S, or b) with no overrun (in O) after it, a       *)
(* packet of A (or a) follows that none of R contradicts.                    *)
Covered(q, b, a, S, O, A, R) ==
  \A i \in From(b, q, S) :
    (\A j \in Pos(q, O) : j <= i)
      => \E k \in From(a, q, A) : i <= k /\ \A j \in Pos(q, R) : j <= k

(* An overrun comes after each beginning.                                    *)
Spoilt(q, b, S, O) == \A i \in From(b, q, S) : \E j \in Pos(q, O) : i < j

(* Appending a packet (hose::write_packet): where everything is.             *)
LEMMA AppendPositions ==
  ASSUME NEW X, NEW q \in Seq(X), NEW p \in X
  PROVE  /\ Append(q, p) \in Seq(X) /\ Len(Append(q, p)) = Len(q) + 1
         /\ \A i \in 1..Len(q) : Append(q, p)[i] = q[i]
         /\ Append(q, p)[Len(q) + 1] = p
  OBVIOUS

(* Sending the first packet (hose::do_iter): where everything is.            *)
LEMMA TailPositions ==
  ASSUME NEW X, NEW q \in Seq(X), q # <<>>
  PROVE  /\ Tail(q) \in Seq(X) /\ Len(Tail(q)) = Len(q) - 1 /\ Len(q) \in Nat \ {0}
         /\ \A i \in 1..(Len(q) - 1) : Tail(q)[i] = q[i + 1]
         /\ Head(q) = q[1] /\ q[1] \in X
  OBVIOUS

(* Dropping the first packets (hose::do_iter, a new connection): where       *)
(* everything is.                                                            *)
LEMMA DropPositions ==
  ASSUME NEW X, NEW q \in Seq(X), NEW n \in 0..Len(q)
  PROVE  /\ SubSeq(q, n + 1, Len(q)) \in Seq(X)
         /\ Len(SubSeq(q, n + 1, Len(q))) = Len(q) - n
         /\ \A i \in 1..(Len(q) - n) : SubSeq(q, n + 1, Len(q))[i] = q[n + i]
  OBVIOUS

(* A hook's packets after those of the queue: where everything is.           *)
LEMMA ConcatPositions ==
  ASSUME NEW X, NEW q \in Seq(X), NEW r \in Seq(X)
  PROVE  /\ q \o r \in Seq(X) /\ Len(q \o r) = Len(q) + Len(r)
         /\ \A i \in 1..Len(q) : (q \o r)[i] = q[i]
         /\ \A i \in 1..Len(r) : (q \o r)[Len(q) + i] = r[i]
  OBVIOUS

-----------------------------------------------------------------------------
(* A queue that was spoilt covers everything (hose::write_overrun).          *)
LEMMA SpoiltCovers ==
  ASSUME NEW q, NEW b, NEW a, NEW S, NEW O, NEW A, NEW R, Spoilt(q, b, S, O)
  PROVE  Covered(q, b, a, S, O, A, R)
<1> SUFFICES ASSUME NEW i \in From(b, q, S), \A j \in Pos(q, O) : j <= i
             PROVE  FALSE
  BY DEF Covered
<1>1. PICK j \in Pos(q, O) : i < j
  BY DEF Spoilt
<1>2. j <= i /\ i \in 0..Len(q) /\ j \in 1..Len(q)
  BY DEF Pos, From
<1> QED BY <1>1, <1>2

(* A packet that neither begins a picture nor contradicts the word may be    *)
(* appended.                                                                 *)
LEMMA CoveredAppend ==
  ASSUME NEW X, NEW q \in Seq(X), NEW p \in X, NEW b, NEW a,
         NEW S, NEW O, NEW A, NEW R,
         Covered(q, b, a, S, O, A, R), p \notin S, p \notin R
  PROVE  Covered(Append(q, p), b, a, S, O, A, R)
<1> DEFINE r == Append(q, p)
           n == Len(q)
<1>1. n \in Nat /\ Len(r) = n + 1 /\ r[n + 1] = p /\ \A i \in 1..n : r[i] = q[i]
  BY AppendPositions
<1> HIDE DEF r
<1> SUFFICES ASSUME NEW i \in From(b, r, S), \A j \in Pos(r, O) : j <= i
             PROVE  \E k \in From(a, r, A) : i <= k /\ \A j \in Pos(r, R) : j <= k
  BY DEF Covered, r
<1>2. i \in From(b, q, S)
  BY <1>1 DEF From
<1>3. \A j \in Pos(q, O) : j <= i
  BY <1>1 DEF Pos
<1>4. PICK k \in From(a, q, A) : i <= k /\ \A j \in Pos(q, R) : j <= k
  BY <1>2, <1>3 DEF Covered
<1>5. k \in From(a, r, A)
  BY <1>1 DEF From
<1>6. Pos(r, R) \subseteq Pos(q, R)
  BY <1>1 DEF Pos
<1> QED BY <1>4, <1>5, <1>6

(* The word itself may be appended at any time.                              *)
LEMMA CoveredByAppend ==
  ASSUME NEW X, NEW q \in Seq(X), NEW p \in X, NEW b, NEW a,
         NEW S, NEW O, NEW A, NEW R, p \in A
  PROVE  Covered(Append(q, p), b, a, S, O, A, R)
<1> DEFINE r == Append(q, p)
           n == Len(q)
<1>1. n \in Nat /\ Len(r) = n + 1 /\ r[n + 1] = p
  BY AppendPositions
<1> HIDE DEF r
<1>2. n + 1 \in From(a, r, A) /\ From(b, r, S) \subseteq 0..(n + 1)
      /\ Pos(r, R) \subseteq 1..(n + 1)
  BY <1>1 DEF From, Pos
<1> QED BY <1>1, <1>2 DEF Covered, r

(* The client reads the first packet.                                        *)
LEMMA CoveredTail ==
  ASSUME NEW X, NEW q \in Seq(X), q # <<>>,
         NEW b, NEW a, NEW bb, NEW aa, NEW S, NEW O, NEW A, NEW R,
         Covered(q, b, a, S, O, A, R),
         bb => (b /\ Head(q) \notin O) \/ (Head(q) \in S /\ Head(q) \notin O),
         (a /\ Head(q) \notin R) \/ (Head(q) \in A /\ Head(q) \notin R) => aa,
         \A p \in X : ~(p \in A /\ p \in R)
  PROVE  Covered(Tail(q), bb, aa, S, O, A, R)
<1> DEFINE r == Tail(q)
           n == Len(q) - 1
<1>1. n \in Nat /\ Len(q) = n + 1 /\ Len(r) = n /\ q[1] = Head(q) /\ q[1] \in X
      /\ \A i \in 1..n : r[i] = q[i + 1]
  BY TailPositions
<1> HIDE DEF r, n
<1> SUFFICES ASSUME NEW i \in From(bb, r, S), \A j \in Pos(r, O) : j <= i
             PROVE  \E k \in From(aa, r, A) : i <= k /\ \A j \in Pos(r, R) : j <= k
  BY DEF Covered, r
<1>2. PICK m \in From(b, q, S) : m <= i + 1 /\ (i > 0 => m = i + 1)
                                 /\ \A j \in Pos(q, O) : j <= m
  <2>1. CASE i > 0
    <3>1. i + 1 \in From(b, q, S)
      BY <1>1, <2>1 DEF From
    <3>2. i \in 1..n
      BY <1>1, <2>1 DEF From
    <3>3. \A j \in Pos(q, O) : j <= i + 1
      <4> SUFFICES ASSUME NEW j \in Pos(q, O), j > i + 1 PROVE FALSE
        BY <3>2 DEF Pos
      <4>1. j - 1 \in Pos(r, O) /\ j \in Nat
        BY <1>1, <3>2 DEF Pos
      <4> QED BY <4>1, <3>2
    <3> QED BY <3>1, <3>2, <3>3, <2>1
  <2>2. CASE i = 0
    <3>1. Head(q) \notin O /\ bb
      BY <2>2 DEF From
    <3>2. Pos(q, O) = {}
      <4> SUFFICES ASSUME NEW j \in Pos(q, O) PROVE FALSE
        OBVIOUS
      <4>1. j \in 1..(n + 1) /\ j # 1 /\ q[j] \in O
        BY <1>1, <3>1 DEF Pos
      <4>2. j - 1 \in Pos(r, O)
        BY <4>1, <1>1 DEF Pos
      <4> QED BY <4>1, <4>2, <2>2
    <3>3. 0 \in From(b, q, S) \/ 1 \in From(b, q, S)
      BY <3>1, <1>1 DEF From
    <3> QED BY <3>2, <3>3, <2>2
  <2> QED BY <2>1, <2>2, <1>1 DEF From
<1>3. PICK k \in From(a, q, A) : m <= k /\ \A j \in Pos(q, R) : j <= k
  BY <1>2 DEF Covered
<1>4. k \in 0..(n + 1) /\ i \in 0..n /\ m \in 0..(n + 1)
  BY <1>1 DEF From
<1>5. CASE k > 1
  <2>1. k - 1 \in From(aa, r, A)
    BY <1>1, <1>4, <1>5 DEF From
  <2>2. \A j \in Pos(r, R) : j <= k - 1
    <3> SUFFICES ASSUME NEW j \in Pos(r, R) PROVE j + 1 <= k /\ j \in Nat
      BY <1>4
    <3>1. j + 1 \in Pos(q, R) /\ j \in Nat
      BY <1>1 DEF Pos
    <3> QED BY <3>1, <1>3
  <2>3. i <= k - 1
    BY <1>2, <1>3, <1>4, <1>5
  <2> QED BY <2>1, <2>2, <2>3
<1>6. CASE k <= 1
  <2>1. i = 0
    BY <1>2, <1>3, <1>4, <1>6
  <2>2. Head(q) \notin R
    <3> SUFFICES ASSUME Head(q) \in R PROVE FALSE
      OBVIOUS
    <3>1. 1 \in Pos(q, R)
      BY <1>1 DEF Pos
    <3>2. k = 1
      BY <3>1, <1>3, <1>4, <1>6
    <3> QED BY <3>2, <1>1 DEF From
  <2>3. aa
    BY <2>2, <1>1, <1>4, <1>6 DEF From
  <2>4. Pos(r, R) = {}
    <3> SUFFICES ASSUME NEW j \in Pos(r, R) PROVE FALSE
      OBVIOUS
    <3>1. j + 1 \in Pos(q, R) /\ j \in 1..n
      BY <1>1 DEF Pos
    <3> QED BY <3>1, <1>3, <1>4, <1>6
  <2>5. 0 \in From(aa, r, A)
    BY <2>3, <1>1 DEF From
  <2> QED BY <2>1, <2>4, <2>5
<1> QED BY <1>4, <1>5, <1>6

(* The first packets are dropped, and the client starts anew.                *)
LEMMA CoveredDrop ==
  ASSUME NEW X, NEW q \in Seq(X), NEW m \in 0..Len(q), NEW b, NEW a, NEW aa,
         NEW S, NEW O, NEW A, NEW R, Covered(q, b, a, S, O, A, R)
  PROVE  Covered(SubSeq(q, m + 1, Len(q)), FALSE, aa, S, O, A, R)
<1> DEFINE r == SubSeq(q, m + 1, Len(q))
           n == Len(q) - m
<1>1. n \in Nat /\ m \in Nat /\ Len(q) = m + n /\ Len(r) = n
      /\ \A i \in 1..n : r[i] = q[m + i]
  BY DropPositions
<1> HIDE DEF r, n
<1> SUFFICES ASSUME NEW i \in From(FALSE, r, S), \A j \in Pos(r, O) : j <= i
             PROVE  \E k \in From(aa, r, A) : i <= k /\ \A j \in Pos(r, R) : j <= k
  BY DEF Covered, r
<1>2. i \in 1..n /\ m + i \in From(b, q, S)
  BY <1>1 DEF From
<1>3. \A j \in Pos(q, O) : j <= m + i
  <2> SUFFICES ASSUME NEW j \in Pos(q, O), j > m + i PROVE FALSE
    BY <1>1, <1>2 DEF Pos
  <2>1. j - m \in Pos(r, O) /\ j \in Nat
    BY <1>1, <1>2 DEF Pos
  <2> QED BY <2>1, <1>1, <1>2
<1>4. PICK k \in From(a, q, A) : m + i <= k /\ \A j \in Pos(q, R) : j <= k
  BY <1>2, <1>3 DEF Covered
<1>5. k - m \in From(aa, r, A) /\ i <= k - m /\ k \in Nat
  BY <1>1, <1>2, <1>4 DEF From
<1>6. \A j \in Pos(r, R) : m + j \in Pos(q, R) /\ j \in Nat
  BY <1>1 DEF Pos
<1>7. \A j \in Pos(r, R) : j <= k - m
  BY <1>1, <1>4, <1>5, <1>6
<1> QED BY <1>5, <1>7

(* The client forgets that a picture began.                                  *)
LEMMA CoveredForget ==
  ASSUME NEW q, NEW b, NEW a, NEW S, NEW O, NEW A, NEW R, Covered(q, b, a, S, O, A, R)
  PROVE  Covered(q, FALSE, a, S, O, A, R)
<1>1. From(FALSE, q, S) \subseteq From(b, q, S)
  BY DEF From
<1> QED BY <1>1 DEF Covered

(* Packets that neither begin a picture nor contradict the word may follow.  *)
LEMMA CoveredConcat ==
  ASSUME NEW X, NEW q \in Seq(X), NEW r \in Seq(X), NEW b, NEW a,
         NEW S, NEW O, NEW A, NEW R,
         Covered(q, b, a, S, O, A, R), \A i \in 1..Len(r) : r[i] \notin S /\ r[i] \notin R
  PROVE  Covered(q \o r, b, a, S, O, A, R)
<1> DEFINE w == q \o r
           n == Len(q)
           m == Len(r)
<1>1. n = Len(q) /\ n \in Nat /\ m \in Nat /\ Len(w) = n + m
      /\ (\A i \in 1..n : w[i] = q[i]) /\ (\A i \in 1..m : w[n + i] = r[i])
  BY ConcatPositions
<1> HIDE DEF w, n
<1>2. \A i \in 1..(n + m) : i \in 1..n \/ (i - n \in 1..m /\ w[i] = r[i - n])
  <2> SUFFICES ASSUME NEW i \in 1..(n + m), i \notin 1..n
               PROVE  i - n \in 1..m /\ w[i] = r[i - n]
    OBVIOUS
  <2> DEFINE j == i - n
  <2>1. j \in 1..m /\ n + j = i
    BY <1>1
  <2> HIDE DEF j
  <2>2. w[i] = r[j]
    BY <1>1, <2>1
  <2> QED BY <2>1, <2>2 DEF j
<1>3. \A i \in 1..(n + m) : w[i] \in S \/ w[i] \in R => i \in 1..n
  BY <1>2
<1> SUFFICES ASSUME NEW i \in From(b, w, S), \A j \in Pos(w, O) : j <= i
             PROVE  \E k \in From(a, w, A) : i <= k /\ \A j \in Pos(w, R) : j <= k
  BY DEF Covered, w
<1>4. i \in From(b, q, S)
  BY <1>1, <1>3 DEF From
<1>5. \A j \in Pos(q, O) : j <= i
  BY <1>1 DEF Pos
<1>6. PICK k \in From(a, q, A) : i <= k /\ \A j \in Pos(q, R) : j <= k
  BY <1>4, <1>5 DEF Covered
<1>7. k \in From(a, w, A)
  BY <1>1 DEF From
<1>8. Pos(w, R) \subseteq Pos(q, R)
  BY <1>1, <1>3 DEF Pos
<1> QED BY <1>6, <1>7, <1>8

(* A full dump: it begins a picture and says every word.                     *)
LEMMA CoveredByDump ==
  ASSUME NEW X, NEW q \in Seq(X), NEW r \in Seq(X), NEW b, NEW a,
         NEW S, NEW O, NEW A, NEW R,
         \A i \in 1..Len(r) : r[i] \notin R /\ (r[i] \in S => i = 1),
         NEW k \in 1..Len(r), r[k] \in A
  PROVE  Covered(q \o r, b, a, S, O, A, R)
<1> DEFINE w == q \o r
           n == Len(q)
           m == Len(r)
<1>1. n \in Nat /\ m \in Nat /\ Len(w) = n + m
      /\ (\A i \in 1..n : w[i] = q[i]) /\ (\A i \in 1..m : w[n + i] = r[i])
  BY ConcatPositions
<1> HIDE DEF w, n
<1> SUFFICES ASSUME NEW i \in From(b, w, S)
             PROVE  \E l \in From(a, w, A) : i <= l /\ \A j \in Pos(w, R) : j <= l
  BY DEF Covered, w
<1>2. n + k \in From(a, w, A)
  BY <1>1 DEF From
<1>3. i <= n + 1
  <2> SUFFICES ASSUME i > n + 1 PROVE FALSE
    BY <1>1 DEF From
  <2>1. i - n \in 1..m /\ w[n + (i - n)] \in S /\ i - n # 1
    BY <1>1 DEF From
  <2> QED BY <2>1, <1>1
<1>4. ASSUME NEW j \in Pos(w, R) PROVE j <= n
  <2> SUFFICES ASSUME j > n PROVE FALSE
    BY <1>1 DEF Pos
  <2>1. j - n \in 1..m /\ w[n + (j - n)] \in R
    BY <1>1 DEF Pos
  <2> QED BY <2>1, <1>1
<1>5. i \in Nat /\ \A j \in Pos(w, R) : j \in Nat
  BY DEF From, Pos
<1> QED BY <1>1, <1>2, <1>3, <1>4, <1>5

(* Packets that begin no picture may follow what was spoilt.                 *)
LEMMA SpoiltConcat ==
  ASSUME NEW X, NEW q \in Seq(X), NEW r \in Seq(X), NEW b, NEW S, NEW O,
         Spoilt(q, b, S, O), \A i \in 1..Len(r) : r[i] \notin S
  PROVE  Spoilt(q \o r, b, S, O)
<1> DEFINE w == q \o r
           n == Len(q)
           m == Len(r)
<1>1. n = Len(q) /\ n \in Nat /\ m \in Nat /\ Len(w) = n + m
      /\ (\A i \in 1..n : w[i] = q[i]) /\ (\A i \in 1..m : w[n + i] = r[i])
  BY ConcatPositions
<1> HIDE DEF w, n
<1> SUFFICES ASSUME NEW i \in From(b, w, S) PROVE \E j \in Pos(w, O) : i < j
  BY DEF Spoilt, w
<1>2. i <= n
  <2> SUFFICES ASSUME i > n PROVE FALSE
    BY <1>1 DEF From
  <2>1. i - n \in 1..m /\ w[n + (i - n)] \in S
    BY <1>1 DEF From
  <2> QED BY <2>1, <1>1
<1>3. i \in From(b, q, S)
  BY <1>1, <1>2 DEF From
<1>4. PICK j \in Pos(q, O) : i < j
  BY <1>3 DEF Spoilt
<1>5. j \in Pos(w, O)
  BY <1>1 DEF Pos
<1> QED BY <1>4, <1>5

(* An overrun spoils everything.                                             *)
LEMMA SpoiltByOverrun ==
  ASSUME NEW X, NEW q \in Seq(X), NEW p \in X, NEW b, NEW S, NEW O, p \in O, p \notin S
  PROVE  Spoilt(Append(q, p), b, S, O)
<1> DEFINE r == Append(q, p)
           n == Len(q)
<1>1. n \in Nat /\ Len(r) = n + 1 /\ r[n + 1] = p
  BY AppendPositions
<1> HIDE DEF r
<1>2. n + 1 \in Pos(r, O) /\ \A i \in From(b, r, S) : i < n + 1
  BY <1>1 DEF Pos, From
<1> QED BY <1>2 DEF Spoilt, r

(* The client reads the first packet of what was spoilt.                     *)
LEMMA SpoiltTail ==
  ASSUME NEW X, NEW q \in Seq(X), q # <<>>, NEW b, NEW bb, NEW S, NEW O,
         Spoilt(q, b, S, O), bb => (b /\ Head(q) \notin O) \/ Head(q) \in S,
         \A p \in X : ~(p \in S /\ p \in O)
  PROVE  Spoilt(Tail(q), bb, S, O)
<1> DEFINE r == Tail(q)
           n == Len(q) - 1
<1>1. n \in Nat /\ Len(q) = n + 1 /\ Len(r) = n /\ q[1] = Head(q) /\ q[1] \in X
      /\ \A i \in 1..n : r[i] = q[i + 1]
  BY TailPositions
<1> HIDE DEF r, n
<1> SUFFICES ASSUME NEW i \in From(bb, r, S) PROVE \E j \in Pos(r, O) : i < j
  BY DEF Spoilt, r
<1>2. i \in 0..n /\ (i > 0 => i + 1 \in From(b, q, S))
      /\ (i = 0 => (0 \in From(b, q, S) /\ q[1] \notin O) \/ 1 \in From(b, q, S))
  BY <1>1 DEF From
<1>3. PICK j \in Pos(q, O) : i + 1 < j
  <2>1. CASE i > 0
    BY <2>1, <1>2 DEF Spoilt
  <2>2. CASE i = 0 /\ 1 \in From(b, q, S)
    BY <2>2, <1>2 DEF Spoilt
  <2>3. CASE i = 0 /\ 0 \in From(b, q, S) /\ q[1] \notin O
    <3>1. PICK j \in Pos(q, O) : 0 < j
      BY <2>3 DEF Spoilt
    <3>2. j # 1 /\ j \in Nat
      BY <2>3 DEF Pos
    <3> QED BY <3>1, <3>2, <2>3
  <2> QED BY <2>1, <2>2, <2>3, <1>2
<1>4. j - 1 \in Pos(r, O) /\ j \in Nat
  BY <1>1, <1>2, <1>3 DEF Pos
<1> QED BY <1>2, <1>3, <1>4

(* The first packets of what was spoilt are dropped.                         *)
LEMMA SpoiltDrop ==
  ASSUME NEW X, NEW q \in Seq(X), NEW m \in 0..Len(q), NEW b, NEW S, NEW O,
         Spoilt(q, b, S, O)
  PROVE  Spoilt(SubSeq(q, m + 1, Len(q)), FALSE, S, O)
<1> DEFINE r == SubSeq(q, m + 1, Len(q))
           n == Len(q) - m
<1>1. n \in Nat /\ m \in Nat /\ Len(q) = m + n /\ Len(r) = n
      /\ \A i \in 1..n : r[i] = q[m + i]
  BY DropPositions
<1> HIDE DEF r, n
<1> SUFFICES ASSUME NEW i \in From(FALSE, r, S) PROVE \E j \in Pos(r, O) : i < j
  BY DEF Spoilt, r
<1>2. i \in 1..n /\ m + i \in From(b, q, S)
  BY <1>1 DEF From
<1>3. PICK j \in Pos(q, O) : m + i < j
  BY <1>2 DEF Spoilt
<1>4. j - m \in Pos(r, O) /\ j \in Nat
  BY <1>1, <1>2, <1>3 DEF Pos
<1> QED BY <1>1, <1>2, <1>3, <1>4

-----------------------------------------------------------------------------
(* Does A, or a before it, have the last word against R?                     *)
Said(q, a, A, R) == LastWord(From(a, q, A), Pos(q, R))

(* A client whose picture began and was not spoilt has been told.            *)
LEMMA CoveredIsSaid ==
  ASSUME NEW q, NEW b, NEW a, NEW S, NEW O, NEW A, NEW R,
         Covered(q, b, a, S, O, A, R), Said(q, b, S, O)
  PROVE  Said(q, a, A, R)
  BY DEF Covered, Said, LastWord

(* A packet about something else changes no last word.                       *)
LEMMA SaidAppend ==
  ASSUME NEW X, NEW q \in Seq(X), NEW p \in X, NEW a, NEW A, NEW R,
         p \notin A, p \notin R
  PROVE  Said(Append(q, p), a, A, R) <=> Said(q, a, A, R)
<1> DEFINE r == Append(q, p)
           n == Len(q)
<1>1. n \in Nat /\ Len(r) = n + 1 /\ r[n + 1] = p /\ \A i \in 1..n : r[i] = q[i]
  BY AppendPositions
<1> HIDE DEF r
<1>2. From(a, r, A) = From(a, q, A)
  BY <1>1 DEF From
<1>3. Pos(r, R) = Pos(q, R)
  BY <1>1 DEF Pos
<1> QED BY <1>2, <1>3 DEF Said, r

(* A word just appended is the last.                                         *)
LEMMA SaidByAppend ==
  ASSUME NEW X, NEW q \in Seq(X), NEW p \in X, NEW a, NEW A, NEW R, p \in A
  PROVE  Said(Append(q, p), a, A, R)
<1> DEFINE r == Append(q, p)
           n == Len(q)
<1>1. n \in Nat /\ Len(r) = n + 1 /\ r[n + 1] = p
  BY AppendPositions
<1> HIDE DEF r
<1>2. n + 1 \in From(a, r, A) /\ Pos(r, R) \subseteq 1..(n + 1)
  BY <1>1 DEF From, Pos
<1> QED BY <1>1, <1>2 DEF Said, LastWord, r

(* And so is a word against it.                                              *)
LEMMA UnsaidByAppend ==
  ASSUME NEW X, NEW q \in Seq(X), NEW p \in X, NEW a, NEW A, NEW R,
         p \in R, p \notin A
  PROVE  ~Said(Append(q, p), a, A, R)
<1> DEFINE r == Append(q, p)
           n == Len(q)
<1>1. n \in Nat /\ Len(r) = n + 1 /\ r[n + 1] = p
  BY AppendPositions
<1> HIDE DEF r
<1>2. n + 1 \in Pos(r, R) /\ \A i \in From(a, r, A) : i \in 0..n
  BY <1>1 DEF From, Pos
<1> QED BY <1>1, <1>2 DEF Said, LastWord, r

(* Reading the first packet changes no last word.                            *)
LEMMA SaidTail ==
  ASSUME NEW X, NEW q \in Seq(X), q # <<>>, NEW a, NEW aa, NEW A, NEW R,
         aa <=> (a /\ Head(q) \notin R) \/ Head(q) \in A,
         \A p \in X : ~(p \in A /\ p \in R)
  PROVE  Said(Tail(q), aa, A, R) <=> Said(q, a, A, R)
<1> DEFINE r == Tail(q)
           n == Len(q) - 1
<1>1. n \in Nat /\ Len(q) = n + 1 /\ Len(r) = n /\ q[1] = Head(q) /\ q[1] \in X
      /\ \A i \in 1..n : r[i] = q[i + 1]
  BY TailPositions
<1> HIDE DEF r, n
<1>2. ASSUME Said(r, aa, A, R) PROVE Said(q, a, A, R)
  <2>1. PICK i \in From(aa, r, A) : \A j \in Pos(r, R) : j <= i
    BY <1>2 DEF Said, LastWord
  <2>2. i \in 0..n
    BY <1>1, <2>1 DEF From
  <2>3. \A j \in Pos(q, R) : j <= i + 1
    <3> SUFFICES ASSUME NEW j \in Pos(q, R), j > i + 1 PROVE FALSE
      BY <2>2 DEF Pos
    <3>1. j - 1 \in Pos(r, R) /\ j \in Nat
      BY <1>1, <2>2 DEF Pos
    <3> QED BY <3>1, <2>1, <2>2
  <2>4. CASE i + 1 \in From(a, q, A)
    BY <2>3, <2>4 DEF Said, LastWord
  <2>5. CASE i + 1 \notin From(a, q, A)
    <3>1. i = 0 /\ aa /\ q[1] \notin A
      BY <2>1, <2>2, <2>5, <1>1 DEF From
    <3>2. 0 \in From(a, q, A) /\ q[1] \notin R
      BY <3>1, <1>1 DEF From
    <3>3. Pos(q, R) = {}
      <4> SUFFICES ASSUME NEW j \in Pos(q, R) PROVE FALSE
        OBVIOUS
      <4>1. j \in 1..(n + 1) /\ j # 1
        BY <1>1, <3>2 DEF Pos
      <4> QED BY <4>1, <2>3, <3>1
    <3> QED BY <3>2, <3>3 DEF Said, LastWord
  <2> QED BY <2>4, <2>5
<1>3. ASSUME Said(q, a, A, R) PROVE Said(r, aa, A, R)
  <2>1. PICK i \in From(a, q, A) : \A j \in Pos(q, R) : j <= i
    BY <1>3 DEF Said, LastWord
  <2>2. i \in 0..(n + 1)
    BY <1>1, <2>1 DEF From
  <2>3. \A j \in Pos(r, R) : j + 1 <= i /\ j \in 1..n
    BY <2>1, <1>1 DEF Pos
  <2>4. CASE i > 1
    <3>1. i - 1 \in From(aa, r, A)
      BY <1>1, <2>1, <2>2, <2>4 DEF From
    <3>2. \A j \in Pos(r, R) : j <= i - 1
      BY <2>2, <2>3
    <3> QED BY <3>1, <3>2 DEF Said, LastWord
  <2>5. CASE i <= 1
    <3>1. Pos(r, R) = {}
      <4> SUFFICES ASSUME NEW j \in Pos(r, R) PROVE FALSE
        OBVIOUS
      <4> QED BY <2>2, <2>3, <2>5
    <3>2. aa
      <4>1. CASE i = 1
        BY <2>1, <4>1, <1>1 DEF From
      <4>2. CASE i = 0
        <5>1. q[1] \in R => 1 \in Pos(q, R)
          BY <1>1 DEF Pos
        <5>2. q[1] \notin R
          BY <5>1, <2>1, <4>2
        <5> QED BY <2>1, <4>2, <5>2, <1>1 DEF From
      <4> QED BY <4>1, <4>2, <2>2, <2>5
    <3>3. 0 \in From(aa, r, A)
      BY <3>2, <1>1 DEF From
    <3> QED BY <3>1, <3>3 DEF Said, LastWord
  <2> QED BY <2>2, <2>4, <2>5
<1> QED BY <1>2, <1>3 DEF r

(* Packets that contradict nothing, and say only what is said already,       *)
(* change no last word.                                                      *)
LEMMA SaidConcat ==
  ASSUME NEW X, NEW q \in Seq(X), NEW r \in Seq(X), NEW a, NEW A, NEW R,
         \A i \in 1..Len(r) : r[i] \notin R /\ (r[i] \in A => Said(q, a, A, R))
  PROVE  Said(q \o r, a, A, R) <=> Said(q, a, A, R)
<1> DEFINE w == q \o r
           n == Len(q)
           m == Len(r)
<1>1. n = Len(q) /\ n \in Nat /\ m \in Nat /\ Len(w) = n + m
      /\ (\A i \in 1..n : w[i] = q[i]) /\ (\A i \in 1..m : w[n + i] = r[i])
  BY ConcatPositions
<1> HIDE DEF w, n
<1>2. Pos(w, R) = Pos(q, R)
  <2>1. ASSUME NEW j \in Pos(w, R) PROVE j \in Pos(q, R)
    <3>1. j <= n
      <4> SUFFICES ASSUME j > n PROVE FALSE
        BY <1>1 DEF Pos
      <4>1. j - n \in 1..m /\ w[n + (j - n)] \in R
        BY <1>1 DEF Pos
      <4> QED BY <4>1, <1>1
    <3> QED BY <3>1, <1>1 DEF Pos
  <2>2. ASSUME NEW j \in Pos(q, R) PROVE j \in Pos(w, R)
    BY <1>1 DEF Pos
  <2> QED BY <2>1, <2>2
<1>3. From(a, q, A) \subseteq From(a, w, A)
  BY <1>1 DEF From
<1>4. ASSUME NEW k \in From(a, w, A), k \notin From(a, q, A)
      PROVE  Said(q, a, A, R)
  <2>1. k - n \in 1..m /\ w[n + (k - n)] \in A
    BY <1>1, <1>4 DEF From
  <2> QED BY <2>1, <1>1
<1>5. Said(q, a, A, R) => Said(w, a, A, R)
  BY <1>2, <1>3 DEF Said, LastWord
<1>6. Said(w, a, A, R) => Said(q, a, A, R)
  BY <1>2, <1>4 DEF Said, LastWord
<1> QED BY <1>5, <1>6 DEF w

-----------------------------------------------------------------------------
(* A packet written by the running hook stays where it was in the queue.     *)
LEMMA QueueWrite ==
  ASSUME NEW X, NEW q \in Seq(X), NEW r \in Seq(X), r # <<>>
  PROVE  Append(q, Head(r)) \o Tail(r) = q \o r
  OBVIOUS

(* A packet sent is the first of the queue.                                  *)
LEMMA QueueTail ==
  ASSUME NEW X, NEW q \in Seq(X), NEW r \in Seq(X), q # <<>>
  PROVE  Tail(q) \o r = Tail(q \o r) /\ Head(q \o r) = Head(q) /\ q \o r # <<>>
  OBVIOUS

(* So are packets dropped.                                                   *)
LEMMA QueueDrop ==
  ASSUME NEW X, NEW q \in Seq(X), NEW r \in Seq(X), NEW m \in 0..Len(q)
  PROVE  SubSeq(q, m + 1, Len(q)) \o r = SubSeq(q \o r, m + 1, Len(q \o r))
         /\ m \in 0..Len(q \o r)
<1> DEFINE d == SubSeq(q, m + 1, Len(q))
           w == q \o r
           e == SubSeq(w, m + 1, Len(w))
           f == d \o r
           n == Len(q) - m
           l == Len(r)
<1>1. w \in Seq(X) /\ Len(w) = m + (n + l) /\ n \in Nat /\ l \in Nat /\ m \in Nat
      /\ (\A i \in 1..(m + n) : w[i] = q[i]) /\ (\A i \in 1..l : w[m + (n + i)] = r[i])
  OBVIOUS
<1>2. m \in 0..Len(w)
  BY <1>1
<1>3. d \in Seq(X) /\ Len(d) = n /\ \A i \in 1..n : d[i] = q[m + i]
  BY DropPositions
<1> HIDE DEF d, w
<1>4. e \in Seq(X) /\ Len(e) = n + l /\ \A i \in 1..(n + l) : e[i] = w[m + i]
  BY <1>1, <1>2, DropPositions
<1>5. d \in Seq(X)
  BY <1>3
<1>6. f \in Seq(X) /\ Len(f) = Len(d) + Len(r)
      /\ (\A i \in 1..Len(d) : f[i] = d[i])
      /\ (\A i \in 1..Len(r) : f[Len(d) + i] = r[i])
  BY ONLY <1>5, r \in Seq(X), ConcatPositions
<1> HIDE DEF e, f, n, l
<1>7. Len(f) = n + l /\ (\A i \in 1..n : f[i] = d[i]) /\ (\A i \in 1..l : f[n + i] = r[i])
  BY <1>3, <1>6 DEF l
<1>8. ASSUME NEW i \in 1..n PROVE f[i] = e[i]
  BY <1>1, <1>3, <1>4, <1>7
<1>9. ASSUME NEW i \in 1..l PROVE f[n + i] = e[n + i]
  <2>1. n + i \in 1..(n + l)
    BY <1>1
  <2>2. e[n + i] = w[m + (n + i)]
    BY <2>1, <1>4
  <2>3. w[m + (n + i)] = r[i] /\ f[n + i] = r[i]
    BY <1>1, <1>7
  <2> QED BY <2>2, <2>3
<1>10. ASSUME NEW i \in 1..(n + l) PROVE f[i] = e[i]
  <2>1. CASE i \in 1..n
    BY <2>1, <1>8
  <2>2. CASE i \notin 1..n
    <3>1. PICK j \in 1..l : i = n + j
      <4>1. i - n \in 1..l /\ i = n + (i - n)
        BY <2>2, <1>1
      <4> QED BY <4>1
    <3> QED BY <3>1, <1>9
  <2> QED BY <2>1, <2>2
<1>11. f = e
  BY <1>4, <1>6, <1>7, <1>10
<1> QED BY <1>2, <1>11 DEF d, e, f, w

(* Discarding a packet drops one.                                            *)
LEMMA TailDrops ==
  ASSUME NEW X, NEW q \in Seq(X), q # <<>>
  PROVE  1 \in 0..Len(q) /\ Tail(q) = SubSeq(q, 1 + 1, Len(q))
  OBVIOUS

(* A hook with nothing, or one packet, to write.                             *)
LEMMA QueueShort ==
  ASSUME NEW X, NEW q \in Seq(X), NEW p \in X
  PROVE  q \o <<>> = q /\ q \o <<p>> = Append(q, p)
  OBVIOUS

(* The packets before position i.                                            *)
Before(q, i) == SubSeq(q, 1, i - 1)

(* They are a sequence of packets.                                           *)
LEMMA BeforePositions ==
  ASSUME NEW X, NEW q \in Seq(X), NEW i \in 1..Len(q)
  PROVE  Before(q, i) \in Seq(X) /\ Len(Before(q, i)) = i - 1
         /\ \A j \in 1..(i - 1) : Before(q, i)[j] = q[j]
  BY DEF Before

(* Sending the first packet.                                                 *)
LEMMA BeforeTail ==
  ASSUME NEW X, NEW q \in Seq(X), q # <<>>, NEW i \in 1..(Len(q) - 1)
  PROVE  /\ Before(q, i + 1) # <<>> /\ Head(Before(q, i + 1)) = Head(q)
         /\ Before(Tail(q), i) = Tail(Before(q, i + 1))
  BY DEF Before

(* Dropping some.                                                            *)
LEMMA BeforeDrop ==
  ASSUME NEW X, NEW q \in Seq(X), NEW m \in 0..Len(q), NEW i \in 1..(Len(q) - m)
  PROVE  /\ Before(SubSeq(q, m + 1, Len(q)), i)
              = SubSeq(Before(q, m + i), m + 1, Len(Before(q, m + i)))
         /\ m \in 0..Len(Before(q, m + i))
  BY DEF Before

(* Appending one.                                                            *)
LEMMA BeforeAppend ==
  ASSUME NEW X, NEW q \in Seq(X), NEW p \in X
  PROVE  /\ \A i \in 1..Len(q) : Before(Append(q, p), i) = Before(q, i)
         /\ Before(Append(q, p), Len(q) + 1) = q
  BY DEF Before

(* An enumeration of a finite set (SetToSeq) names every element.            *)
LEMMA SetToSeqNamesAll ==
  ASSUME NEW T, IsFiniteSet(T)
  PROVE  /\ Cardinality(T) \in Nat /\ SetToSeq(T) \in [1..Cardinality(T) -> T]
         /\ \A x \in T : \E i \in 1..Cardinality(T) : SetToSeq(T)[i] = x
<1> DEFINE n == Cardinality(T)
<1>1. n \in Nat /\ ExistsBijection(1..n, T)
  BY FS_CardinalityType
<1>2. PICK g \in Bijection(1..n, T) : TRUE
  BY <1>1 DEF ExistsBijection
<1>3. g \in [1..n -> T] /\ IsInjective(g)
  BY <1>2 DEF Bijection, Injection
<1>4. SetToSeq(T) \in [1..n -> T] /\ IsInjective(SetToSeq(T))
  BY <1>3 DEF SetToSeq
<1>6. IsFiniteSet(1..n) /\ Cardinality(1..n) = n
  BY <1>1, FS_Interval
<1>7. ASSUME NEW x \in T PROVE \E i \in 1..n : SetToSeq(T)[i] = x
  <2> SUFFICES ASSUME \A i \in 1..n : SetToSeq(T)[i] # x PROVE FALSE
    OBVIOUS
  <2>1. SetToSeq(T) \in [1..n -> T \ {x}]
    BY <1>4
  <2>2. IsFiniteSet(T \ {x}) /\ Cardinality(T \ {x}) = n - 1
    BY FS_RemoveElement
  <2>3. \E i, j \in 1..n : i # j /\ SetToSeq(T)[i] = SetToSeq(T)[j]
    BY <2>1, <2>2, <1>1, <1>6, FS_PigeonHole
  <2> QED BY <2>1, <2>3, <1>4 DEF IsInjective
<1> QED BY <1>1, <1>4, <1>7

-----------------------------------------------------------------------------
(* CollReport.  The packets that begin a picture, spoil one, and say what    *)
(* the client then believes.                                                 *)
Syncs == {p \in Packets : p.tag = "allcols"}
Overruns == {p \in Packets : p.tag = "overrun"}
Adds(c) == {p \in Packets : p.tag \in {"normco+", "normco*"} /\ p.ptr = c}
Removes(c) == {p \in Packets : p.tag = "normco-" /\ p.ptr = c}
Dumps(s, v) == {p \in Packets : p.tag = "scolcol" /\ p.ptr = s /\ p.val = v}
OtherDumps(s, v) == {p \in Packets : p.tag = "scolcol" /\ p.ptr = s /\ p.val # v}

Has(cl, s, v) == s \in DOMAIN cl.scols /\ cl.scols[s] = v

DumpIn(q, cl, s, v) ==
  Covered(q, cl.synced, Has(cl, s, v), Syncs, Overruns, Dumps(s, v), OtherDumps(s, v))

HasDump(q, s, v) == DumpIn(q, client, s, v)

References(q, cl) ==
  \A i \in 1..Len(q) : q[i].tag = "scolco~" => DumpIn(Before(q, i), cl, q[i].ptr, q[i].val)

Dumping == todo # <<>> /\ todo[1].tag = "scolcol"

(* Types, and what a hook leaves to be written.                              *)
CollTypes ==
  /\ TypeOK /\ stream \in Seq(Packets) /\ todo \in Seq(Packets)
  /\ \A i \in 1..Len(todo) : todo[i].tag \in {"allcols", "scolcol", "scolco~"} => i = 1
  /\ Dumping => Len(todo) = 1

CollTables ==
  /\ Cardinality(s_colliders) <= ColliderSlots
  /\ Cardinality(DOMAIN s_hashed_scols) <= ScolSlots
  /\ ~offAgain => s_colliders \subseteq live
  /\ ~offAgain /\ ~on => s_colliders = {}

(* While there is no connection nothing counts as a picture; after a loss    *)
(* none that began earlier does.                                             *)
CollLosses ==
  /\ conn # "current" => ~client.synced
  /\ lastOverrun => Spoilt(stream, client.synced, Syncs, Overruns)

CollidersTold ==
  \A c \in s_colliders :
    Covered(Queue, client.synced, c \in client.colliders, Syncs, Overruns,
            Adds(c), Removes(c))

(* The first connection, as long as nothing was lost on it.                  *)
FirstPicture ==
  /\ handOvers = 0 => conn # "pending"
  /\ conn = "current" /\ handOvers = 0 /\ lastOverrun
       => client.overrun \/ Pos(stream, Overruns) # {}
  /\ conn = "current" /\ handOvers = 0 /\ ~full /\ ~client.overrun
       /\ Pos(Queue, Overruns) = {}
       => \A c \in Colliders :
            Said(Queue, c \in client.colliders, Adds(c), Removes(c)) <=> c \in s_colliders

(* The hash of an entry, an old_hash, and a reference each stand for the     *)
(* last dump the client has; an entry that is new has no hash that counts.   *)
DumpsTold ==
  /\ todo # <<>> /\ todo[1].tag = "allcols" => DOMAIN s_hashed_scols = {}
  /\ \A s \in DOMAIN s_hashed_scols :
       \/ Dumping /\ todo[1].ptr = s /\ oldHash = NoHash
       \/ HasDump(stream, s, s_hashed_scols[s])
  /\ Dumping /\ oldHash # NoHash => HasDump(stream, todo[1].ptr, oldHash)
  /\ todo # <<>> /\ todo[1].tag = "scolco~" => HasDump(stream, todo[1].ptr, todo[1].val)
  /\ References(stream, client)
  /\ ~client.wrong

CollInv ==
  /\ CollTypes /\ CollTables /\ CollLosses
  /\ CollidersTold /\ FirstPicture /\ DumpsTold

-----------------------------------------------------------------------------
(* The packets of a kind, and what they are not (main.cpp's tags).           *)
LEMMA PacketKinds ==
  /\ Overrun \in Packets /\ Overrun \in Overruns /\ Overrun \notin Syncs
  /\ \A p \in Packets :
       /\ ~(p \in Syncs /\ p \in Overruns)
       /\ \A c \in Colliders : ~(p \in Adds(c) /\ p \in Removes(c))
       /\ \A s, v : ~(p \in Dumps(s, v) /\ p \in OtherDumps(s, v))
  BY DEF Packets, Overrun, Overruns, Syncs, Adds, Removes, Dumps, OtherDumps,
         ColliderTags, ScolTags

(* What a packet carries.                                                    *)
LEMMA PacketFields ==
  ASSUME NEW p \in Packets
  PROVE  /\ p.tag \in {"normco+", "normco*", "normco-", "scolcol", "scolco~",
                       "allcols", "overrun"}
         /\ p.tag \in ColliderTags => p.ptr \in Colliders
         /\ p.tag \in ScolTags => p.ptr \in Scols /\ p.val \in Values
  BY DEF Packets, Overrun, ColliderTags, ScolTags

Clients == [colliders : SUBSET Colliders, scols : Contents(Scols),
            overrun : BOOLEAN, synced : BOOLEAN, wrong : BOOLEAN]

(* A map with an entry more (With).                                          *)
LEMMA ContentsWith ==
  ASSUME NEW S, NEW f \in Contents(S), NEW s \in S, NEW v \in Values \cup {NoHash}
  PROVE  /\ With(f, s, v) \in Contents(S)
         /\ DOMAIN With(f, s, v) = DOMAIN f \cup {s}
         /\ With(f, s, v)[s] = v
         /\ \A t \in DOMAIN f : t # s => With(f, s, v)[t] = f[t]
<1>1. PICK d \in SUBSET S : f \in [d -> Values \cup {NoHash}]
  BY DEF Contents
<1>2. With(f, s, v) \in [d \cup {s} -> Values \cup {NoHash}]
  BY <1>1 DEF With
<1>3. d \cup {s} \in SUBSET S
  OBVIOUS
<1> QED BY <1>1, <1>2, <1>3 DEF With, Contents

(* What reading a packet does to the client (HoseParser.parse).              *)
LEMMA ParseEffect ==
  ASSUME NEW cl \in Clients, NEW p \in Packets
  PROVE  /\ Parse(cl, p) \in Clients
         /\ Parse(cl, p).synced <=> (cl.synced /\ p \notin Overruns) \/ p \in Syncs
         /\ Parse(cl, p).overrun <=> cl.overrun \/ p \in Overruns
         /\ \A c \in Colliders : c \in Parse(cl, p).colliders <=>
              (c \in cl.colliders /\ p \notin Removes(c)) \/ p \in Adds(c)
         /\ \A s, v : Has(Parse(cl, p), s, v) <=>
              (Has(cl, s, v) /\ p \notin OtherDumps(s, v)) \/ p \in Dumps(s, v)
         /\ Parse(cl, p).wrong <=> cl.wrong \/
              (p.tag = "scolco~" /\ cl.synced /\ ~Has(cl, p.ptr, p.val))
<1> DEFINE n == Parse(cl, p)
<1> USE DEF Overruns, Syncs, Removes, Adds, Dumps, OtherDumps
<1>1. CASE p.tag \in {"normco+", "normco*"}
  <2>1. n = [cl EXCEPT !.colliders = @ \cup {p.ptr}]
    BY <1>1 DEF Parse
  <2>2. p.ptr \in Colliders
    BY <1>1, PacketFields DEF ColliderTags
  <2>3. n \in Clients /\ n.colliders = cl.colliders \cup {p.ptr} /\ n.scols = cl.scols
        /\ n.overrun = cl.overrun /\ n.synced = cl.synced /\ n.wrong = cl.wrong
    BY <2>1, <2>2 DEF Clients
  <2> HIDE DEF n
  <2> QED BY <2>3, <1>1 DEF Has, n
<1>2. CASE p.tag = "normco-"
  <2>1. n = [cl EXCEPT !.colliders = @ \ {p.ptr}]
    BY <1>2 DEF Parse
  <2>2. p.ptr \in Colliders
    BY <1>2, PacketFields DEF ColliderTags
  <2>3. n \in Clients /\ n.colliders = cl.colliders \ {p.ptr} /\ n.scols = cl.scols
        /\ n.overrun = cl.overrun /\ n.synced = cl.synced /\ n.wrong = cl.wrong
    BY <2>1, <2>2 DEF Clients
  <2> HIDE DEF n
  <2> QED BY <2>3, <1>2 DEF Has, n
<1>3. CASE p.tag = "scolcol"
  <2>1. n = [cl EXCEPT !.scols = With(@, p.ptr, p.val)]
    BY <1>3 DEF Parse
  <2>2. p.ptr \in Scols /\ p.val \in Values
    BY <1>3, PacketFields DEF ScolTags
  <2>3. cl.scols \in Contents(Scols)
    BY DEF Clients
  <2> DEFINE f == cl.scols
             t0 == p.ptr
             v0 == p.val
             m == With(cl.scols, p.ptr, p.val)
  <2>9. f \in Contents(Scols) /\ t0 \in Scols /\ v0 \in Values \cup {NoHash}
    BY <2>2, <2>3
  <2>4. m \in Contents(Scols) /\ DOMAIN m = DOMAIN cl.scols \cup {p.ptr} /\ m[p.ptr] = p.val
        /\ \A t \in DOMAIN cl.scols : t # p.ptr => m[t] = cl.scols[t]
    <3> HIDE DEF f, t0, v0
    <3>1. /\ With(f, t0, v0) \in Contents(Scols)
          /\ DOMAIN With(f, t0, v0) = DOMAIN f \cup {t0}
          /\ With(f, t0, v0)[t0] = v0
          /\ \A t \in DOMAIN f : t # t0 => With(f, t0, v0)[t] = f[t]
      BY ONLY <2>9, ContentsWith
    <3> QED BY <3>1 DEF f, t0, v0
  <2> HIDE DEF m
  <2>5. n \in Clients /\ n.colliders = cl.colliders /\ n.scols = m
        /\ n.overrun = cl.overrun /\ n.synced = cl.synced /\ n.wrong = cl.wrong
    BY <2>1, <2>4 DEF Clients, m
  <2> HIDE DEF n
  <2>6. ASSUME NEW s, NEW v
        PROVE  Has(n, s, v) <=>
                 (Has(cl, s, v) /\ p \notin OtherDumps(s, v)) \/ p \in Dumps(s, v)
    BY <2>4, <2>5, <1>3 DEF Has
  <2> QED BY <2>5, <2>6, <1>3 DEF n
<1>4. CASE p.tag = "scolco~"
  <2>1. n = [cl EXCEPT !.wrong = @ \/ (cl.synced /\ ~Has(cl, p.ptr, p.val))]
    BY <1>4 DEF Parse, Has
  <2>2. n \in Clients /\ n.colliders = cl.colliders /\ n.scols = cl.scols
        /\ n.overrun = cl.overrun /\ n.synced = cl.synced
        /\ n.wrong = (cl.wrong \/ (cl.synced /\ ~Has(cl, p.ptr, p.val)))
    BY <2>1 DEF Clients
  <2> HIDE DEF n
  <2> QED BY <2>2, <1>4 DEF Has, n
<1>5. CASE p.tag = "overrun"
  <2>1. n = [cl EXCEPT !.overrun = TRUE, !.synced = FALSE]
    BY <1>5 DEF Parse
  <2>2. n \in Clients /\ n.colliders = cl.colliders /\ n.scols = cl.scols
        /\ n.overrun = TRUE /\ n.synced = FALSE /\ n.wrong = cl.wrong
    BY <2>1 DEF Clients
  <2> HIDE DEF n
  <2> QED BY <2>2, <1>5 DEF Has, n
<1>6. CASE p.tag = "allcols"
  <2>1. n = [cl EXCEPT !.synced = TRUE]
    BY <1>6 DEF Parse
  <2>2. n \in Clients /\ n.colliders = cl.colliders /\ n.scols = cl.scols
        /\ n.overrun = cl.overrun /\ n.synced = TRUE /\ n.wrong = cl.wrong
    BY <2>1 DEF Clients
  <2> HIDE DEF n
  <2> QED BY <2>2, <1>6 DEF Has, n
<1> QED BY <1>1, <1>2, <1>3, <1>4, <1>5, <1>6, PacketFields

-----------------------------------------------------------------------------
(* The hose keeps its bound and carries packets.                             *)
LEMMA HoseTypes ==
  ASSUME NEW X, stream \in Seq(X), HoseOK, Overrun \in X
  PROVE  /\ \A p \in X : Publish(p) => HoseOK' /\ stream' \in Seq(X)
         /\ Lose \/ DiscardPacket \/ HandOver \/ Adopt \/ Disconnect
              => HoseOK' /\ stream' \in Seq(X)
         /\ stream # <<>> /\ stream' = Tail(stream)
              /\ UNCHANGED <<lastOverrun, conn, handOvers>>
              => HoseOK' /\ stream' \in Seq(X)
<1>0. Room \in Nat /\ MaxHandOvers \in Nat
  BY LossyHoseAssumption DEF LossyHoseAssumption
<1>1. ASSUME NEW p \in X, Publish(p) PROVE HoseOK' /\ stream' \in Seq(X)
  <2>1. stream' = Append(stream, p) /\ Len(stream) < Room /\ lastOverrun' = FALSE
        /\ UNCHANGED <<conn, handOvers>>
    BY <1>1 DEF Publish
  <2>2. stream' \in Seq(X) /\ Len(stream') = Len(stream) + 1 /\ Len(stream) \in Nat
    BY <2>1, AppendPositions
  <2>3. Len(stream') <= Room
    BY <1>0, <2>1, <2>2
  <2>4. lastOverrun' \in BOOLEAN
    BY <2>1
  <2>5. conn' \in {"closed", "pending", "current"} /\ handOvers' \in 0..MaxHandOvers
    BY <2>1 DEF HoseOK
  <2> QED BY <2>2, <2>3, <2>4, <2>5 DEF HoseOK
<1>2. ASSUME Lose PROVE HoseOK' /\ stream' \in Seq(X)
  <2>1. CASE lastOverrun
    BY <1>2, <2>1 DEF Lose, HoseOK
  <2>2. CASE ~lastOverrun
    <3>1. stream' = Append(stream, Overrun) /\ Len(stream) < Room
      BY <1>2, <2>2 DEF Lose
    <3>2. stream' \in Seq(X) /\ Len(stream') = Len(stream) + 1 /\ Len(stream) \in Nat
      BY <3>1, AppendPositions
    <3> QED BY <1>0, <1>2, <3>1, <3>2 DEF Lose, HoseOK
  <2> QED BY <2>1, <2>2
<1>3. ASSUME DiscardPacket PROVE HoseOK' /\ stream' \in Seq(X)
  BY <1>0, <1>3, TailPositions DEF DiscardPacket, HoseOK
<1>4. ASSUME HandOver PROVE HoseOK' /\ stream' \in Seq(X)
  BY <1>0, <1>4 DEF HandOver, HoseOK
<1>5. ASSUME Adopt PROVE HoseOK' /\ stream' \in Seq(X)
  <2>1. PICK n \in 0..Len(stream) : stream' = SubSeq(stream, n + 1, Len(stream))
    BY <1>5 DEF Adopt
  <2>2. stream' \in Seq(X) /\ Len(stream') = Len(stream) - n
    BY <2>1, DropPositions
  <2>3. Len(stream') <= Room
    BY <1>0, <2>1, <2>2 DEF HoseOK
  <2> QED BY <1>5, <2>2, <2>3 DEF Adopt, HoseOK
<1>6. ASSUME Disconnect PROVE HoseOK' /\ stream' \in Seq(X)
  BY <1>6 DEF Disconnect, HoseOK
<1>7. ASSUME stream # <<>>, stream' = Tail(stream), UNCHANGED <<lastOverrun, conn, handOvers>>
      PROVE  HoseOK' /\ stream' \in Seq(X)
  BY <1>0, <1>7, TailPositions DEF HoseOK
<1> QED BY <1>1, <1>2, <1>3, <1>4, <1>5, <1>6, <1>7

(* One packet, or none, is left to be written.                               *)
LEMMA OnePacket ==
  ASSUME NEW X, NEW p \in X
  PROVE  /\ <<p>> \in Seq(X) /\ Len(<<p>>) = 1 /\ <<p>>[1] = p /\ <<p>> # <<>>
         /\ <<>> \in Seq(X) /\ Len(<<>>) = 0 /\ Head(<<p>>) = p /\ Tail(<<p>>) = <<>>
  OBVIOUS

(* The packets of a full dump.                                               *)
FullDump ==
  <<[tag |-> "allcols"]>> \o
  [i \in 1..Cardinality(s_colliders) |->
     [tag |-> "normco*", ptr |-> SetToSeq(s_colliders)[i]]]

(* It orders the client to expect every collider, and names each.            *)
LEMMA FullDumpPositions ==
  ASSUME s_colliders \subseteq Colliders
  PROVE  /\ FullDump \in Seq(Packets) /\ FullDump # <<>>
         /\ Cardinality(s_colliders) \in Nat
         /\ Len(FullDump) = Cardinality(s_colliders) + 1
         /\ FullDump[1] = [tag |-> "allcols"]
         /\ \A i \in 2..Len(FullDump) :
              \E c \in s_colliders : FullDump[i] = [tag |-> "normco*", ptr |-> c]
         /\ \A c \in s_colliders :
              \E i \in 2..Len(FullDump) : FullDump[i] = [tag |-> "normco*", ptr |-> c]
<1> DEFINE n == Cardinality(s_colliders)
           e == SetToSeq(s_colliders)
           r == [i \in 1..n |-> [tag |-> "normco*", ptr |-> e[i]]]
           a == <<[tag |-> "allcols"]>>
<1>1. IsFiniteSet(s_colliders)
  BY FS_Subset, CollReportAssumption
<1>2. n \in Nat /\ e \in [1..n -> s_colliders] /\ \A x \in s_colliders : \E i \in 1..n : e[i] = x
  BY <1>1, SetToSeqNamesAll
<1> HIDE DEF e, n
<1>3. \A c \in Colliders : [tag |-> "normco*", ptr |-> c] \in Packets
  BY DEF Packets, ColliderTags
<1>4. r \in [1..n -> Packets]
  BY <1>2, <1>3
<1>5. r \in Seq(Packets) /\ Len(r) = n /\ \A i \in 1..n : r[i] = [tag |-> "normco*", ptr |-> e[i]]
  BY <1>2, <1>4
<1>6. a \in Seq(Packets) /\ Len(a) = 1 /\ a[1] = [tag |-> "allcols"]
  BY DEF Packets
<1> HIDE DEF r, a
<1>7. a \o r \in Seq(Packets) /\ Len(a \o r) = 1 + n /\ (a \o r)[1] = a[1]
      /\ \A i \in 1..n : (a \o r)[1 + i] = r[i]
  <2>1. a \in Seq(Packets) /\ r \in Seq(Packets)
    BY <1>5, <1>6
  <2>2. a \o r \in Seq(Packets) /\ Len(a \o r) = Len(a) + Len(r)
        /\ (\A i \in 1..Len(a) : (a \o r)[i] = a[i])
        /\ \A i \in 1..Len(r) : (a \o r)[Len(a) + i] = r[i]
    BY ONLY <2>1, ConcatPositions
  <2> QED BY <2>2, <1>5, <1>6
<1> DEFINE w == a \o r
<1>8. FullDump = w
  BY DEF FullDump, a, r, e, n
<1>9. w # <<>> /\ w \in Seq(Packets) /\ Len(w) = n + 1 /\ w[1] = [tag |-> "allcols"]
      /\ \A i \in 1..n : w[1 + i] = [tag |-> "normco*", ptr |-> e[i]]
  BY <1>2, <1>5, <1>6, <1>7
<1> HIDE DEF w
<1>10. ASSUME NEW i \in 2..Len(w)
       PROVE  \E c \in s_colliders : w[i] = [tag |-> "normco*", ptr |-> c]
  <2>1. i - 1 \in 1..n /\ i = 1 + (i - 1)
    BY <1>2, <1>9
  <2> DEFINE j == i - 1
  <2>2. j \in 1..n /\ 1 + j = i
    BY <2>1
  <2> HIDE DEF j
  <2>3. w[i] = [tag |-> "normco*", ptr |-> e[j]] /\ e[j] \in s_colliders
    BY <2>2, <1>2, <1>9
  <2> QED BY <2>3
<1>11. ASSUME NEW c \in s_colliders
       PROVE  \E i \in 2..Len(w) : w[i] = [tag |-> "normco*", ptr |-> c]
  <2>1. PICK j \in 1..n : e[j] = c
    BY <1>2
  <2>2. 1 + j \in 2..Len(w) /\ w[1 + j] = [tag |-> "normco*", ptr |-> c]
    BY <2>1, <1>2, <1>9
  <2> QED BY <2>2
<1> QED BY <1>2, <1>8, <1>9, <1>10, <1>11 DEF n

(* A queue of packets is one.                                                *)
LEMMA QueueTypes ==
  ASSUME NEW q \in Seq(Packets), NEW r \in Seq(Packets)
  PROVE  /\ q \o r \in Seq(Packets)
         /\ \A i \in DOMAIN (q \o r) : (q \o r)[i] \in Packets
  OBVIOUS

(* What a step leaves to be written has the shape CollTypes says.            *)
Writable(r) ==
  /\ r \in Seq(Packets)
  /\ \A i \in 1..Len(r) : r[i].tag \in {"allcols", "scolcol", "scolco~"} => i = 1
  /\ r # <<>> /\ r[1].tag = "scolcol" => Len(r) = 1

(* No packet, one packet, or the rest of what was to be written.             *)
LEMMA WritableShort ==
  /\ Writable(<<>>)
  /\ \A p \in Packets : Writable(<<p>>)
  /\ \A r \in Seq(Packets) : Writable(r) /\ r # <<>> => Writable(Tail(r))
<1>1. Writable(<<>>)
  BY DEF Writable
<1>2. ASSUME NEW p \in Packets PROVE Writable(<<p>>)
  BY DEF Writable
<1>3. ASSUME NEW r \in Seq(Packets), Writable(r), r # <<>> PROVE Writable(Tail(r))
  <2> DEFINE t == Tail(r)
             n == Len(r) - 1
  <2>1. t \in Seq(Packets) /\ Len(t) = n /\ n \in Nat /\ \A i \in 1..n : t[i] = r[i + 1]
    BY <1>3, TailPositions
  <2> HIDE DEF t
  <2>2. ASSUME NEW i \in 1..n PROVE t[i].tag \notin {"allcols", "scolcol", "scolco~"}
    <3>1. i + 1 \in 1..Len(r) /\ i + 1 # 1
      OBVIOUS
    <3>2. r[i + 1].tag \notin {"allcols", "scolcol", "scolco~"}
      BY <3>1, <1>3 DEF Writable
    <3> QED BY <3>2, <2>1
  <2>3. t # <<>> => 1 \in 1..n
    BY <2>1
  <2> QED BY <2>1, <2>2, <2>3 DEF Writable, t
<1> QED BY <1>1, <1>2, <1>3

(* A full dump (frame_start_collision_actions).                              *)
LEMMA WritableDump ==
  ASSUME s_colliders \subseteq Colliders
  PROVE  Writable(FullDump)
<1> DEFINE w == FullDump
<1>1. w \in Seq(Packets) /\ w # <<>> /\ w[1] = [tag |-> "allcols"]
      /\ \A i \in 2..Len(w) : \E c \in s_colliders : w[i] = [tag |-> "normco*", ptr |-> c]
  BY FullDumpPositions
<1> HIDE DEF w
<1>2. ASSUME NEW i \in 1..Len(w), i # 1 PROVE w[i].tag = "normco*"
  <2>1. i \in 2..Len(w)
    BY <1>2
  <2>2. PICK c \in s_colliders : w[i] = [tag |-> "normco*", ptr |-> c]
    BY <2>1, <1>1
  <2> QED BY <2>2
<1> QED BY <1>1, <1>2 DEF Writable, w

(* The hash of an entry is replaced (write_cached_dump).                     *)
LEMMA ContentsExcept ==
  ASSUME NEW S, NEW f \in Contents(S), NEW s \in DOMAIN f, NEW v \in Values
  PROVE  /\ [f EXCEPT ![s] = v] \in Contents(S)
         /\ DOMAIN [f EXCEPT ![s] = v] = DOMAIN f
         /\ [f EXCEPT ![s] = v][s] = v
         /\ \A t \in DOMAIN f : t # s => [f EXCEPT ![s] = v][t] = f[t]
         /\ DOMAIN f \subseteq S
<1>1. PICK d \in SUBSET S : f \in [d -> Values \cup {NoHash}]
  BY DEF Contents
<1>2. [f EXCEPT ![s] = v] \in [d -> Values \cup {NoHash}]
  BY <1>1
<1> QED BY <1>1, <1>2 DEF Contents

(* A table that was cleared (frame_start_collision_actions).                 *)
LEMMA ContentsEmpty ==
  ASSUME NEW S
  PROVE  [s \in {} |-> NoHash] \in Contents(S) /\ DOMAIN [s \in {} |-> NoHash] = {}
<1>1. [s \in {} |-> NoHash] \in [{} -> Values \cup {NoHash}] /\ {} \in SUBSET S
  OBVIOUS
<1> QED BY <1>1 DEF Contents

(* The entries of a table and their hashes.                                  *)
LEMMA ContentsHashes ==
  ASSUME NEW S, NEW f \in Contents(S)
  PROVE  DOMAIN f \subseteq S /\ \A s \in DOMAIN f : f[s] \in Values \cup {NoHash}
  BY DEF Contents

(* Types are kept by every step of the hooks, the hose and the client.       *)
LEMMA CollTypesStep ==
  ASSUME CollTypes, Next
  PROVE  CollTypes'
<1>1. /\ HoseOK /\ stream \in Seq(Packets) /\ todo \in Seq(Packets) /\ Writable(todo)
      /\ live \subseteq Colliders /\ s_colliders \subseteq Colliders
      /\ s_hashed_scols \in Contents(Scols) /\ slotHash \in [Scols -> Values \cup {NoHash}]
      /\ oldHash \in Values \cup {NoHash}
      /\ on \in BOOLEAN /\ all \in BOOLEAN /\ offAgain \in BOOLEAN /\ full \in BOOLEAN
      /\ client \in Clients
  BY DEF CollTypes, TypeOK, Writable, Dumping, Clients
<1>2. SUFFICES
        /\ HoseOK' /\ stream' \in Seq(Packets) /\ Writable(todo')
        /\ live' \subseteq Colliders /\ s_colliders' \subseteq Colliders
        /\ s_hashed_scols' \in Contents(Scols) /\ slotHash' \in [Scols -> Values \cup {NoHash}]
        /\ oldHash' \in Values \cup {NoHash}
        /\ on' \in BOOLEAN /\ all' \in BOOLEAN /\ offAgain' \in BOOLEAN /\ full' \in BOOLEAN
        /\ client' \in Clients
  <2>1. todo' \in Seq(Packets)
    BY <1>2 DEF Writable
  <2>2. \A i \in DOMAIN Queue' : Queue'[i] \in Packets
    BY <1>2, <2>1, QueueTypes DEF Queue
  <2> QED BY <1>2, <2>1, <2>2 DEF CollTypes, TypeOK, Writable, Dumping, Clients
<1> DEFINE SameTables == UNCHANGED <<live, tableVars, all, history, on>>
           TablesTyped ==
             /\ live' \subseteq Colliders /\ s_colliders' \subseteq Colliders
             /\ s_hashed_scols' \in Contents(Scols)
             /\ slotHash' \in [Scols -> Values \cup {NoHash}]
             /\ oldHash' \in Values \cup {NoHash}
             /\ on' \in BOOLEAN /\ all' \in BOOLEAN
             /\ offAgain' \in BOOLEAN /\ full' \in BOOLEAN
<1>3. SameTables => TablesTyped
  BY <1>1 DEF tableVars, history
<1>4. UNCHANGED hoseVars => HoseOK' /\ stream' \in Seq(Packets)
  BY <1>1 DEF hoseVars, HoseOK
<1>5. Overrun \in Packets
  BY PacketKinds
<1>6. CASE Deliver
  <2>1. HoseOK' /\ stream' \in Seq(Packets) /\ Head(stream) \in Packets
    BY <1>1, <1>5, <1>6, HoseTypes, TailPositions DEF Deliver
  <2>2. client' \in Clients
    BY <1>1, <1>6, <2>1, ParseEffect DEF Deliver
  <2>3. SameTables /\ todo' = todo
    BY <1>6 DEF Deliver
  <2> QED BY <1>1, <1>3, <2>1, <2>2, <2>3
<1>7. CASE Reconnect
  <2>1. HoseOK' /\ stream' \in Seq(Packets)
    BY <1>1, <1>5, <1>7, HoseTypes DEF Reconnect
  <2>2. client' \in Clients
    BY <1>1, <1>7 DEF Reconnect, Clients
  <2>3. SameTables /\ todo' = todo
    BY <1>7 DEF Reconnect
  <2> QED BY <1>1, <1>3, <2>1, <2>2, <2>3
<1>8. CASE HoseStep
  <2>1. HoseOK' /\ stream' \in Seq(Packets)
    BY <1>1, <1>5, <1>8, HoseTypes DEF HoseStep
  <2>2. SameTables /\ todo' = todo /\ client' = client
    BY <1>8 DEF HoseStep
  <2> QED BY <1>1, <1>3, <2>1, <2>2
<1>9. ASSUME NEW o \in BOOLEAN, NEW a \in BOOLEAN, SetFlags(o, a)
      PROVE  /\ HoseOK' /\ stream' \in Seq(Packets) /\ Writable(todo')
             /\ TablesTyped /\ client' \in Clients
  BY <1>1, <1>4, <1>9 DEF SetFlags, tableVars
<1>10. ASSUME NEW c \in Colliders, AddToGrid(c)
       PROVE  /\ HoseOK' /\ stream' \in Seq(Packets) /\ Writable(todo')
              /\ TablesTyped /\ client' \in Clients
  <2>1. [tag |-> "normco+", ptr |-> c] \in Packets
    BY DEF Packets, ColliderTags
  <2>2. todo' = todo \/ todo' = <<[tag |-> "normco+", ptr |-> c]>>
    BY <1>10 DEF AddToGrid
  <2>3. Writable(todo')
    BY <1>1, <2>1, <2>2, WritableShort
  <2>4. TablesTyped
    BY <1>1, <1>10 DEF AddToGrid
  <2> QED BY <1>1, <1>4, <1>10, <2>3, <2>4 DEF AddToGrid
<1>11. ASSUME NEW c \in Colliders, RemoveFromGrid(c)
       PROVE  /\ HoseOK' /\ stream' \in Seq(Packets) /\ Writable(todo')
              /\ TablesTyped /\ client' \in Clients
  <2>1. [tag |-> "normco-", ptr |-> c] \in Packets
    BY DEF Packets, ColliderTags
  <2>2. todo' = todo \/ todo' = <<[tag |-> "normco-", ptr |-> c]>>
    BY <1>11 DEF RemoveFromGrid
  <2>3. Writable(todo')
    BY <1>1, <2>1, <2>2, WritableShort
  <2>4. TablesTyped
    BY <1>1, <1>11 DEF RemoveFromGrid, history
  <2> QED BY <1>1, <1>4, <1>11, <2>3, <2>4 DEF RemoveFromGrid
<1>12. ASSUME NEW s \in Scols, NEW v \in Values, ScolHook(s, v)
       PROVE  /\ HoseOK' /\ stream' \in Seq(Packets) /\ Writable(todo')
              /\ TablesTyped /\ client' \in Clients
  <2>1. [tag |-> "scolcol", ptr |-> s, val |-> v] \in Packets
    BY DEF Packets, ScolTags
  <2>2. Writable(todo')
    BY <1>12, <2>1, WritableShort DEF ScolHook
  <2>3. s_hashed_scols' \in Contents(Scols) /\ oldHash' \in Values \cup {NoHash}
    <3>1. CASE s \in DOMAIN s_hashed_scols
      BY <1>1, <1>12, <3>1, ContentsHashes DEF ScolHook
    <3>2. CASE s \notin DOMAIN s_hashed_scols
      <4>1. oldHash' = NoHash
        BY <1>12, <3>2 DEF ScolHook
      <4>2. CASE \E h \in {NoHash, slotHash[s]} : s_hashed_scols' = With(s_hashed_scols, s, h)
        <5>1. PICK h \in {NoHash, slotHash[s]} : s_hashed_scols' = With(s_hashed_scols, s, h)
          BY <4>2
        <5>2. h \in Values \cup {NoHash}
          BY <1>1
        <5> QED BY <1>1, <4>1, <5>1, <5>2, ContentsWith
      <4>3. CASE s_hashed_scols' = s_hashed_scols
        BY <1>1, <4>1, <4>3
      <4> QED BY <1>12, <3>2, <4>2, <4>3 DEF ScolHook
    <3> QED BY <3>1, <3>2
  <2>4. UNCHANGED <<hoseVars, live, s_colliders, slotHash, on, all, history, client>>
    BY <1>12 DEF ScolHook
  <2>5. TablesTyped
    BY <1>1, <2>3, <2>4 DEF history
  <2> QED BY <1>1, <1>4, <2>2, <2>4, <2>5
<1>13. CASE FrameStart
  <2>1. todo' = FullDump /\ s_hashed_scols' = [s \in {} |-> NoHash] /\ all' = FALSE
        /\ UNCHANGED <<hoseVars, live, s_colliders, slotHash, oldHash, on, history, client>>
    BY <1>13 DEF FrameStart, FullDump
  <2>2. Writable(todo')
    BY <1>1, <2>1, WritableDump
  <2>3. s_hashed_scols' \in Contents(Scols)
    BY <2>1, ContentsEmpty
  <2>4. TablesTyped
    BY <1>1, <2>1, <2>3 DEF history
  <2> QED BY <1>1, <1>4, <2>1, <2>2, <2>4
<1>14. CASE WritePacket
  <2>1. Head(todo) \in Packets /\ todo # <<>>
    BY <1>1, <1>14, TailPositions DEF WritePacket
  <2>2. HoseOK' /\ stream' \in Seq(Packets)
    BY <1>1, <1>5, <1>14, <2>1, HoseTypes DEF WritePacket
  <2>3. Writable(todo')
    BY <1>1, <1>14, <2>1, WritableShort DEF WritePacket
  <2>4. SameTables /\ client' = client
    BY <1>14 DEF WritePacket
  <2> QED BY <1>1, <1>3, <2>2, <2>3, <2>4
<1>15. CASE ReviewDump
  <2> DEFINE p == Head(todo)
  <2>1. todo # <<>> /\ p \in Packets /\ p.tag = "scolcol"
    BY <1>1, <1>15, TailPositions DEF ReviewDump
  <2>2. p.ptr \in Scols /\ p.val \in Values
    BY <2>1, PacketFields DEF ScolTags
  <2>3. Reference(p) \in Packets
    BY <2>1, <2>2 DEF Reference, Packets, ScolTags, ColliderTags, Overrun
  <2>4. \/ Publish(p) /\ todo' = <<>>
        \/ UNCHANGED hoseVars /\ todo' = <<Reference(p)>>
    BY <1>15 DEF ReviewDump
  <2>5. HoseOK' /\ stream' \in Seq(Packets) /\ Writable(todo')
    BY <1>1, <1>4, <1>5, <2>1, <2>3, <2>4, HoseTypes, WritableShort
  <2>6. s_hashed_scols' \in Contents(Scols) /\ slotHash' \in [Scols -> Values \cup {NoHash}]
    <3>1. CASE p.ptr \in DOMAIN s_hashed_scols
      <4>1. s_hashed_scols' = [s_hashed_scols EXCEPT ![p.ptr] = p.val]
            /\ slotHash' = [slotHash EXCEPT ![p.ptr] = p.val]
        BY <1>15, <3>1 DEF ReviewDump
      <4> HIDE DEF p
      <4>2. [s_hashed_scols EXCEPT ![p.ptr] = p.val] \in Contents(Scols)
        <5> DEFINE x == p.ptr
                   v == p.val
        <5>1. x \in DOMAIN s_hashed_scols /\ v \in Values
          BY <2>2, <3>1
        <5> HIDE DEF x, v
        <5>2. [s_hashed_scols EXCEPT ![x] = v] \in Contents(Scols)
          BY <1>1, <5>1, ContentsExcept
        <5> QED BY <5>2 DEF x, v
      <4> QED BY <1>1, <2>2, <4>1, <4>2
    <3>2. CASE p.ptr \notin DOMAIN s_hashed_scols
      BY <1>1, <1>15, <3>2 DEF ReviewDump
    <3> QED BY <3>1, <3>2
  <2>7. UNCHANGED <<live, s_colliders, oldHash, on, all, history, client>>
    BY <1>15 DEF ReviewDump
  <2> QED BY <1>1, <2>5, <2>6, <2>7 DEF history
<1>16. CASE LoseDump
  <2>1. Head(todo) \in Packets /\ Head(todo).tag = "scolcol"
    BY <1>1, <1>16, TailPositions DEF LoseDump
  <2>2. Reference(Head(todo)) \in Packets
    BY <2>1, PacketFields DEF Reference, Packets, ScolTags, ColliderTags, Overrun
  <2>3. Writable(todo')
    BY <1>16, <2>2, WritableShort DEF LoseDump
  <2>4. HoseOK' /\ stream' \in Seq(Packets)
    BY <1>1, <1>5, <1>16, HoseTypes DEF LoseDump
  <2>5. SameTables /\ client' = client
    BY <1>16 DEF LoseDump
  <2> QED BY <1>1, <1>3, <2>3, <2>4, <2>5
<1> QED
  BY <1>6, <1>7, <1>8, <1>9, <1>10, <1>11, <1>12, <1>13, <1>14, <1>15, <1>16
     DEF Next, Steps

(* The tables keep their bounds, and with the flag left on s_colliders names *)
(* living colliders only.                                                    *)
LEMMA CollTablesStep ==
  ASSUME CollTypes, CollTables, Next
  PROVE  CollTables'
<1>1. /\ s_colliders \subseteq Colliders /\ s_hashed_scols \in Contents(Scols)
      /\ stream \in Seq(Packets) /\ todo \in Seq(Packets)
      /\ slotHash \in [Scols -> Values \cup {NoHash}]
      /\ on \in BOOLEAN /\ offAgain \in BOOLEAN
  BY DEF CollTypes, TypeOK
<1>2. /\ IsFiniteSet(s_colliders) /\ IsFiniteSet(DOMAIN s_hashed_scols)
      /\ Cardinality(s_colliders) \in Nat /\ Cardinality(DOMAIN s_hashed_scols) \in Nat
      /\ ColliderSlots \in Nat /\ ScolSlots \in Nat
  <2>1. DOMAIN s_hashed_scols \subseteq Scols
    BY <1>1, ContentsHashes
  <2>2. IsFiniteSet(s_colliders) /\ IsFiniteSet(DOMAIN s_hashed_scols)
    BY <1>1, <2>1, FS_Subset, CollReportAssumption
  <2> QED BY <2>2, FS_CardinalityType, CollReportAssumption
<1> DEFINE Same == UNCHANGED <<s_colliders, s_hashed_scols, live, on, offAgain>>
<1>3. Same => CollTables'
  BY DEF CollTables
<1>4. CASE Deliver \/ Reconnect \/ HoseStep \/ WritePacket \/ LoseDump
  BY <1>3, <1>4 DEF Deliver, Reconnect, HoseStep, WritePacket, LoseDump, tableVars, history
<1>5. ASSUME NEW o \in BOOLEAN, NEW a \in BOOLEAN, SetFlags(o, a) PROVE CollTables'
  <2>1. UNCHANGED <<s_colliders, s_hashed_scols, live>> /\ on' = o
        /\ offAgain' = (offAgain \/ (on /\ ~o))
    BY <1>5 DEF SetFlags, tableVars
  <2>2. ~offAgain' /\ ~on' => ~offAgain /\ ~on
    BY <2>1, <1>1
  <2> QED BY <2>1, <2>2 DEF CollTables
<1>6. ASSUME NEW c \in Colliders, AddToGrid(c) PROVE CollTables'
  <2>1. live' = live \cup {c} /\ UNCHANGED <<s_hashed_scols, on, offAgain>>
    BY <1>6 DEF AddToGrid
  <2>2. CASE s_colliders' = s_colliders
    BY <2>1, <2>2 DEF CollTables
  <2>3. CASE s_colliders' = s_colliders \cup {c} /\ on
                /\ Cardinality(s_colliders) < ColliderSlots
    <3>0. Cardinality(s_colliders \cup {c}) \in
            {Cardinality(s_colliders), Cardinality(s_colliders) + 1}
      BY <1>2, FS_AddElement
    <3>1. Cardinality(s_colliders \cup {c}) <= ColliderSlots
      BY ONLY <1>2, <2>3, <3>0
    <3> QED BY <2>1, <2>3, <3>1 DEF CollTables
  <2> QED BY <1>6, <2>2, <2>3 DEF AddToGrid
<1>7. ASSUME NEW c \in Colliders, RemoveFromGrid(c) PROVE CollTables'
  <2>1. live' = live \ {c} /\ UNCHANGED <<s_hashed_scols, on, offAgain>>
    BY <1>7 DEF RemoveFromGrid, history
  <2>2. CASE on /\ c \in s_colliders
    <3>1. s_colliders' = s_colliders \ {c}
      BY <1>7, <2>2 DEF RemoveFromGrid
    <3>0. Cardinality(s_colliders \ {c}) \in
            {Cardinality(s_colliders), Cardinality(s_colliders) - 1}
      BY <1>2, FS_RemoveElement
    <3>2. Cardinality(s_colliders \ {c}) <= ColliderSlots
      <4>1. Cardinality(s_colliders) <= ColliderSlots
        BY DEF CollTables
      <4> QED BY ONLY <4>1, <1>2, <3>0
    <3> QED BY <2>1, <3>1, <3>2 DEF CollTables
  <2>3. CASE ~(on /\ c \in s_colliders)
    <3>1. s_colliders' = s_colliders
      BY <1>7, <2>3 DEF RemoveFromGrid
    <3> QED BY <2>1, <2>3, <3>1 DEF CollTables
  <2> QED BY <2>2, <2>3
<1>8. ASSUME NEW s \in Scols, NEW v \in Values, ScolHook(s, v) PROVE CollTables'
  <2>1. UNCHANGED <<live, s_colliders, on, offAgain>>
    BY <1>8 DEF ScolHook, history
  <2>2. CASE s_hashed_scols' = s_hashed_scols
    BY <2>1, <2>2 DEF CollTables
  <2>3. CASE /\ s \notin DOMAIN s_hashed_scols
             /\ Cardinality(DOMAIN s_hashed_scols) < ScolSlots
             /\ \E h \in {NoHash, slotHash[s]} : s_hashed_scols' = With(s_hashed_scols, s, h)
    <3>1. PICK h \in {NoHash, slotHash[s]} : s_hashed_scols' = With(s_hashed_scols, s, h)
      BY <2>3
    <3>2. DOMAIN s_hashed_scols' = DOMAIN s_hashed_scols \cup {s}
      BY <3>1 DEF With
    <3> DEFINE d == DOMAIN s_hashed_scols
    <3>4. IsFiniteSet(d) /\ Cardinality(d) \in Nat /\ ScolSlots \in Nat
          /\ Cardinality(d) < ScolSlots
      BY <1>2, <2>3
    <3> HIDE DEF d
    <3>5. Cardinality(d \cup {s}) \in {Cardinality(d), Cardinality(d) + 1}
      BY <3>4, FS_AddElement
    <3>3. Cardinality(DOMAIN s_hashed_scols \cup {s}) <= ScolSlots
      BY <3>4, <3>5 DEF d
    <3> QED BY <2>1, <3>2, <3>3 DEF CollTables
  <2> QED BY <1>8, <2>2, <2>3 DEF ScolHook
<1>9. CASE FrameStart
  <2>1. s_hashed_scols' = [s \in {} |-> NoHash] /\ UNCHANGED <<live, s_colliders, on, offAgain>>
    BY <1>9 DEF FrameStart, history
  <2>2. DOMAIN s_hashed_scols' = {}
    BY <2>1
  <2>3. Cardinality(DOMAIN s_hashed_scols') <= ScolSlots
    BY <2>2, <1>2, FS_EmptySet
  <2> QED BY <2>1, <2>3 DEF CollTables
<1>10. CASE ReviewDump
  <2>1. UNCHANGED <<live, s_colliders, on, offAgain>>
    BY <1>10 DEF ReviewDump, history
  <2>2. DOMAIN s_hashed_scols' = DOMAIN s_hashed_scols
    BY <1>10 DEF ReviewDump
  <2> QED BY <2>1, <2>2 DEF CollTables
<1> QED BY <1>4, <1>5, <1>6, <1>7, <1>8, <1>9, <1>10 DEF Next, Steps

-----------------------------------------------------------------------------
(* Reconnecting, and reading what was spoilt.                                *)
LEMMA CollLossesStep ==
  ASSUME CollTypes, CollLosses, Next
  PROVE  CollLosses'
<1>1. /\ stream \in Seq(Packets) /\ todo \in Seq(Packets) /\ client \in Clients
      /\ lastOverrun \in BOOLEAN
      /\ conn \in {"closed", "pending", "current"}
  BY DEF CollTypes, TypeOK, HoseOK, Clients
<1>2. UNCHANGED hoseVars /\ client' = client => CollLosses'
  BY DEF CollLosses, hoseVars
<1>3. CASE Deliver
  <2> DEFINE p == Head(stream)
  <2>1. p \in Packets /\ stream # <<>> /\ stream' = Tail(stream) /\ conn' = "current"
        /\ lastOverrun' = lastOverrun
    BY <1>1, <1>3, TailPositions DEF Deliver
  <2>2. client'.synced <=> (client.synced /\ p \notin Overruns) \/ p \in Syncs
    BY <1>1, <1>3, <2>1, ParseEffect DEF Deliver
  <2>3. \A x \in Packets : ~(x \in Syncs /\ x \in Overruns)
    BY PacketKinds
  <2>4. ASSUME lastOverrun PROVE Spoilt(stream', client'.synced, Syncs, Overruns)
    <3>1. Spoilt(stream, client.synced, Syncs, Overruns)
      BY <2>4 DEF CollLosses
    <3> DEFINE b == client.synced
               bb == client'.synced
    <3>2. bb => (b /\ p \notin Overruns) \/ p \in Syncs
      BY <2>2
    <3> HIDE DEF b, bb
    <3>3. Spoilt(Tail(stream), bb, Syncs, Overruns)
      BY <1>1, <2>1, <2>3, <3>1, <3>2, SpoiltTail DEF b
    <3> QED BY <2>1, <3>3 DEF bb
  <2> QED BY <2>1, <2>4 DEF CollLosses
<1>4. CASE Reconnect
  <2>1. client'.synced = FALSE /\ UNCHANGED <<stream, lastOverrun>>
    BY <1>1, <1>4 DEF Reconnect, Disconnect, Clients
  <2>2. lastOverrun => Spoilt(stream, FALSE, Syncs, Overruns)
    BY DEF CollLosses, Spoilt, From
  <2> QED BY <2>1, <2>2 DEF CollLosses
<1>5. CASE HoseStep
  <2>1. client' = client /\ lastOverrun' = lastOverrun
    BY <1>5 DEF HoseStep, DiscardPacket, HandOver, Adopt
  <2>2. conn # "current" /\ ~client.synced
    BY <1>5 DEF HoseStep, DiscardPacket, HandOver, Adopt, CollLosses
  <2>3. client.synced = FALSE
    BY <1>1, <2>2 DEF Clients
  <2>4. stream' = stream \/ \E n \in 0..Len(stream) : stream' = SubSeq(stream, n + 1, Len(stream))
    <3>1. CASE DiscardPacket
      BY <1>1, <3>1, TailDrops DEF DiscardPacket
    <3>2. CASE HandOver \/ Adopt
      BY <3>2 DEF HandOver, Adopt
    <3> QED BY <1>5, <3>1, <3>2 DEF HoseStep
  <2>5. lastOverrun => Spoilt(stream', FALSE, Syncs, Overruns)
    <3>1. CASE stream' = stream
      BY <2>3, <3>1 DEF CollLosses
    <3>2. ASSUME NEW n \in 0..Len(stream), stream' = SubSeq(stream, n + 1, Len(stream))
          PROVE  lastOverrun => Spoilt(stream', FALSE, Syncs, Overruns)
      BY <1>1, <2>3, <3>2, SpoiltDrop DEF CollLosses
    <3> QED BY <2>4, <3>1, <3>2
  <2> QED BY <2>1, <2>2, <2>3, <2>5 DEF CollLosses
<1>6. ASSUME NEW p, Publish(p), client' = client PROVE CollLosses'
  BY <1>6 DEF Publish, CollLosses
<1>7. ASSUME Lose, client' = client PROVE CollLosses'
  <2>1. Spoilt(stream', client.synced, Syncs, Overruns)
    <3>1. CASE lastOverrun
      BY <1>7, <3>1 DEF Lose, CollLosses
    <3>2. CASE ~lastOverrun
      <4>1. stream' = Append(stream, Overrun)
        BY <1>7, <3>2 DEF Lose
      <4> QED BY <1>1, <4>1, PacketKinds, SpoiltByOverrun
    <3> QED BY <3>1, <3>2
  <2>2. conn' = conn
    BY <1>7 DEF Lose
  <2> QED BY <1>7, <2>1, <2>2 DEF CollLosses
<1>8. CASE WritePacket \/ LoseDump \/ ReviewDump
  <2>1. client' = client
    BY <1>8 DEF WritePacket, LoseDump, ReviewDump
  <2>2. (\E p : Publish(p)) \/ Lose \/ UNCHANGED hoseVars
    BY <1>8 DEF WritePacket, LoseDump, ReviewDump
  <2> QED BY <1>2, <1>6, <1>7, <2>1, <2>2
<1>9. ASSUME NEW o, NEW a, SetFlags(o, a) PROVE CollLosses'
  BY <1>2, <1>9 DEF SetFlags
<1>10. ASSUME NEW c, AddToGrid(c) \/ RemoveFromGrid(c) PROVE CollLosses'
  BY <1>2, <1>10 DEF AddToGrid, RemoveFromGrid
<1>11. ASSUME NEW s, NEW v, ScolHook(s, v) PROVE CollLosses'
  BY <1>2, <1>11 DEF ScolHook
<1>12. CASE FrameStart
  BY <1>2, <1>12 DEF FrameStart
<1> QED
  BY <1>3, <1>4, <1>5, <1>8, <1>9, <1>10, <1>11, <1>12 DEF Next, Steps

-----------------------------------------------------------------------------
(* What each step does to the queue as a whole.                              *)
LEMMA QueueSteps ==
  ASSUME CollTypes
  PROVE  /\ Queue \in Seq(Packets)
         /\ Deliver => /\ Queue # <<>> /\ Queue' = Tail(Queue)
                       /\ Head(Queue) = Head(stream)
         /\ HoseStep => Queue' = Queue \/ \E n \in 0..Len(Queue) :
                                           Queue' = SubSeq(Queue, n + 1, Len(Queue))
         /\ todo # <<>> /\ Publish(Head(todo)) /\ todo' = Tail(todo) => Queue' = Queue
         /\ todo = <<>> => Queue = stream
         /\ \A p \in Packets : /\ todo = <<p>> => Queue = Append(stream, p)
                               /\ UNCHANGED stream /\ todo' = <<p>>
                                    => Queue' = Append(stream, p)
<1>1. stream \in Seq(Packets) /\ todo \in Seq(Packets)
  BY DEF CollTypes
<1>2. Queue \in Seq(Packets)
  BY <1>1, QueueTypes DEF Queue
<1>3. ASSUME Deliver
      PROVE  Queue # <<>> /\ Queue' = Tail(Queue) /\ Head(Queue) = Head(stream)
  <2>1. stream # <<>> /\ stream' = Tail(stream) /\ todo' = todo
    BY <1>3 DEF Deliver
  <2>2. Tail(stream) \o todo = Tail(stream \o todo) /\ Head(stream \o todo) = Head(stream)
        /\ stream \o todo # <<>>
    BY <1>1, <2>1, QueueTail
  <2> QED BY <2>1, <2>2 DEF Queue
<1>4. ASSUME HoseStep
      PROVE  Queue' = Queue \/ \E n \in 0..Len(Queue) :
                                 Queue' = SubSeq(Queue, n + 1, Len(Queue))
  <2>1. todo' = todo
    BY <1>4 DEF HoseStep
  <2>2. CASE stream' = stream
    BY <2>1, <2>2 DEF Queue
  <2>3. ASSUME NEW n \in 0..Len(stream), stream' = SubSeq(stream, n + 1, Len(stream))
        PROVE  \E m \in 0..Len(Queue) : Queue' = SubSeq(Queue, m + 1, Len(Queue))
    <3>1. SubSeq(stream, n + 1, Len(stream)) \o todo
            = SubSeq(stream \o todo, n + 1, Len(stream \o todo))
          /\ n \in 0..Len(stream \o todo)
      BY <1>1, QueueDrop
    <3> QED BY <2>1, <2>3, <3>1 DEF Queue
  <2>4. stream' = stream \/ \E n \in 0..Len(stream) : stream' = SubSeq(stream, n + 1, Len(stream))
    <3>1. CASE DiscardPacket
      BY <1>1, <3>1, TailDrops DEF DiscardPacket
    <3>2. CASE HandOver \/ Adopt
      BY <3>2 DEF HandOver, Adopt
    <3> QED BY <1>4, <3>1, <3>2 DEF HoseStep
  <2> QED BY <2>2, <2>3, <2>4
<1>5. ASSUME todo # <<>>, Publish(Head(todo)), todo' = Tail(todo) PROVE Queue' = Queue
  <2>1. stream' = Append(stream, Head(todo))
    BY <1>5 DEF Publish
  <2>2. Append(stream, Head(todo)) \o Tail(todo) = stream \o todo
    BY <1>1, <1>5, QueueWrite
  <2> QED BY <1>5, <2>1, <2>2 DEF Queue
<1>6. ASSUME todo = <<>> PROVE Queue = stream
  BY <1>1, <1>6 DEF Queue
<1>7. ASSUME NEW p \in Packets
      PROVE  /\ todo = <<p>> => Queue = Append(stream, p)
             /\ UNCHANGED stream /\ todo' = <<p>> => Queue' = Append(stream, p)
  <2>1. stream \o <<p>> = Append(stream, p)
    BY <1>1, QueueShort
  <2> QED BY <2>1 DEF Queue
<1> QED BY <1>2, <1>3, <1>4, <1>5, <1>6, <1>7

(* A packet lost spoils what began before it, and none begins behind it.     *)
LEMMA LossSpoilsQueue ==
  ASSUME CollTypes, CollLosses,
         \/ WritePacket /\ Lose
         \/ LoseDump
  PROVE  /\ Spoilt(Queue', client.synced, Syncs, Overruns) /\ client' = client
         /\ Spoilt(stream', client.synced, Syncs, Overruns)
<1>1. stream \in Seq(Packets) /\ todo \in Seq(Packets) /\ todo # <<>> /\ Writable(todo) /\ Lose
  BY DEF CollTypes, WritePacket, LoseDump, Writable, Dumping
<1>2. client' = client
  BY DEF WritePacket, LoseDump
<1>3. CollTypes'
  BY CollTypesStep DEF Next, Steps
<1>4. CollLosses' /\ lastOverrun' = TRUE
  BY CollLossesStep DEF Next, Steps, Lose, LoseDump
<1>5. Spoilt(stream', client.synced, Syncs, Overruns)
  BY <1>2, <1>4 DEF CollLosses
<1>6. stream' \in Seq(Packets) /\ todo' \in Seq(Packets)
  BY <1>3 DEF CollTypes
<1>7. \A i \in 1..Len(todo') : todo'[i] \notin Syncs
  <2>1. CASE WritePacket
    <3> DEFINE n == Len(todo) - 1
    <3>1. todo' = Tail(todo)
      BY <2>1 DEF WritePacket
    <3>2. Len(todo') = n /\ n \in Nat /\ \A i \in 1..n : todo'[i] = todo[i + 1]
      BY <1>1, <3>1, TailPositions
    <3>3. ASSUME NEW i \in 1..n PROVE todo[i + 1].tag # "allcols"
      <4>1. i + 1 \in 1..Len(todo) /\ i + 1 # 1
        OBVIOUS
      <4> QED BY <4>1, <1>1 DEF Writable
    <3> QED BY <3>2, <3>3 DEF Syncs
  <2>2. CASE LoseDump
    <3>1. todo' = <<>> \/ todo' = <<Reference(Head(todo))>>
      BY <2>2 DEF LoseDump
    <3>2. Head(todo) \in Packets
      BY <1>1, TailPositions
    <3>3. Head(todo).tag = "scolcol"
      BY <2>2 DEF LoseDump
    <3>4. Reference(Head(todo)).tag = "scolco~"
      BY <3>2, <3>3 DEF Reference, Packets, ColliderTags, ScolTags, Overrun
    <3> QED BY <3>1, <3>4 DEF Syncs
  <2> QED BY <2>1, <2>2
<1>8. Spoilt(stream' \o todo', client.synced, Syncs, Overruns)
  BY <1>5, <1>6, <1>7, SpoiltConcat
<1> QED BY <1>2, <1>5, <1>8 DEF Queue

(* A packet about something else may be taken back.                          *)
LEMMA CoveredUnappend ==
  ASSUME NEW X, NEW q \in Seq(X), NEW p \in X, NEW b, NEW a,
         NEW S, NEW O, NEW A, NEW R,
         Covered(Append(q, p), b, a, S, O, A, R),
         p \notin S, p \notin O, p \notin A, p \notin R
  PROVE  Covered(q, b, a, S, O, A, R)
<1> DEFINE r == Append(q, p)
           n == Len(q)
<1>1. n \in Nat /\ Len(r) = n + 1 /\ r[n + 1] = p /\ \A i \in 1..n : r[i] = q[i]
  BY AppendPositions
<1> HIDE DEF r
<1>2. From(b, r, S) = From(b, q, S) /\ From(a, r, A) = From(a, q, A)
  BY <1>1 DEF From
<1>3. Pos(r, O) = Pos(q, O) /\ Pos(r, R) = Pos(q, R)
  BY <1>1 DEF Pos
<1>4. Covered(r, b, a, S, O, A, R)
  BY DEF r
<1> QED BY <1>2, <1>3, <1>4 DEF Covered

-----------------------------------------------------------------------------
(* The hooks' steps: what they append to the queue.                          *)
LEMMA HookSteps ==
  ASSUME CollTypes
  PROVE  /\ \A c \in Colliders : AddToGrid(c) \/ RemoveFromGrid(c) =>
              \/ UNCHANGED <<Queue, s_colliders, full>>
              \/ /\ AddToGrid(c) /\ Queue = stream
                 /\ Queue' = Append(stream, [tag |-> "normco+", ptr |-> c])
                 /\ s_colliders' = s_colliders \cup {c}
                    \/ (s_colliders' = s_colliders /\ (full' \/ c \in s_colliders))
                 /\ full => full'
              \/ /\ RemoveFromGrid(c) /\ Queue = stream
                 /\ Queue' = Append(stream, [tag |-> "normco-", ptr |-> c])
                 /\ s_colliders' = s_colliders \ {c} /\ full' = full
         /\ \A c \in Colliders : AddToGrid(c) \/ RemoveFromGrid(c) =>
              UNCHANGED <<hoseVars, client>>
         /\ \A s \in Scols, v \in Values : ScolHook(s, v) =>
              /\ Queue = stream /\ UNCHANGED <<hoseVars, client, s_colliders, full>>
              /\ Queue' = Append(stream, [tag |-> "scolcol", ptr |-> s, val |-> v])
         /\ FrameStart =>
              /\ Queue = stream /\ UNCHANGED <<hoseVars, client, s_colliders, full>>
              /\ Queue' = stream \o FullDump
<1>1. stream \in Seq(Packets) /\ todo \in Seq(Packets)
  BY DEF CollTypes
<1>2. ASSUME NEW c \in Colliders, AddToGrid(c)
      PROVE  \/ UNCHANGED <<Queue, s_colliders, full>>
             \/ /\ Queue = stream
                /\ Queue' = Append(stream, [tag |-> "normco+", ptr |-> c])
                /\ s_colliders' = s_colliders \cup {c}
                   \/ (s_colliders' = s_colliders /\ (full' \/ c \in s_colliders))
                /\ full => full'
  <2> DEFINE p == [tag |-> "normco+", ptr |-> c]
  <2>1. p \in Packets
    BY DEF Packets, ColliderTags
  <2>2. stream' = stream /\ todo = <<>>
    BY <1>2 DEF AddToGrid, hoseVars
  <2>3. CASE ~on
    BY <1>2, <2>2, <2>3 DEF AddToGrid, Queue
  <2>4. CASE on
    <3>1. todo' = <<p>> /\ full' = (full \/ c \notin s_colliders')
          /\ (s_colliders' = s_colliders \cup {c} \/ s_colliders' = s_colliders)
      BY <1>2, <2>4 DEF AddToGrid
    <3> HIDE DEF p
    <3>2. Queue = stream /\ Queue' = Append(stream, p)
      BY <2>1, <2>2, <3>1, QueueSteps
    <3> QED BY <3>1, <3>2 DEF p
  <2> QED BY <2>3, <2>4
<1>3. ASSUME NEW c \in Colliders, RemoveFromGrid(c)
      PROVE  \/ UNCHANGED <<Queue, s_colliders, full>>
             \/ /\ Queue = stream
                /\ Queue' = Append(stream, [tag |-> "normco-", ptr |-> c])
                /\ s_colliders' = s_colliders \ {c} /\ full' = full
  <2> DEFINE p == [tag |-> "normco-", ptr |-> c]
  <2>1. p \in Packets
    BY DEF Packets, ColliderTags
  <2>2. stream' = stream /\ todo = <<>> /\ full' = full
    BY <1>3 DEF RemoveFromGrid, hoseVars, history
  <2>3. CASE ~(on /\ c \in s_colliders)
    BY <1>3, <2>2, <2>3 DEF RemoveFromGrid, Queue
  <2>4. CASE on /\ c \in s_colliders
    <3>1. todo' = <<p>> /\ s_colliders' = s_colliders \ {c}
      BY <1>3, <2>4 DEF RemoveFromGrid
    <3> HIDE DEF p
    <3>2. Queue = stream /\ Queue' = Append(stream, p)
      BY <2>1, <2>2, <3>1, QueueSteps
    <3> QED BY <2>2, <3>1, <3>2 DEF p
  <2> QED BY <2>3, <2>4
<1>4. ASSUME NEW c \in Colliders, AddToGrid(c) \/ RemoveFromGrid(c)
      PROVE  UNCHANGED <<hoseVars, client>>
  BY <1>4 DEF AddToGrid, RemoveFromGrid
<1>5. ASSUME NEW s \in Scols, NEW v \in Values, ScolHook(s, v)
      PROVE  /\ Queue = stream /\ UNCHANGED <<hoseVars, client, s_colliders, full>>
             /\ Queue' = Append(stream, [tag |-> "scolcol", ptr |-> s, val |-> v])
  <2> DEFINE p == [tag |-> "scolcol", ptr |-> s, val |-> v]
  <2>1. p \in Packets
    BY DEF Packets, ScolTags
  <2>2. stream' = stream /\ todo = <<>> /\ todo' = <<p>>
        /\ UNCHANGED <<hoseVars, client, s_colliders, full>>
    BY <1>5 DEF ScolHook, hoseVars, history
  <2> HIDE DEF p
  <2>3. Queue = stream /\ Queue' = Append(stream, p)
    BY <2>1, <2>2, QueueSteps
  <2> QED BY <2>2, <2>3 DEF p
<1>6. ASSUME FrameStart
      PROVE  /\ Queue = stream /\ UNCHANGED <<hoseVars, client, s_colliders, full>>
             /\ Queue' = stream \o FullDump
  <2>1. todo = <<>> /\ todo' = FullDump
        /\ UNCHANGED <<hoseVars, client, s_colliders, full>>
    BY <1>6 DEF FrameStart, FullDump, history
  <2>2. Queue = stream
    BY <2>1, QueueSteps
  <2> QED BY <2>1, <2>2 DEF Queue, hoseVars
<1> QED BY <1>2, <1>3, <1>4, <1>5, <1>6

(* The colliders of the table stay told.                                     *)
LEMMA CollidersToldStep ==
  ASSUME CollTypes, CollLosses, CollidersTold, Next
  PROVE  CollidersTold'
<1> DEFINE b == client.synced
           a(c) == c \in client.colliders
<1> SUFFICES ASSUME NEW c \in s_colliders'
             PROVE  Covered(Queue', b', a(c)', Syncs, Overruns, Adds(c), Removes(c))
  BY DEF CollidersTold
<1>1. /\ stream \in Seq(Packets) /\ todo \in Seq(Packets) /\ Queue \in Seq(Packets)
      /\ client \in Clients /\ s_colliders \subseteq Colliders
      /\ s_colliders' \subseteq Colliders
  BY CollTypesStep, QueueSteps DEF CollTypes, TypeOK, Clients
<1>2. c \in Colliders
  BY <1>1
<1>3. c \in s_colliders => Covered(Queue, b, a(c), Syncs, Overruns, Adds(c), Removes(c))
  BY DEF CollidersTold
<1>4. ASSUME UNCHANGED <<Queue, s_colliders, client>>
      PROVE  Covered(Queue', b', a(c)', Syncs, Overruns, Adds(c), Removes(c))
  BY <1>3, <1>4
<1>5. ASSUME Spoilt(Queue', b, Syncs, Overruns), client' = client
      PROVE  Covered(Queue', b', a(c)', Syncs, Overruns, Adds(c), Removes(c))
  BY <1>5, SpoiltCovers
<1>6. CASE Deliver
  <2> DEFINE p == Head(stream)
             bb == b'
             aa == a(c)'
             b0 == b
             a0 == a(c)
  <2>1. stream # <<>> /\ p \in Packets /\ client' = Parse(client, p)
        /\ s_colliders' = s_colliders
    BY <1>1, <1>6, TailPositions DEF Deliver, tableVars
  <2>2. Queue # <<>> /\ Queue' = Tail(Queue) /\ Head(Queue) = p
    BY <1>6, QueueSteps
  <2>3. bb <=> (b0 /\ p \notin Overruns) \/ p \in Syncs
    BY <1>1, <2>1, ParseEffect
  <2>4. aa <=> (a0 /\ p \notin Removes(c)) \/ p \in Adds(c)
    BY <1>1, <1>2, <2>1, ParseEffect
  <2>5. Covered(Queue, b0, a0, Syncs, Overruns, Adds(c), Removes(c))
    BY <1>3, <2>1
  <2>6. /\ \A x \in Packets : ~(x \in Adds(c) /\ x \in Removes(c))
        /\ ~(p \in Syncs /\ p \in Overruns)
    BY <1>2, <2>1, PacketKinds
  <2> HIDE DEF p, bb, aa, b0, a0
  <2>7. /\ bb => (b0 /\ Head(Queue) \notin Overruns)
                 \/ (Head(Queue) \in Syncs /\ Head(Queue) \notin Overruns)
        /\ (a0 /\ Head(Queue) \notin Removes(c))
             \/ (Head(Queue) \in Adds(c) /\ Head(Queue) \notin Removes(c)) => aa
    BY <2>2, <2>3, <2>4, <2>6
  <2>8. Covered(Tail(Queue), bb, aa, Syncs, Overruns, Adds(c), Removes(c))
    BY <1>1, <2>2, <2>5, <2>6, <2>7, CoveredTail
  <2> QED BY <2>2, <2>8 DEF bb, aa
<1>7. CASE Reconnect
  <2>1. UNCHANGED <<Queue, s_colliders>> /\ client' = [client EXCEPT !.synced = FALSE]
    BY <1>7 DEF Reconnect, Disconnect, Queue, tableVars
  <2>2. b' = FALSE /\ client'.colliders = client.colliders
    BY <1>1, <2>1 DEF Clients
  <2>3. Covered(Queue, b, a(c), Syncs, Overruns, Adds(c), Removes(c))
    BY <1>3, <2>1
  <2>4. a(c)' = a(c)
    BY <2>2
  <2> DEFINE b0 == b
             a0 == a(c)
  <2> HIDE DEF b0, a0
  <2>5. Covered(Queue, FALSE, a0, Syncs, Overruns, Adds(c), Removes(c))
    <3>1. Covered(Queue, b0, a0, Syncs, Overruns, Adds(c), Removes(c))
      BY <2>3 DEF b0, a0
    <3> QED BY ONLY <3>1, CoveredForget
  <2> QED BY <2>1, <2>2, <2>4, <2>5 DEF a0
<1>8. CASE HoseStep
  <2>1. client' = client /\ s_colliders' = s_colliders
    BY <1>8 DEF HoseStep, tableVars
  <2>2. b = FALSE
    BY <1>1, <1>8 DEF CollLosses, HoseStep, DiscardPacket, HandOver, Adopt, Clients
  <2>3. CASE Queue' = Queue
    BY <1>4, <2>1, <2>3
  <2>4. ASSUME NEW n \in 0..Len(Queue), Queue' = SubSeq(Queue, n + 1, Len(Queue))
        PROVE  Covered(Queue', b', a(c)', Syncs, Overruns, Adds(c), Removes(c))
    BY <1>1, <1>3, <2>1, <2>2, <2>4, CoveredDrop
  <2> QED BY <1>8, <2>3, <2>4, QueueSteps
<1>9. ASSUME NEW o, NEW f, SetFlags(o, f)
      PROVE  Covered(Queue', b', a(c)', Syncs, Overruns, Adds(c), Removes(c))
  BY <1>4, <1>9 DEF SetFlags, Queue, hoseVars, tableVars
<1>10. ASSUME NEW d \in Colliders, AddToGrid(d) \/ RemoveFromGrid(d)
       PROVE  Covered(Queue', b', a(c)', Syncs, Overruns, Adds(c), Removes(c))
  <2>1. client' = client
    BY <1>10, HookSteps
  <2>2. CASE UNCHANGED <<Queue, s_colliders, full>>
    BY <1>4, <2>1, <2>2
  <2>3. CASE /\ Queue = stream /\ Queue' = Append(stream, [tag |-> "normco+", ptr |-> d])
             /\ s_colliders' = s_colliders \cup {d} \/ s_colliders' = s_colliders
    <3> DEFINE p == [tag |-> "normco+", ptr |-> d]
    <3>1. p \in Packets /\ p \notin Syncs /\ p \notin Removes(c) /\ (d = c => p \in Adds(c))
      BY DEF Packets, ColliderTags, Syncs, Removes, Adds
    <3>2. Queue' = Append(Queue, p)
      BY <2>3
    <3> HIDE DEF p
    <3>3. CASE d = c
      BY <1>1, <2>1, <3>1, <3>2, <3>3, CoveredByAppend
    <3>4. CASE d # c
      <4>1. Covered(Queue, b, a(c), Syncs, Overruns, Adds(c), Removes(c))
        BY <1>3, <2>3, <3>4
      <4> QED BY <1>1, <2>1, <3>1, <3>2, <4>1, CoveredAppend
    <3> QED BY <3>3, <3>4
  <2>4. CASE /\ Queue = stream /\ Queue' = Append(stream, [tag |-> "normco-", ptr |-> d])
             /\ s_colliders' = s_colliders \ {d}
    <3> DEFINE p == [tag |-> "normco-", ptr |-> d]
    <3>1. c # d /\ c \in s_colliders
      BY <2>4
    <3>2. p \in Packets /\ p \notin Syncs /\ p \notin Removes(c)
      BY <3>1 DEF Packets, ColliderTags, Syncs, Removes
    <3>3. Queue' = Append(Queue, p)
      BY <2>4
    <3> HIDE DEF p
    <3>4. Covered(Queue, b, a(c), Syncs, Overruns, Adds(c), Removes(c))
      BY <1>3, <3>1
    <3> QED BY <1>1, <2>1, <3>2, <3>3, <3>4, CoveredAppend
  <2> QED BY <1>10, <2>2, <2>3, <2>4, HookSteps
<1>11. ASSUME NEW s \in Scols, NEW v \in Values, ScolHook(s, v)
       PROVE  Covered(Queue', b', a(c)', Syncs, Overruns, Adds(c), Removes(c))
  <2> DEFINE p == [tag |-> "scolcol", ptr |-> s, val |-> v]
  <2>1. p \in Packets /\ p \notin Syncs /\ p \notin Removes(c)
    BY DEF Packets, ScolTags, Syncs, Removes
  <2>2. Queue' = Append(Queue, p) /\ client' = client /\ s_colliders' = s_colliders
    BY <1>11, HookSteps
  <2> HIDE DEF p
  <2>3. Covered(Queue, b, a(c), Syncs, Overruns, Adds(c), Removes(c))
    BY <1>3, <2>2
  <2> QED BY <1>1, <2>1, <2>2, <2>3, CoveredAppend
<1>12. CASE FrameStart
  <2> DEFINE r == FullDump
  <2>1. Queue' = Queue \o r /\ client' = client /\ s_colliders' = s_colliders
    BY <1>12, HookSteps
  <2>2. /\ r \in Seq(Packets) /\ r[1] = [tag |-> "allcols"]
        /\ \A i \in 2..Len(r) : \E d \in s_colliders : r[i] = [tag |-> "normco*", ptr |-> d]
        /\ \A d \in s_colliders : \E i \in 2..Len(r) : r[i] = [tag |-> "normco*", ptr |-> d]
    BY <1>1, FullDumpPositions
  <2> HIDE DEF r
  <2>9. Len(r) \in Nat
    BY <2>2
  <2>3. ASSUME NEW i \in 1..Len(r) PROVE r[i] \notin Removes(c) /\ (r[i] \in Syncs => i = 1)
    <3>1. CASE i = 1
      BY <2>2, <3>1 DEF Removes
    <3>2. CASE i # 1
      <4>1. i \in 2..Len(r)
        BY <2>9, <3>2
      <4>2. PICK d \in s_colliders : r[i] = [tag |-> "normco*", ptr |-> d]
        BY <2>2, <4>1
      <4> QED BY <4>2 DEF Removes, Syncs
    <3> QED BY <3>1, <3>2
  <2>4. PICK k \in 2..Len(r) : r[k] = [tag |-> "normco*", ptr |-> c]
    BY <2>1, <2>2
  <2>5. k \in 1..Len(r) /\ r[k] \in Adds(c)
    BY <1>2, <2>9, <2>4 DEF Adds, Packets, ColliderTags
  <2>6. Covered(Queue \o r, b, a(c), Syncs, Overruns, Adds(c), Removes(c))
    <3> DEFINE b0 == b
               a0 == a(c)
    <3> HIDE DEF b0, a0
    <3>1. Covered(Queue \o r, b0, a0, Syncs, Overruns, Adds(c), Removes(c))
      BY <1>1, <2>2, <2>3, <2>5, CoveredByDump
    <3> QED BY <3>1 DEF b0, a0
  <2> QED BY <2>1, <2>6
<1>13. CASE WritePacket
  <2>1. CASE Lose
    BY <1>5, <1>13, <2>1, LossSpoilsQueue
  <2>2. CASE Publish(Head(todo))
    <3>1. Queue' = Queue /\ client' = client /\ s_colliders' = s_colliders
      BY <1>13, <2>2, QueueSteps DEF WritePacket, tableVars
    <3> QED BY <1>4, <3>1
  <2> QED BY <1>13, <2>1, <2>2 DEF WritePacket
<1>14. CASE ReviewDump
  <2> DEFINE p == Head(todo)
  <2>1. p \in Packets /\ p.tag = "scolcol" /\ todo = <<p>>
    BY <1>1, <1>14 DEF ReviewDump, CollTypes, Dumping
  <2>2. Queue = Append(stream, p) /\ client' = client /\ s_colliders' = s_colliders
    BY <1>14, <2>1, QueueSteps DEF ReviewDump
  <2>3. CASE Publish(p) /\ todo' = <<>>
    <3>0. Tail(<<p>>) = <<>> /\ <<p>> # <<>>
      OBVIOUS
    <3>1. todo # <<>> /\ Publish(Head(todo)) /\ todo' = Tail(todo)
      BY <2>1, <2>3, <3>0
    <3>2. Queue' = Queue
      BY <3>1, QueueSteps
    <3> QED BY <1>4, <2>2, <3>2
  <2>4. CASE UNCHANGED hoseVars /\ todo' = <<Reference(p)>>
    <3> DEFINE q == Reference(p)
    <3>1. q \in Packets /\ q.tag = "scolco~"
      BY <2>1, PacketFields DEF Reference, Packets, ScolTags, ColliderTags, Overrun
    <3>2. UNCHANGED stream /\ todo' = <<q>>
      BY <2>4 DEF hoseVars
    <3> HIDE DEF q
    <3>3. Queue' = Append(stream, q)
      BY <3>1, <3>2, QueueSteps
    <3>4. Covered(stream, b, a(c), Syncs, Overruns, Adds(c), Removes(c))
          => Covered(Append(stream, q), b, a(c), Syncs, Overruns, Adds(c), Removes(c))
      BY <1>1, <3>1, CoveredAppend DEF Syncs, Removes
    <3>5. Covered(stream, b, a(c), Syncs, Overruns, Adds(c), Removes(c))
      <4>1. Covered(Append(stream, p), b, a(c), Syncs, Overruns, Adds(c), Removes(c))
        BY <1>3, <2>2
      <4>2. p \notin Syncs /\ p \notin Overruns /\ p \notin Adds(c) /\ p \notin Removes(c)
        BY <2>1 DEF Syncs, Overruns, Adds, Removes
      <4> HIDE DEF p
      <4> QED BY <1>1, <2>1, <4>1, <4>2, CoveredUnappend
    <3> QED BY <2>2, <3>3, <3>4, <3>5
  <2> QED BY <1>14, <2>3, <2>4 DEF ReviewDump
<1>15. CASE LoseDump
  BY <1>5, <1>15, LossSpoilsQueue
<1> QED
  BY <1>6, <1>7, <1>8, <1>9, <1>10, <1>11, <1>12, <1>13, <1>14, <1>15 DEF Next, Steps

-----------------------------------------------------------------------------
(* Overruns in a queue that grows, and in one whose first packet is read.    *)
LEMMA PosGrows ==
  ASSUME NEW X, NEW q \in Seq(X), NEW T
  PROVE  /\ \A p \in X : Pos(Append(q, p), T) = {} => Pos(q, T) = {}
         /\ \A p \in X : p \in T => Pos(Append(q, p), T) # {}
         /\ \A p \in X : p \notin T => Pos(Append(q, p), T) = Pos(q, T)
         /\ \A r \in Seq(X) : Pos(q \o r, T) = {} => Pos(q, T) = {}
<1>1. ASSUME NEW p \in X
      PROVE  /\ Pos(q, T) \subseteq Pos(Append(q, p), T)
             /\ p \in T => Pos(Append(q, p), T) # {}
             /\ p \notin T => Pos(Append(q, p), T) \subseteq Pos(q, T)
  <2> DEFINE r == Append(q, p)
             n == Len(q)
  <2>1. n \in Nat /\ Len(r) = n + 1 /\ r[n + 1] = p /\ \A i \in 1..n : r[i] = q[i]
    BY AppendPositions
  <2> HIDE DEF r
  <2>2. Pos(q, T) \subseteq Pos(r, T) /\ (p \notin T => Pos(r, T) \subseteq Pos(q, T))
    BY <2>1 DEF Pos
  <2>3. p \in T => n + 1 \in Pos(r, T)
    BY <2>1 DEF Pos
  <2> QED BY <2>2, <2>3 DEF r
<1>2. ASSUME NEW r \in Seq(X) PROVE Pos(q, T) \subseteq Pos(q \o r, T)
  <2> DEFINE w == q \o r
             n == Len(q)
             m == Len(r)
  <2>1. n \in Nat /\ m \in Nat /\ Len(w) = n + m /\ \A i \in 1..n : w[i] = q[i]
    BY ConcatPositions
  <2> HIDE DEF w
  <2>2. Pos(q, T) \subseteq Pos(w, T)
    BY <2>1 DEF Pos
  <2> QED BY <2>2 DEF w
<1> QED BY <1>1, <1>2

(* Reading the first packet.                                                 *)
LEMMA PosTail ==
  ASSUME NEW X, NEW q \in Seq(X), q # <<>>, NEW T, Pos(Tail(q), T) = {}, Head(q) \notin T
  PROVE  Pos(q, T) = {}
<1> DEFINE r == Tail(q)
           n == Len(q) - 1
<1>1. n \in Nat /\ Len(q) = n + 1 /\ Len(r) = n /\ q[1] = Head(q) /\ q[1] \in X
      /\ \A i \in 1..n : r[i] = q[i + 1]
  BY TailPositions
<1> HIDE DEF r, n
<1> SUFFICES ASSUME NEW j \in Pos(q, T) PROVE FALSE
  OBVIOUS
<1>2. j \in 1..(n + 1) /\ j # 1 /\ q[j] \in T
  BY <1>1 DEF Pos
<1>3. j - 1 \in Pos(r, T)
  BY <1>1, <1>2 DEF Pos
<1> QED BY <1>3 DEF r

(* On the first connection a loss is seen, or about to be.                   *)
Noticed ==
  conn = "current" /\ handOvers = 0 /\ lastOverrun
    => client.overrun \/ Pos(stream, Overruns) # {}

Unspoilt ==
  conn = "current" /\ handOvers = 0 /\ ~full /\ ~client.overrun /\ Pos(Queue, Overruns) = {}

LEMMA NoticedStep ==
  ASSUME CollTypes, handOvers = 0 => conn # "pending", Noticed, Next
  PROVE  (handOvers' = 0 => conn' # "pending") /\ Noticed'
<1>1. /\ stream \in Seq(Packets) /\ todo \in Seq(Packets) /\ client \in Clients
      /\ handOvers \in Nat
  BY DEF CollTypes, TypeOK, HoseOK, Clients
<1>2. UNCHANGED hoseVars /\ client' = client => (handOvers' = 0 => conn' # "pending") /\ Noticed'
  BY DEF hoseVars, Noticed
<1>3. CASE Deliver
  <2> DEFINE p == Head(stream)
  <2>1. p \in Packets /\ stream # <<>> /\ stream' = Tail(stream)
        /\ UNCHANGED <<lastOverrun, conn, handOvers>>
    BY <1>1, <1>3, TailPositions DEF Deliver
  <2>2. client'.overrun <=> client.overrun \/ p \in Overruns
    BY <1>1, <1>3, <2>1, ParseEffect DEF Deliver
  <2>3. Pos(Tail(stream), Overruns) = {} /\ p \notin Overruns => Pos(stream, Overruns) = {}
    BY <1>1, <2>1, PosTail
  <2> QED BY <2>1, <2>2, <2>3 DEF Noticed
<1>4. CASE Reconnect \/ HoseStep
  <2>1. (handOvers' = 0 => conn' # "pending") /\ ~(conn' = "current" /\ handOvers' = 0)
    BY <1>1, <1>4 DEF Reconnect, Disconnect, HoseStep, DiscardPacket, HandOver, Adopt
  <2> QED BY <2>1 DEF Noticed
<1>5. ASSUME client' = client, Lose PROVE (handOvers' = 0 => conn' # "pending") /\ Noticed'
  <2>1. UNCHANGED <<conn, handOvers>>
    BY <1>5 DEF Lose
  <2>2. CASE lastOverrun
    BY <1>5, <2>1, <2>2 DEF Lose, Noticed
  <2>3. CASE ~lastOverrun
    <3>1. stream' = Append(stream, Overrun)
      BY <1>5, <2>3 DEF Lose
    <3>2. stream \in Seq(Packets) /\ Overrun \in Packets /\ Overrun \in Overruns
      BY <1>1, PacketKinds
    <3> DEFINE q == Append(stream, Overrun)
               n == Len(stream)
    <3>3. n \in Nat /\ Len(q) = n + 1 /\ q[n + 1] = Overrun
      BY <1>1, <3>2, AppendPositions
    <3> HIDE DEF q, n
    <3>4. n + 1 \in Pos(q, Overruns)
      BY <3>2, <3>3 DEF Pos
    <3>5. Pos(stream', Overruns) # {}
      BY <3>1, <3>4 DEF q
    <3> QED BY <2>1, <3>5 DEF Noticed
  <2> QED BY <2>2, <2>3
<1>6. ASSUME NEW p, Publish(p) PROVE (handOvers' = 0 => conn' # "pending") /\ Noticed'
  BY <1>6 DEF Publish, Noticed
<1>7. CASE WritePacket \/ ReviewDump \/ LoseDump
  <2>1. client' = client /\ ((\E p : Publish(p)) \/ Lose \/ UNCHANGED hoseVars)
    BY <1>7 DEF WritePacket, ReviewDump, LoseDump
  <2> QED BY <1>2, <1>5, <1>6, <2>1
<1>8. ASSUME NEW o, NEW f, SetFlags(o, f)
      PROVE  (handOvers' = 0 => conn' # "pending") /\ Noticed'
  BY <1>2, <1>8 DEF SetFlags
<1>9. ASSUME NEW c, AddToGrid(c) \/ RemoveFromGrid(c)
      PROVE  (handOvers' = 0 => conn' # "pending") /\ Noticed'
  BY <1>2, <1>9 DEF AddToGrid, RemoveFromGrid
<1>10. ASSUME NEW s, NEW v, ScolHook(s, v)
       PROVE  (handOvers' = 0 => conn' # "pending") /\ Noticed'
  BY <1>2, <1>10 DEF ScolHook
<1>11. CASE FrameStart
  BY <1>2, <1>11 DEF FrameStart
<1> QED BY <1>3, <1>4, <1>7, <1>8, <1>9, <1>10, <1>11 DEF Next, Steps

(* Without a loss the client of the first connection has the table.          *)
LEMMA FirstPictureStep ==
  ASSUME CollTypes, FirstPicture, Next
  PROVE  FirstPicture'
<1> DEFINE a(c) == c \in client.colliders
           Exact(c) == Said(Queue, a(c), Adds(c), Removes(c)) <=> c \in s_colliders
<1>1. /\ stream \in Seq(Packets) /\ todo \in Seq(Packets) /\ Queue \in Seq(Packets)
      /\ client \in Clients /\ s_colliders \subseteq Colliders
      /\ handOvers \in Nat /\ full \in BOOLEAN
      /\ stream' \in Seq(Packets) /\ todo' \in Seq(Packets) /\ full' \in BOOLEAN
  BY CollTypesStep, QueueSteps DEF CollTypes, TypeOK, HoseOK, Clients
<1>2. (handOvers = 0 => conn # "pending") /\ Noticed
  BY DEF FirstPicture, Noticed
<1>3. (handOvers' = 0 => conn' # "pending") /\ Noticed'
  BY <1>2, NoticedStep
<1>4. SUFFICES ASSUME Unspoilt', NEW c \in Colliders PROVE Exact(c)'
  BY <1>3 DEF FirstPicture, Noticed, Unspoilt
<1>5. Unspoilt => Exact(c)
  BY DEF FirstPicture, Unspoilt
<1>6. ASSUME UNCHANGED <<Queue, s_colliders, client, conn, handOvers>>, full' = full
      PROVE  Exact(c)'
  <2>1. Unspoilt
    BY <1>4, <1>6 DEF Unspoilt
  <2> QED BY <1>5, <1>6, <2>1
<1>7. ASSUME Lose PROVE FALSE
  <2>1. lastOverrun' = TRUE
    BY <1>7 DEF Lose
  <2>2. Pos(stream', Overruns) # {}
    <3>1. conn' = "current" /\ handOvers' = 0 /\ ~client'.overrun
      BY <1>4 DEF Unspoilt
    <3>2. conn' = "current" /\ handOvers' = 0 /\ lastOverrun'
            => client'.overrun \/ Pos(stream', Overruns) # {}
      BY <1>3 DEF Noticed
    <3> QED BY <2>1, <3>1, <3>2
  <2>3. Pos(Queue', Overruns) # {}
    BY <1>1, <2>2, PosGrows DEF Queue
  <2> QED BY <1>4, <2>3 DEF Unspoilt
<1>8. CASE Deliver
  <2> DEFINE p == Head(stream)
             aa == a(c)'
             a0 == a(c)
  <2>1. stream # <<>> /\ p \in Packets /\ client' = Parse(client, p)
        /\ UNCHANGED <<s_colliders, conn, handOvers, full>>
    BY <1>1, <1>8, TailPositions DEF Deliver, tableVars, history
  <2>2. Queue # <<>> /\ Queue' = Tail(Queue) /\ Head(Queue) = p
    BY <1>8, QueueSteps
  <2>3. client'.overrun <=> client.overrun \/ p \in Overruns
    BY <1>1, <2>1, ParseEffect
  <2>4. aa <=> (a0 /\ p \notin Removes(c)) \/ p \in Adds(c)
    BY <1>1, <2>1, ParseEffect
  <2>5. \A x \in Packets : ~(x \in Adds(c) /\ x \in Removes(c))
    BY PacketKinds
  <2>6. Unspoilt
    <3>1. p \notin Overruns /\ Pos(Tail(Queue), Overruns) = {}
      BY <1>4, <2>2, <2>3 DEF Unspoilt
    <3>2. Pos(Queue, Overruns) = {}
      BY <1>1, <2>2, <3>1, PosTail
    <3> QED BY <1>4, <2>1, <2>3, <3>2 DEF Unspoilt
  <2>7. Said(Queue, a0, Adds(c), Removes(c)) <=> c \in s_colliders
    BY <1>5, <2>6
  <2> HIDE DEF p, aa, a0
  <2>8. Said(Tail(Queue), aa, Adds(c), Removes(c)) <=> Said(Queue, a0, Adds(c), Removes(c))
    BY <1>1, <2>2, <2>4, <2>5, SaidTail
  <2> QED BY <2>1, <2>2, <2>7, <2>8 DEF aa
<1>9. CASE Reconnect \/ HoseStep
  <2>1. ~(conn' = "current" /\ handOvers' = 0)
    BY <1>1, <1>2, <1>9 DEF Reconnect, Disconnect, HoseStep, DiscardPacket, HandOver, Adopt
  <2> QED BY <1>4, <2>1 DEF Unspoilt
<1>10. ASSUME NEW o, NEW f, SetFlags(o, f) PROVE Exact(c)'
  BY <1>6, <1>10 DEF SetFlags, Queue, hoseVars, tableVars
<1>11. ASSUME NEW p \in Packets, Queue' = Append(Queue, p), client' = client,
              UNCHANGED hoseVars, full => full'
       PROVE  /\ Said(Queue, a(c), Adds(c), Removes(c)) <=> c \in s_colliders
              /\ p \in Adds(c) => Said(Queue', a(c)', Adds(c), Removes(c))
              /\ p \in Removes(c) => ~Said(Queue', a(c)', Adds(c), Removes(c))
              /\ p \notin Adds(c) /\ p \notin Removes(c) =>
                   (Said(Queue', a(c)', Adds(c), Removes(c)) <=> c \in s_colliders)
  <2> DEFINE a0 == a(c)
  <2>0. Pos(Append(Queue, p), Overruns) = {}
    BY <1>4, <1>11 DEF Unspoilt
  <2>1. Pos(Queue, Overruns) = {}
    BY ONLY <1>1, <2>0, p \in Packets, PosGrows
  <2>2. Unspoilt
    BY <1>1, <1>4, <1>11, <2>1 DEF Unspoilt, hoseVars
  <2>3. a(c)' = a0
    BY <1>11
  <2>4. Said(Queue, a0, Adds(c), Removes(c)) <=> c \in s_colliders
    BY <1>5, <2>2
  <2> HIDE DEF a0
  <2>5. p \in Adds(c) => Said(Append(Queue, p), a0, Adds(c), Removes(c))
    BY <1>1, SaidByAppend
  <2>6. p \in Removes(c) => p \notin Adds(c)
    BY PacketKinds
  <2>7. p \in Removes(c) => ~Said(Append(Queue, p), a0, Adds(c), Removes(c))
    BY <1>1, <2>6, UnsaidByAppend
  <2>8. p \notin Adds(c) /\ p \notin Removes(c) =>
          (Said(Append(Queue, p), a0, Adds(c), Removes(c))
             <=> Said(Queue, a0, Adds(c), Removes(c)))
    BY <1>1, SaidAppend
  <2>9. Said(Queue, a(c), Adds(c), Removes(c)) <=> c \in s_colliders
    BY <2>4 DEF a0
  <2> QED BY <1>11, <2>3, <2>4, <2>5, <2>7, <2>8, <2>9
<1>12. ASSUME NEW d \in Colliders, AddToGrid(d) \/ RemoveFromGrid(d) PROVE Exact(c)'
  <2>1. UNCHANGED hoseVars /\ client' = client
    BY <1>12, HookSteps
  <2>2. CASE UNCHANGED <<Queue, s_colliders, full>>
    BY <1>6, <2>1, <2>2 DEF hoseVars
  <2>3. CASE /\ Queue = stream /\ Queue' = Append(stream, [tag |-> "normco+", ptr |-> d])
             /\ s_colliders' = s_colliders \cup {d}
                \/ (s_colliders' = s_colliders /\ (full' \/ d \in s_colliders))
             /\ full => full'
    <3> DEFINE p == [tag |-> "normco+", ptr |-> d]
    <3>1. p \in Packets /\ p \notin Removes(c) /\ (p \in Adds(c) <=> d = c)
      BY DEF Packets, ColliderTags, Removes, Adds
    <3>2. Queue' = Append(Queue, p) /\ (full => full')
      BY <2>3
    <3>3. c \in s_colliders' <=> c = d \/ c \in s_colliders
      BY <1>4, <2>3 DEF Unspoilt
    <3> HIDE DEF p
    <3>4. Said(Queue', a(c)', Adds(c), Removes(c)) <=> c = d \/ c \in s_colliders
      BY <1>11, <2>1, <3>1, <3>2
    <3> QED BY <3>3, <3>4
  <2>4. CASE /\ Queue = stream /\ Queue' = Append(stream, [tag |-> "normco-", ptr |-> d])
             /\ s_colliders' = s_colliders \ {d} /\ full' = full
    <3> DEFINE p == [tag |-> "normco-", ptr |-> d]
    <3>1. p \in Packets /\ p \notin Adds(c) /\ (p \in Removes(c) <=> d = c)
      BY DEF Packets, ColliderTags, Removes, Adds
    <3>2. Queue' = Append(Queue, p) /\ (full => full')
      BY <2>4
    <3>3. c \in s_colliders' <=> c # d /\ c \in s_colliders
      BY <2>4
    <3> HIDE DEF p
    <3>4. Said(Queue', a(c)', Adds(c), Removes(c)) <=> c # d /\ c \in s_colliders
      BY <1>11, <2>1, <3>1, <3>2
    <3> QED BY <3>3, <3>4
  <2> QED BY <1>12, <2>2, <2>3, <2>4, HookSteps
<1>13. ASSUME NEW s \in Scols, NEW v \in Values, ScolHook(s, v) PROVE Exact(c)'
  <2> DEFINE p == [tag |-> "scolcol", ptr |-> s, val |-> v]
  <2>1. p \in Packets /\ p \notin Adds(c) /\ p \notin Removes(c)
    BY DEF Packets, ScolTags, Adds, Removes
  <2>2. Queue' = Append(Queue, p) /\ client' = client /\ s_colliders' = s_colliders
        /\ UNCHANGED hoseVars /\ full' = full
    BY <1>13, HookSteps
  <2> HIDE DEF p
  <2> QED BY <1>11, <2>1, <2>2
<1>14. CASE FrameStart
  <2> DEFINE r == FullDump
             a0 == a(c)
  <2>1. Queue' = Queue \o r /\ client' = client /\ s_colliders' = s_colliders
        /\ UNCHANGED hoseVars /\ full' = full
    BY <1>14, HookSteps
  <2>2. /\ r \in Seq(Packets) /\ r[1] = [tag |-> "allcols"]
        /\ \A i \in 2..Len(r) : \E d \in s_colliders : r[i] = [tag |-> "normco*", ptr |-> d]
    BY <1>1, FullDumpPositions
  <2>3. Unspoilt
    <3>1. r \in Seq(Packets)
      BY <2>2
    <3>2. Pos(Queue \o r, Overruns) = {}
      BY <1>4, <2>1 DEF Unspoilt
    <3> HIDE DEF r
    <3>3. Pos(Queue, Overruns) = {}
      BY ONLY <1>1, <3>1, <3>2, PosGrows
    <3> QED BY <1>4, <2>1, <3>3 DEF Unspoilt, hoseVars
  <2>4. Said(Queue, a0, Adds(c), Removes(c)) <=> c \in s_colliders
    BY <1>5, <2>3
  <2>5. a(c)' = a0
    BY <2>1
  <2> HIDE DEF r, a0
  <2>6. Len(r) \in Nat
    BY <2>2
  <2>7. ASSUME NEW i \in 1..Len(r)
        PROVE  r[i] \notin Removes(c)
               /\ (r[i] \in Adds(c) => Said(Queue, a0, Adds(c), Removes(c)))
    <3>1. CASE i = 1
      BY <2>2, <3>1 DEF Removes, Adds
    <3>2. CASE i # 1
      <4>1. i \in 2..Len(r)
        BY <2>6, <3>2
      <4>2. PICK d \in s_colliders : r[i] = [tag |-> "normco*", ptr |-> d]
        BY <2>2, <4>1
      <4>3. r[i] \notin Removes(c) /\ (r[i] \in Adds(c) => d = c)
        BY <4>2 DEF Removes, Adds
      <4> QED BY <2>4, <4>2, <4>3
    <3> QED BY <3>1, <3>2
  <2>8. Said(Queue \o r, a0, Adds(c), Removes(c)) <=> Said(Queue, a0, Adds(c), Removes(c))
    BY <1>1, <2>2, <2>7, SaidConcat
  <2> QED BY <2>1, <2>4, <2>5, <2>8
<1>15. CASE WritePacket
  <2>1. Publish(Head(todo)) /\ todo # <<>> /\ todo' = Tail(todo) /\ client' = client
        /\ s_colliders' = s_colliders /\ full' = full
    BY <1>7, <1>15 DEF WritePacket, tableVars, history
  <2>2. Queue' = Queue /\ UNCHANGED <<conn, handOvers>>
    BY <2>1, QueueSteps DEF Publish
  <2> QED BY <1>6, <2>1, <2>2
<1>16. CASE ReviewDump
  <2> DEFINE p == Head(todo)
  <2>1. p \in Packets /\ p.tag = "scolcol" /\ todo = <<p>>
    BY <1>1, <1>16 DEF ReviewDump, CollTypes, Dumping
  <2>2. Queue = Append(stream, p) /\ client' = client /\ s_colliders' = s_colliders
        /\ full' = full
    BY <1>16, <2>1, QueueSteps DEF ReviewDump, history
  <2>3. CASE Publish(p) /\ todo' = <<>>
    <3>0. Tail(<<p>>) = <<>> /\ <<p>> # <<>>
      OBVIOUS
    <3>1. todo # <<>> /\ Publish(Head(todo)) /\ todo' = Tail(todo)
      BY <2>1, <2>3, <3>0
    <3>2. Queue' = Queue /\ UNCHANGED <<conn, handOvers>>
      BY <3>1, QueueSteps DEF Publish
    <3> QED BY <1>6, <2>2, <3>2
  <2>4. CASE UNCHANGED hoseVars /\ todo' = <<Reference(p)>>
    <3> DEFINE q == Reference(p)
               a0 == a(c)
    <3>1. q \in Packets /\ q.tag = "scolco~"
      BY <2>1, PacketFields DEF Reference, Packets, ScolTags, ColliderTags, Overrun
    <3>2. UNCHANGED <<stream, conn, handOvers>> /\ todo' = <<q>>
      BY <2>4 DEF hoseVars
    <3> HIDE DEF p, q
    <3>3. Queue' = Append(stream, q)
      BY <3>1, <3>2, QueueSteps
    <3>4. p \notin Overruns /\ p \notin Adds(c) /\ p \notin Removes(c)
          /\ q \notin Overruns /\ q \notin Adds(c) /\ q \notin Removes(c)
      BY <2>1, <3>1 DEF Overruns, Adds, Removes
    <3>5. Pos(Queue, Overruns) = {}
      <4>1. Pos(Append(stream, q), Overruns) = Pos(stream, Overruns)
            /\ Pos(Append(stream, p), Overruns) = Pos(stream, Overruns)
        BY <1>1, <2>1, <3>1, <3>4, PosGrows
      <4> QED BY <1>4, <2>2, <3>3, <4>1 DEF Unspoilt
    <3>6. Unspoilt
      BY <1>4, <2>2, <3>2, <3>5 DEF Unspoilt
    <3>7. a(c)' = a0 /\ (Said(Queue, a0, Adds(c), Removes(c)) <=> c \in s_colliders)
      BY <1>5, <2>2, <3>6
    <3> HIDE DEF a0
    <3>8. Said(Append(stream, q), a0, Adds(c), Removes(c)) <=> Said(stream, a0, Adds(c), Removes(c))
      BY <1>1, <3>1, <3>4, SaidAppend
    <3>9. Said(Append(stream, p), a0, Adds(c), Removes(c)) <=> Said(stream, a0, Adds(c), Removes(c))
      BY <1>1, <2>1, <3>4, SaidAppend
    <3> QED BY <2>2, <3>3, <3>7, <3>8, <3>9
  <2> QED BY <1>16, <2>3, <2>4 DEF ReviewDump
<1>17. CASE LoseDump
  BY <1>7, <1>17 DEF LoseDump
<1> QED
  BY <1>8, <1>9, <1>10, <1>12, <1>13, <1>14, <1>15, <1>16, <1>17 DEF Next, Steps

-----------------------------------------------------------------------------
(* References.  With nothing before it, a word is what the client has.       *)
LEMMA CoveredEmpty ==
  ASSUME NEW X, NEW q \in Seq(X), Len(q) = 0, NEW b, NEW a,
         NEW S, NEW O, NEW A, NEW R, Covered(q, b, a, S, O, A, R), 0 \in From(b, q, S)
  PROVE  0 \in From(a, q, A)
<1>1. Pos(q, O) = {}
  BY DEF Pos
<1>2. PICK k \in From(a, q, A) : TRUE
  BY <1>1 DEF Covered
<1> QED BY <1>2 DEF From

(* Whoever has been told a dump by q has been told it once the first packet  *)
(* of q is read (HoseParser.parse).                                          *)
LEMMA DumpRead ==
  ASSUME NEW cl \in Clients, NEW q \in Seq(Packets), q # <<>>, NEW s, NEW v,
         DumpIn(q, cl, s, v)
  PROVE  DumpIn(Tail(q), Parse(cl, Head(q)), s, v)
<1> DEFINE p == Head(q)
           bb == Parse(cl, p).synced
           aa == Has(Parse(cl, p), s, v)
           b0 == cl.synced
           a0 == Has(cl, s, v)
           A == Dumps(s, v)
           R == OtherDumps(s, v)
<1>1. p \in Packets
  BY TailPositions
<1>2. bb <=> (b0 /\ p \notin Overruns) \/ p \in Syncs
  BY <1>1, ParseEffect
<1>3. aa <=> (a0 /\ p \notin R) \/ p \in A
  BY <1>1, ParseEffect
<1>4. /\ \A x \in Packets : ~(x \in A /\ x \in R)
      /\ ~(p \in Syncs /\ p \in Overruns)
  BY <1>1, PacketKinds
<1>5. Covered(q, b0, a0, Syncs, Overruns, A, R)
  BY DEF DumpIn
<1>6. p = Head(q)
  OBVIOUS
<1> HIDE DEF p, bb, aa, b0, a0, A, R
<1>7. /\ bb => (b0 /\ Head(q) \notin Overruns) \/ (Head(q) \in Syncs /\ Head(q) \notin Overruns)
      /\ (a0 /\ Head(q) \notin R) \/ (Head(q) \in A /\ Head(q) \notin R) => aa
  BY <1>1, <1>2, <1>3, <1>4, <1>6
<1>8. Covered(Tail(q), bb, aa, Syncs, Overruns, A, R)
  BY <1>4, <1>5, <1>7, CoveredTail
<1> QED BY <1>8 DEF p, bb, aa, A, R, DumpIn

(* What the hose does to the packets published.                              *)
LEMMA StreamDrops ==
  ASSUME CollTypes, CollLosses, HoseStep
  PROVE  \/ stream' = stream
         \/ /\ ~client.synced
            /\ \E m \in 0..Len(stream) : stream' = SubSeq(stream, m + 1, Len(stream))
<1>1. stream \in Seq(Packets)
  BY DEF CollTypes
<1>2. CASE DiscardPacket
  BY <1>1, <1>2, TailDrops DEF DiscardPacket, CollLosses
<1>3. CASE Adopt
  BY <1>3 DEF Adopt, CollLosses
<1>4. CASE HandOver
  BY <1>4 DEF HandOver
<1> QED BY <1>2, <1>3, <1>4 DEF HoseStep

(* The words said by q are still said after the client lost its connection,  *)
(* or while it has none and the first packets of q are dropped.              *)
LEMMA DumpForget ==
  ASSUME NEW cl \in Clients, NEW q \in Seq(Packets), NEW s, NEW v, DumpIn(q, cl, s, v)
  PROVE  /\ DumpIn(q, [cl EXCEPT !.synced = FALSE], s, v)
         /\ \A m \in 0..Len(q) : ~cl.synced => DumpIn(SubSeq(q, m + 1, Len(q)), cl, s, v)
<1> DEFINE b0 == cl.synced
           a0 == Has(cl, s, v)
           A == Dumps(s, v)
           R == OtherDumps(s, v)
           c2 == [cl EXCEPT !.synced = FALSE]
           a1 == Has(c2, s, v)
<1>1. Covered(q, b0, a0, Syncs, Overruns, A, R)
  BY DEF DumpIn
<1>2. c2.synced = FALSE /\ a1 = a0
  BY DEF Clients, Has
<1>3. ~cl.synced => cl.synced = FALSE
  BY DEF Clients
<1>4. DumpIn(q, c2, s, v)
  <2> HIDE DEF b0, a0, a1, A, R
  <2>1. Covered(q, FALSE, a0, Syncs, Overruns, A, R)
    BY ONLY <1>1, CoveredForget
  <2> QED BY <1>2, <2>1 DEF a1, A, R, DumpIn
<1>5. ASSUME NEW m \in 0..Len(q), ~cl.synced PROVE DumpIn(SubSeq(q, m + 1, Len(q)), cl, s, v)
  <2> HIDE DEF b0, a0, A, R
  <2>1. Covered(SubSeq(q, m + 1, Len(q)), FALSE, a0, Syncs, Overruns, A, R)
    BY <1>1, CoveredDrop
  <2> QED BY <1>3, <1>5, <2>1 DEF a0, A, R, DumpIn
<1> QED BY <1>4, <1>5

(* A packet is published, or none can be trusted any more.                   *)
LEMMA DumpAppend ==
  ASSUME NEW cl \in Clients, NEW q \in Seq(Packets), NEW p \in Packets, NEW s, NEW v
  PROVE  /\ DumpIn(q, cl, s, v) /\ p \notin Syncs /\ p \notin OtherDumps(s, v)
              => DumpIn(Append(q, p), cl, s, v)
         /\ p \in Dumps(s, v) => DumpIn(Append(q, p), cl, s, v)
         /\ Spoilt(q, cl.synced, Syncs, Overruns) => DumpIn(q, cl, s, v)
<1> DEFINE b0 == cl.synced
           a0 == Has(cl, s, v)
           A == Dumps(s, v)
           R == OtherDumps(s, v)
<1> HIDE DEF b0, a0, A, R
<1>1. Covered(q, b0, a0, Syncs, Overruns, A, R) /\ p \notin Syncs /\ p \notin R
        => Covered(Append(q, p), b0, a0, Syncs, Overruns, A, R)
  BY CoveredAppend
<1>2. p \in A => Covered(Append(q, p), b0, a0, Syncs, Overruns, A, R)
  BY CoveredByAppend
<1>3. Spoilt(q, b0, Syncs, Overruns) => Covered(q, b0, a0, Syncs, Overruns, A, R)
  BY SpoiltCovers
<1> QED BY <1>1, <1>2, <1>3 DEF DumpIn, b0, a0, A, R

(* The packets before a reference, when the queue changes.                   *)
LEMMA ReferencesRead ==
  ASSUME NEW cl \in Clients, NEW q \in Seq(Packets), q # <<>>, References(q, cl), ~cl.wrong
  PROVE  References(Tail(q), Parse(cl, Head(q))) /\ ~Parse(cl, Head(q)).wrong
<1> DEFINE r == Tail(q)
           n == Len(q) - 1
           p == Head(q)
           c2 == Parse(cl, p)
<1>1. n \in Nat /\ Len(q) = n + 1 /\ Len(r) = n /\ q[1] = p /\ q[1] \in Packets
      /\ \A i \in 1..n : r[i] = q[i + 1]
  BY TailPositions
<1>2. ASSUME NEW i \in 1..n, r[i].tag = "scolco~"
      PROVE  DumpIn(Before(r, i), c2, r[i].ptr, r[i].val)
  <2> DEFINE b == Before(q, i + 1)
  <2>1. i + 1 \in 1..Len(q) /\ r[i] = q[i + 1]
    BY <1>1
  <2>2. b \in Seq(Packets)
    BY <2>1, BeforePositions
  <2>3. b # <<>> /\ Head(b) = p /\ Before(r, i) = Tail(b)
    BY BeforeTail
  <2>4. DumpIn(b, cl, r[i].ptr, r[i].val)
    BY <1>2, <2>1 DEF References
  <2> HIDE DEF b, r, p
  <2>5. DumpIn(Tail(b), Parse(cl, Head(b)), r[i].ptr, r[i].val)
    BY <2>2, <2>3, <2>4, DumpRead
  <2> QED BY <2>3, <2>5
<1>3. p.tag = "scolco~" /\ cl.synced => Has(cl, p.ptr, p.val)
  <2> SUFFICES ASSUME p.tag = "scolco~", cl.synced PROVE Has(cl, p.ptr, p.val)
    OBVIOUS
  <2> DEFINE b == Before(q, 1)
  <2>1. 1 \in 1..Len(q)
    BY <1>1
  <2>2. b \in Seq(Packets) /\ Len(b) = 0
    BY <2>1, BeforePositions
  <2>3. DumpIn(b, cl, p.ptr, p.val)
    BY <1>1, <2>1 DEF References
  <2> DEFINE a0 == Has(cl, p.ptr, p.val)
             A == Dumps(p.ptr, p.val)
             R == OtherDumps(p.ptr, p.val)
             b0 == cl.synced
  <2>4. Covered(b, b0, a0, Syncs, Overruns, A, R) /\ b0
    BY <2>3 DEF DumpIn
  <2>5. 0 \in From(b0, b, Syncs)
    BY <2>2, <2>4 DEF From
  <2> HIDE DEF b, p, b0, a0, A, R
  <2>6. 0 \in From(a0, b, A)
    BY <2>2, <2>4, <2>5, CoveredEmpty
  <2> QED BY <2>6 DEF a0, From
<1>4. c2.wrong <=> cl.wrong \/ (p.tag = "scolco~" /\ cl.synced /\ ~Has(cl, p.ptr, p.val))
  BY <1>1, ParseEffect
<1> HIDE DEF c2
<1>5. ~c2.wrong
  BY <1>3, <1>4
<1> QED BY <1>1, <1>2, <1>5 DEF References, c2

LEMMA ReferencesForget ==
  ASSUME NEW cl \in Clients, NEW q \in Seq(Packets), References(q, cl)
  PROVE  /\ References(q, [cl EXCEPT !.synced = FALSE])
         /\ \A m \in 0..Len(q) : ~cl.synced => References(SubSeq(q, m + 1, Len(q)), cl)
<1> DEFINE c2 == [cl EXCEPT !.synced = FALSE]
<1>1. ASSUME NEW i \in 1..Len(q), q[i].tag = "scolco~"
      PROVE  DumpIn(Before(q, i), c2, q[i].ptr, q[i].val)
  <2> DEFINE b == Before(q, i)
  <2>1. b \in Seq(Packets) /\ DumpIn(b, cl, q[i].ptr, q[i].val)
    BY <1>1, BeforePositions DEF References
  <2> HIDE DEF b
  <2> QED BY <2>1, DumpForget DEF b
<1>2. ASSUME NEW m \in 0..Len(q), ~cl.synced PROVE References(SubSeq(q, m + 1, Len(q)), cl)
  <2> DEFINE r == SubSeq(q, m + 1, Len(q))
             n == Len(q) - m
  <2>1. n \in Nat /\ m \in Nat /\ Len(q) = m + n /\ Len(r) = n
        /\ \A i \in 1..n : r[i] = q[m + i]
    BY DropPositions
  <2>2. ASSUME NEW i \in 1..n, r[i].tag = "scolco~"
        PROVE  DumpIn(Before(r, i), cl, r[i].ptr, r[i].val)
    <3> DEFINE b == Before(q, m + i)
    <3>1. m + i \in 1..Len(q) /\ r[i] = q[m + i]
      <4> HIDE DEF r, n
      <4> QED BY <2>1
    <3>2. b \in Seq(Packets)
      BY <3>1, BeforePositions
    <3>3. Before(r, i) = SubSeq(b, m + 1, Len(b)) /\ m \in 0..Len(b)
      BY BeforeDrop
    <3>4. DumpIn(b, cl, r[i].ptr, r[i].val)
      BY <2>2, <3>1 DEF References
    <3> HIDE DEF b, r
    <3> QED BY <1>2, <3>2, <3>3, <3>4, DumpForget
  <2> HIDE DEF r
  <2> QED BY <2>1, <2>2 DEF References, r
<1> QED BY <1>1, <1>2 DEF References

LEMMA ReferencesAppend ==
  ASSUME NEW cl \in Clients, NEW q \in Seq(Packets), References(q, cl), NEW p \in Packets,
         p.tag = "scolco~" => DumpIn(q, cl, p.ptr, p.val)
  PROVE  References(Append(q, p), cl)
<1> DEFINE r == Append(q, p)
           n == Len(q)
<1>1. n \in Nat /\ Len(r) = n + 1 /\ r[n + 1] = p /\ \A i \in 1..n : r[i] = q[i]
  BY AppendPositions
<1>2. (\A i \in 1..n : Before(r, i) = Before(q, i)) /\ Before(r, n + 1) = q
  BY BeforeAppend
<1> HIDE DEF r
<1> SUFFICES ASSUME NEW i \in 1..(n + 1), r[i].tag = "scolco~"
             PROVE  DumpIn(Before(r, i), cl, r[i].ptr, r[i].val)
  BY <1>1 DEF References, r
<1>3. CASE i = n + 1
  BY <1>1, <1>2, <1>3
<1>4. CASE i # n + 1
  <2>1. i \in 1..n
    BY <1>1, <1>4
  <2> QED BY <1>1, <1>2, <2>1 DEF References
<1> QED BY <1>3, <1>4

(* What is left to be written after its first packet.                        *)
LEMMA RestPlain ==
  ASSUME NEW r, Writable(r), r # <<>>
  PROVE  Tail(r) # <<>> => Tail(r)[1].tag \notin {"allcols", "scolcol", "scolco~"}
<1> DEFINE t == Tail(r)
           n == Len(r) - 1
<1>1. t \in Seq(Packets) /\ Len(t) = n /\ n \in Nat /\ \A i \in 1..n : t[i] = r[i + 1]
  BY TailPositions DEF Writable
<1>2. Len(r) = n + 1
  BY <1>1 DEF Writable
<1> HIDE DEF t, n
<1> SUFFICES ASSUME t # <<>> PROVE t[1].tag \notin {"allcols", "scolcol", "scolco~"}
  BY DEF t
<1>3. 1 \in 1..n /\ 1 + 1 \in 1..Len(r) /\ 1 + 1 # 1
  BY <1>1, <1>2
<1>4. r[1 + 1].tag \notin {"allcols", "scolcol", "scolco~"}
  BY <1>3 DEF Writable
<1> QED BY <1>1, <1>3, <1>4

(* The dumps the client has been told of stay told.                          *)
LEMMA DumpsToldStep ==
  ASSUME CollTypes, CollLosses, DumpsTold, Next
  PROVE  DumpsTold'
<1>1. /\ stream \in Seq(Packets) /\ todo \in Seq(Packets) /\ client \in Clients
      /\ s_hashed_scols \in Contents(Scols) /\ Writable(todo)
  BY DEF CollTypes, TypeOK, Clients, Writable, Dumping
<1>2. DOMAIN s_hashed_scols \subseteq Scols
  BY <1>1, ContentsHashes
<1>3. /\ todo # <<>> /\ todo[1].tag = "allcols" => DOMAIN s_hashed_scols = {}
      /\ \A s \in DOMAIN s_hashed_scols :
           \/ Dumping /\ todo[1].ptr = s /\ oldHash = NoHash
           \/ DumpIn(stream, client, s, s_hashed_scols[s])
      /\ Dumping /\ oldHash # NoHash => DumpIn(stream, client, todo[1].ptr, oldHash)
      /\ todo # <<>> /\ todo[1].tag = "scolco~" =>
           DumpIn(stream, client, todo[1].ptr, todo[1].val)
      /\ References(stream, client) /\ ~client.wrong
  BY DEF DumpsTold, HasDump
<1>4. ASSUME UNCHANGED <<todo, s_hashed_scols, oldHash>>,
             \A s, v : DumpIn(stream, client, s, v) => DumpIn(stream', client', s, v),
             References(stream', client'), ~client'.wrong
      PROVE  DumpsTold'
  BY <1>3, <1>4 DEF DumpsTold, Dumping, HasDump
<1>5. ASSUME UNCHANGED <<stream, client>>, todo = <<>>,
             todo' = <<>> \/ todo'[1].tag \in {"normco+", "normco-"},
             UNCHANGED s_hashed_scols
      PROVE  DumpsTold'
  BY <1>3, <1>5 DEF DumpsTold, Dumping, HasDump
<1>6. CASE Deliver
  <2>1. stream # <<>> /\ stream' = Tail(stream) /\ client' = Parse(client, Head(stream))
        /\ UNCHANGED <<todo, s_hashed_scols, oldHash>>
    BY <1>6 DEF Deliver, tableVars
  <2>2. \A s, v : DumpIn(stream, client, s, v) => DumpIn(stream', client', s, v)
    BY <1>1, <2>1, DumpRead
  <2>3. References(stream', client') /\ ~client'.wrong
    BY <1>1, <1>3, <2>1, ReferencesRead
  <2> QED BY <1>4, <2>1, <2>2, <2>3
<1>7. CASE Reconnect
  <2>1. stream' = stream /\ client' = [client EXCEPT !.synced = FALSE]
        /\ UNCHANGED <<todo, s_hashed_scols, oldHash>>
    BY <1>7 DEF Reconnect, Disconnect, tableVars
  <2>2. \A s, v : DumpIn(stream, client, s, v) => DumpIn(stream', client', s, v)
    BY <1>1, <2>1, DumpForget
  <2>3. References(stream', client')
    BY <1>1, <1>3, <2>1, ReferencesForget
  <2>4. ~client'.wrong
    BY <1>1, <1>3, <2>1 DEF Clients
  <2> QED BY <1>4, <2>1, <2>2, <2>3, <2>4
<1>8. CASE HoseStep
  <2>1. client' = client /\ UNCHANGED <<todo, s_hashed_scols, oldHash>>
    BY <1>8 DEF HoseStep, tableVars
  <2>2. CASE stream' = stream
    BY <1>3, <1>4, <2>1, <2>2
  <2>3. ASSUME NEW m \in 0..Len(stream), ~client.synced,
               stream' = SubSeq(stream, m + 1, Len(stream))
        PROVE  DumpsTold'
    <3>1. \A s, v : DumpIn(stream, client, s, v) => DumpIn(stream', client', s, v)
      BY <1>1, <2>1, <2>3, DumpForget
    <3>2. References(stream', client')
      BY <1>1, <1>3, <2>1, <2>3, ReferencesForget
    <3> QED BY <1>3, <1>4, <2>1, <3>1, <3>2
  <2> QED BY <1>8, <2>2, <2>3, StreamDrops
<1>9. ASSUME NEW o, NEW f, SetFlags(o, f) PROVE DumpsTold'
  BY <1>3, <1>4, <1>9 DEF SetFlags, hoseVars, tableVars
<1>10. ASSUME NEW c, AddToGrid(c) \/ RemoveFromGrid(c) PROVE DumpsTold'
  <2>1. UNCHANGED <<stream, client, s_hashed_scols>> /\ todo = <<>>
    BY <1>10 DEF AddToGrid, RemoveFromGrid, hoseVars
  <2>2. \/ todo' = <<>> \/ todo' = <<[tag |-> "normco+", ptr |-> c]>>
        \/ todo' = <<[tag |-> "normco-", ptr |-> c]>>
    BY <1>10 DEF AddToGrid, RemoveFromGrid
  <2>3. todo' = <<>> \/ todo'[1].tag \in {"normco+", "normco-"}
    BY <2>2
  <2> QED BY <1>5, <2>1, <2>3
<1>11. ASSUME NEW s \in Scols, NEW v \in Values, ScolHook(s, v) PROVE DumpsTold'
  <2> DEFINE p == [tag |-> "scolcol", ptr |-> s, val |-> v]
  <2>1. todo = <<>> /\ todo' = <<p>> /\ stream' = stream /\ client' = client
    BY <1>11 DEF ScolHook, hoseVars
  <2>2. ~Dumping /\ Dumping' /\ todo'[1] = p /\ p.tag = "scolcol" /\ p.ptr = s
    BY <2>1 DEF Dumping
  <2> HIDE DEF p
  <2>3. \A t \in DOMAIN s_hashed_scols : DumpIn(stream, client, t, s_hashed_scols[t])
    BY <1>3, <2>2
  <2>4. CASE s \in DOMAIN s_hashed_scols
    <3>1. oldHash' = s_hashed_scols[s] /\ s_hashed_scols' = s_hashed_scols
      BY <1>11, <2>4 DEF ScolHook
    <3>2. DumpIn(stream', client', todo'[1].ptr, oldHash')
      BY <2>1, <2>2, <2>3, <2>4, <3>1
    <3> QED BY <1>3, <2>1, <2>2, <2>3, <3>1, <3>2 DEF DumpsTold, HasDump
  <2>5. CASE s \notin DOMAIN s_hashed_scols
    <3>1. oldHash' = NoHash
          /\ (s_hashed_scols' = s_hashed_scols
              \/ \E h \in {NoHash, slotHash[s]} : s_hashed_scols' = With(s_hashed_scols, s, h))
      BY <1>11, <2>5 DEF ScolHook
    <3>2. /\ DOMAIN s_hashed_scols' \subseteq DOMAIN s_hashed_scols \cup {s}
          /\ \A t \in DOMAIN s_hashed_scols : s_hashed_scols'[t] = s_hashed_scols[t]
      BY <2>5, <3>1 DEF With
    <3>3. \A t \in DOMAIN s_hashed_scols' :
            t = s \/ DumpIn(stream', client', t, s_hashed_scols'[t])
      BY <2>1, <2>3, <3>2
    <3> QED BY <1>3, <2>1, <2>2, <3>1, <3>3 DEF DumpsTold, HasDump
  <2> QED BY <2>4, <2>5
<1>12. CASE FrameStart
  <2> DEFINE r == FullDump
  <2>1. todo' = r /\ stream' = stream /\ client' = client /\ DOMAIN s_hashed_scols' = {}
    BY <1>12 DEF FrameStart, FullDump, hoseVars
  <2>2. r[1] = [tag |-> "allcols"]
    BY <1>1, FullDumpPositions DEF CollTypes, TypeOK
  <2> HIDE DEF r
  <2>3. ~Dumping' /\ todo'[1].tag = "allcols"
    BY <2>1, <2>2 DEF Dumping
  <2> QED BY <1>3, <2>1, <2>3 DEF DumpsTold, HasDump
<1>13. ASSUME WritePacket \/ LoseDump, Lose PROVE DumpsTold'
  <2>1. Spoilt(stream', client.synced, Syncs, Overruns) /\ client' = client
    BY <1>13, LossSpoilsQueue
  <2>2. stream' \in Seq(Packets) /\ Overrun \in Packets
    BY CollTypesStep, PacketKinds DEF CollTypes
  <2>3. \A s, v : DumpIn(stream', client', s, v)
    BY <1>1, <2>1, <2>2, DumpAppend
  <2>4. References(stream', client')
    <3>1. stream' = stream \/ stream' = Append(stream, Overrun)
      BY <1>13 DEF Lose
    <3>2. Overrun.tag # "scolco~"
      BY DEF Overrun
    <3> QED BY <1>1, <1>3, <2>1, <2>2, <3>1, <3>2, ReferencesAppend
  <2>5. todo' # <<>> => todo'[1].tag # "allcols" /\ ~Dumping'
    <3>1. CASE WritePacket
      <4>1. todo # <<>> /\ todo' = Tail(todo)
        BY <3>1 DEF WritePacket
      <4> QED BY <1>1, <4>1, RestPlain DEF Dumping
    <3>2. CASE LoseDump
      <4>1. todo # <<>> /\ Head(todo) \in Packets /\ Head(todo).tag = "scolcol"
        BY <1>1, <3>2, TailPositions DEF LoseDump
      <4>2. Reference(Head(todo)).tag = "scolco~"
        BY <4>1 DEF Reference, Packets, ColliderTags, ScolTags, Overrun
      <4>3. todo' = <<>> \/ todo' = <<Reference(Head(todo))>>
        BY <3>2 DEF LoseDump
      <4> QED BY <4>2, <4>3 DEF Dumping
    <3> QED BY <1>13, <3>1, <3>2
  <2> QED BY <1>3, <2>1, <2>3, <2>4, <2>5 DEF DumpsTold, HasDump, Dumping
<1>14. CASE WritePacket /\ ~Lose
  <2> DEFINE p == Head(todo)
  <2>1. todo # <<>> /\ todo' = Tail(todo) /\ Publish(p) /\ p.tag # "scolcol"
        /\ client' = client /\ s_hashed_scols' = s_hashed_scols
    BY <1>14 DEF WritePacket, tableVars
  <2>2. stream' = Append(stream, p) /\ p \in Packets /\ todo[1] = p
    BY <1>1, <2>1, TailPositions DEF Publish
  <2> HIDE DEF p
  <2>3. ~Dumping /\ (todo' # <<>> => todo'[1].tag \notin {"allcols", "scolcol", "scolco~"})
    BY <1>1, <2>1, <2>2, RestPlain DEF Dumping
  <2>4. ASSUME NEW s \in DOMAIN s_hashed_scols
        PROVE  DumpIn(stream', client', s, s_hashed_scols'[s])
    <3>1. DumpIn(stream, client, s, s_hashed_scols[s])
      BY <1>3, <2>3
    <3>2. p \notin Syncs /\ p \notin OtherDumps(s, s_hashed_scols[s])
      BY <1>3, <2>1, <2>2 DEF Syncs, OtherDumps
    <3> QED BY <1>1, <2>1, <2>2, <3>1, <3>2, DumpAppend
  <2>5. References(stream', client')
    BY <1>1, <1>3, <2>1, <2>2, ReferencesAppend
  <2> QED BY <1>3, <2>1, <2>3, <2>4, <2>5 DEF DumpsTold, HasDump, Dumping
<1>15. CASE ReviewDump
  <2> DEFINE p == Head(todo)
             q == Reference(p)
  <2>1. todo # <<>> /\ p.tag = "scolcol" /\ p \in Packets /\ todo[1] = p /\ client' = client
    BY <1>1, <1>15, TailPositions DEF ReviewDump
  <2>2. Dumping /\ p.ptr \in Scols /\ p.val \in Values /\ p.val # NoHash
    BY <2>1, PacketFields, CollReportAssumption DEF Dumping, ScolTags
  <2>3. q \in Packets /\ q.tag = "scolco~" /\ q.ptr = p.ptr /\ q.val = p.val
    BY <2>1, PacketFields DEF Reference, Packets, ScolTags, ColliderTags, Overrun
  <2>4. /\ p.ptr \in DOMAIN s_hashed_scols =>
              s_hashed_scols' = [s_hashed_scols EXCEPT ![p.ptr] = p.val]
        /\ p.ptr \notin DOMAIN s_hashed_scols => s_hashed_scols' = s_hashed_scols
        /\ \/ oldHash # p.val /\ Publish(p) /\ todo' = <<>>
           \/ oldHash = p.val /\ stream' = stream /\ todo' = <<q>>
    BY <1>15 DEF ReviewDump, hoseVars
  <2> HIDE DEF p, q
  <2>5. /\ DOMAIN s_hashed_scols' = DOMAIN s_hashed_scols
        /\ \A t \in DOMAIN s_hashed_scols :
             s_hashed_scols'[t] = IF t = p.ptr THEN p.val ELSE s_hashed_scols[t]
    BY <2>4
  <2>6. \A t \in DOMAIN s_hashed_scols : t # p.ptr => DumpIn(stream, client, t, s_hashed_scols[t])
    BY <1>3, <2>1
  <2>7. CASE Publish(p) /\ todo' = <<>>
    <3>1. stream' = Append(stream, p)
      BY <2>7 DEF Publish
    <3>2. DumpIn(stream', client', p.ptr, p.val)
      BY <1>1, <2>1, <3>1, DumpAppend DEF Dumps
    <3>3. ASSUME NEW t \in DOMAIN s_hashed_scols, t # p.ptr
          PROVE  DumpIn(stream', client', t, s_hashed_scols[t])
      <4>1. p \notin Syncs /\ p \notin OtherDumps(t, s_hashed_scols[t])
        BY <2>1, <3>3 DEF Syncs, OtherDumps
      <4> QED BY <1>1, <2>1, <2>6, <3>1, <3>3, <4>1, DumpAppend
    <3>4. References(stream', client')
      BY <1>1, <1>3, <2>1, <3>1, ReferencesAppend
    <3> QED BY <1>3, <2>1, <2>5, <2>7, <3>2, <3>3, <3>4 DEF DumpsTold, HasDump, Dumping
  <2>8. CASE oldHash = p.val /\ stream' = stream /\ todo' = <<q>>
    <3>1. DumpIn(stream, client, p.ptr, p.val)
      BY <1>3, <2>1, <2>2, <2>8
    <3>2. todo'[1] = q /\ ~Dumping'
      BY <2>3, <2>8 DEF Dumping
    <3> QED BY <1>3, <2>1, <2>3, <2>5, <2>6, <2>8, <3>1, <3>2 DEF DumpsTold, HasDump
  <2> QED BY <2>4, <2>7, <2>8
<1> QED
  <2>1. CASE WritePacket \/ LoseDump
    BY <1>13, <1>14, <2>1 DEF LoseDump
  <2> QED BY <1>6, <1>7, <1>8, <1>9, <1>10, <1>11, <1>12, <1>15, <2>1 DEF Next, Steps

-----------------------------------------------------------------------------
(* The invariant of the collision reporter: types and tables, losses, and    *)
(* that colliders and dumps alike are told in the queue, or behind the mark  *)
(* of a loss.                                                                *)
LEMMA CollInvInit == Init => CollInv
<1> SUFFICES ASSUME Init PROVE CollInv
  OBVIOUS
<1>1. /\ stream = <<>> /\ todo = <<>> /\ s_colliders = {} /\ lastOverrun = FALSE
      /\ conn \in {"closed", "current"} /\ handOvers = 0 /\ client = NewClient
      /\ live \in SUBSET Colliders /\ slotHash = [s \in Scols |-> NoHash]
      /\ oldHash = NoHash /\ s_hashed_scols = [s \in {} |-> NoHash]
      /\ on = FALSE /\ all = FALSE /\ offAgain = FALSE /\ full = FALSE
  BY DEF Init, InitHose
<1>2. Room \in Nat /\ MaxHandOvers \in Nat
  BY LossyHoseAssumption DEF LossyHoseAssumption
<1>3. /\ stream \in Seq(Packets) /\ todo \in Seq(Packets) /\ Len(stream) = 0 /\ Len(todo) = 0
      /\ Queue = <<>> /\ Queue \in Seq(Packets) /\ Len(Queue) = 0
  BY <1>1 DEF Queue
<1>4. s_hashed_scols \in Contents(Scols) /\ DOMAIN s_hashed_scols = {}
  BY <1>1, ContentsEmpty
<1>5. HoseOK
  <2>1. Len(stream) <= Room /\ handOvers \in 0..MaxHandOvers
    BY <1>1, <1>2
  <2>2. lastOverrun \in BOOLEAN
    BY <1>1
  <2> QED BY <1>1, <2>1, <2>2 DEF HoseOK
<1>6. client \in Clients /\ client.colliders = {} /\ ~client.synced /\ ~client.wrong
  <2>1. [s \in {} |-> NoHash] \in Contents(Scols)
    BY ContentsEmpty
  <2> QED BY <1>1, <2>1 DEF NewClient, Clients
<1>7. CollTypes
  <2>1. DOMAIN Queue = {}
    BY <1>3
  <2>2. slotHash \in [Scols -> Values \cup {NoHash}] /\ oldHash \in Values \cup {NoHash}
    BY <1>1
  <2>3. on \in BOOLEAN /\ all \in BOOLEAN /\ offAgain \in BOOLEAN /\ full \in BOOLEAN
    BY <1>1
  <2>4. TypeOK
    BY <1>1, <1>4, <1>5, <1>6, <2>1, <2>2, <2>3 DEF TypeOK, Clients
  <2> QED BY <1>1, <1>3, <2>4 DEF CollTypes, Dumping
<1>8. CollTables
  <2>1. Cardinality({}) = 0
    BY FS_EmptySet
  <2> QED BY <1>1, <1>4, <2>1, CollReportAssumption DEF CollTables
<1>9. CollLosses
  BY <1>1, <1>6 DEF CollLosses
<1>10. CollidersTold
  BY <1>1 DEF CollidersTold
<1>11. FirstPicture
  <2>1. ASSUME NEW c \in Colliders
        PROVE  ~Said(Queue, c \in client.colliders, Adds(c), Removes(c))
    <3>1. From(c \in client.colliders, Queue, Adds(c)) = {}
      BY <1>3, <1>6 DEF From
    <3> QED BY <3>1 DEF Said, LastWord
  <2> QED BY <1>1, <2>1 DEF FirstPicture
<1>12. DumpsTold
  BY <1>1, <1>3, <1>4, <1>6 DEF DumpsTold, References, Dumping
<1> QED BY <1>7, <1>8, <1>9, <1>10, <1>11, <1>12 DEF CollInv

LEMMA CollInvStep == CollInv /\ [Next]_vars => CollInv'
<1>1. CollInv /\ Next => CollInv'
  BY CollTypesStep, CollTablesStep, CollLossesStep, CollidersToldStep,
     FirstPictureStep, DumpsToldStep DEF CollInv
<1>2. CollInv /\ UNCHANGED vars => CollInv'
  <2> SUFFICES ASSUME CollInv, UNCHANGED vars PROVE CollInv'
    OBVIOUS
  <2>1. UNCHANGED <<stream, lastOverrun, conn, handOvers, live, s_colliders,
                    s_hashed_scols, slotHash, oldHash, todo, on, all, offAgain, full, client>>
    BY DEF vars, hoseVars, tableVars, history
  <2>2. Queue' = Queue /\ (Dumping' <=> Dumping)
    BY <2>1 DEF Queue, Dumping
  <2>3. CollTypes' /\ CollTables' /\ CollLosses'
    BY <2>1, <2>2 DEF CollInv, CollTypes, TypeOK, HoseOK, CollTables, CollLosses
  <2>4. CollidersTold' /\ FirstPicture'
    BY <2>1, <2>2 DEF CollInv, CollidersTold, FirstPicture
  <2>5. DumpsTold'
    BY <2>1, <2>2 DEF CollInv, DumpsTold, HasDump
  <2> QED BY <2>3, <2>4, <2>5 DEF CollInv
<1> QED BY <1>1, <1>2

LEMMA CollInvAlways == Spec => []CollInv
  BY CollInvInit, CollInvStep, PTL DEF Spec

(* The tables of the collision reporter (main.cpp:455-579) never exceed      *)
(* their slots, and hold no collider that is gone unless SEND_COLL_STUFF was *)
(* switched off again.                                                       *)
THEOREM ReporterTables == Spec => []TablesSound
<1>1. CollInv => TablesSound
  BY DEF CollInv, CollTypes, CollTables, TablesSound
<1> QED BY <1>1, CollInvAlways, PTL

(* The properties' positions are those of the proofs.                        *)
LEMMA Positions ==
  ASSUME CollTypes, NEW b
  PROVE  /\ Told(b) \cup Sent({"allcols"}) = From(b, Queue, Syncs)
         /\ Sent({"overrun"}) = Pos(Queue, Overruns)
         /\ \A c : /\ Told(b) \cup SentOf(c, {"normco+", "normco*"}) = From(b, Queue, Adds(c))
                   /\ SentOf(c, {"normco-"}) = Pos(Queue, Removes(c))
<1>1. Queue \in Seq(Packets)
  BY QueueSteps
<1> DEFINE q == Queue
           n == Len(q)
<1>2. n \in Nat /\ DOMAIN q = 1..n /\ \A i \in 1..n : q[i] \in Packets
  BY <1>1
<1> HIDE DEF q, n
<1>4. ASSUME NEW S
      PROVE  Told(b) \cup Pos(q, S) = From(b, q, S)
  BY <1>2 DEF Told, Pos, From, n
<1>5. Sent({"allcols"}) = Pos(q, Syncs) /\ Sent({"overrun"}) = Pos(q, Overruns)
  BY <1>2 DEF Sent, Pos, Syncs, Overruns, q, n
<1>6. ASSUME NEW c
      PROVE  /\ SentOf(c, {"normco+", "normco*"}) = Pos(q, Adds(c))
             /\ SentOf(c, {"normco-"}) = Pos(q, Removes(c))
  BY <1>2 DEF Sent, SentOf, Pos, Adds, Removes, q, n
<1> QED BY <1>4, <1>5, <1>6 DEF q

(* Once a full dump has come on a connection, and no overrun since, the      *)
(* client knows every collider the reporter has in its table, whatever was   *)
(* lost before or on earlier connections (main.cpp:657, client.html:1762).   *)
THEOREM ReporterNothingMissing == Spec => []NothingMissing
<1>1. CollInv => NothingMissing
  <2> SUFFICES ASSUME CollInv, WillBeSynced, NEW c \in s_colliders PROVE WillKnow(c)
    BY DEF NothingMissing
  <2> DEFINE b0 == client.synced
             a0 == c \in client.colliders
  <2>1. CollTypes /\ Covered(Queue, b0, a0, Syncs, Overruns, Adds(c), Removes(c))
    BY DEF CollInv, CollidersTold
  <2>2. LastWord(Told(b0) \cup Sent({"allcols"}), Sent({"overrun"}))
    BY DEF WillBeSynced
  <2> HIDE DEF b0, a0
  <2>3. Said(Queue, b0, Syncs, Overruns)
    BY <2>1, <2>2, Positions DEF Said
  <2>4. Said(Queue, a0, Adds(c), Removes(c))
    BY <2>1, <2>3, CoveredIsSaid
  <2>5. LastWord(Told(a0) \cup SentOf(c, {"normco+", "normco*"}), SentOf(c, {"normco-"}))
    BY <2>1, <2>4, Positions DEF Said
  <2> QED BY <2>5 DEF WillKnow, a0
<1> QED BY <1>1, CollInvAlways, PTL

(* A client that was there from the start and saw no overrun has exactly the *)
(* colliders of the table, however the flags were switched, while the table  *)
(* has room for all (main.cpp:548-579).                                      *)
THEOREM ReporterPictureExact == Spec => []PictureExact
<1>1. CollInv => PictureExact
  <2> SUFFICES ASSUME CollInv, conn = "current", handOvers = 0, ~full, ~client.overrun,
                      Sent({"overrun"}) = {}, NEW c \in Colliders
               PROVE  WillKnow(c) <=> c \in s_colliders
    BY DEF PictureExact
  <2> DEFINE a0 == c \in client.colliders
  <2>1. CollTypes
    BY DEF CollInv
  <2>2. Pos(Queue, Overruns) = {}
    BY <2>1, Positions
  <2>3. Said(Queue, a0, Adds(c), Removes(c)) <=> c \in s_colliders
    BY <2>2 DEF CollInv, FirstPicture
  <2>4. WillKnow(c) <=>
          LastWord(Told(a0) \cup SentOf(c, {"normco+", "normco*"}), SentOf(c, {"normco-"}))
    BY DEF WillKnow
  <2> HIDE DEF a0
  <2>5. Told(a0) \cup SentOf(c, {"normco+", "normco*"}) = From(a0, Queue, Adds(c))
        /\ SentOf(c, {"normco-"}) = Pos(Queue, Removes(c))
    BY <2>1, Positions
  <2> QED BY <2>3, <2>4, <2>5 DEF Said
<1> QED BY <1>1, CollInvAlways, PTL

(* After a full dump and until the next overrun a reference is to a dump the *)
(* client has, with the contents the scol had when the reference was written *)
(* (write_cached_dump, main.cpp:511-546), however packets are lost, however  *)
(* connections change and whatever hash a new entry was left with.           *)
THEOREM ReporterReferencesExact == Spec => []ReferencesExact
<1>1. CollInv => ReferencesExact
  BY DEF CollInv, DumpsTold, ReferencesExact
<1> QED BY <1>1, CollInvAlways, PTL

-----------------------------------------------------------------------------
(* HitboxReport.  The packets that make the client forget its hitboxes as    *)
(* world 0 begins, spoil what it knows, and report a hitbox.                 *)
FrameBegins == {p \in HitboxPackets : p.tag = "do_many" /\ p.world = 0}
BoxOverruns == {p \in HitboxPackets : p.tag = "overrun"}
ReportsOf(h) == {p \in HitboxPackets : p.tag = "hitbox" /\ p.hb = h}

KnownIn(q, pg, h) ==
  Covered(q, pg.whole, h \in pg.hitboxes, FrameBegins, BoxOverruns, ReportsOf(h), FrameBegins)

(* Before each collision of a cleared frame, both hitboxes are known.        *)
Collisions(q, pg) ==
  \A i \in 1..Len(q) :
    q[i].tag = "collisi" /\ q[i].cleared =>
      KnownIn(Before(q, i), pg, q[i].hb1) /\ KnownIn(Before(q, i), pg, q[i].hb2)

BoxTypes ==
  /\ HitboxTypeOK /\ stream \in Seq(HitboxPackets) /\ todo \in Seq(HitboxPackets)
  /\ \A i \in 1..Len(todo) : todo[i].tag = "do_many" => i = 1

BoxLosses ==
  /\ conn # "current" => ~page.whole
  /\ lastOverrun => Spoilt(stream, page.whole, FrameBegins, BoxOverruns)

(* A world runs once in a frame, and no hitbox is entered before its world   *)
(* runs.                                                                     *)
BoxFrames ==
  /\ world \notin toRun
  /\ cleared => \A h \in s_hitboxes_this_frame : WorldOf[h] \notin toRun

(* The table's hitboxes of the running world are told.                       *)
BoxesTold ==
  cleared => \A h \in s_hitboxes_this_frame : WorldOf[h] = world => KnownIn(Queue, page, h)

BoxInv ==
  /\ BoxTypes /\ BoxLosses /\ BoxFrames /\ BoxesTold
  /\ Collisions(Queue, page) /\ ~page.unknown

Pages == [hitboxes : SUBSET Hitboxes, whole : BOOLEAN, unknown : BOOLEAN]

(* The kinds of packets.                                                     *)
LEMMA BoxKinds ==
  /\ Overrun \in HitboxPackets /\ Overrun \in BoxOverruns /\ Overrun \notin FrameBegins
  /\ Overrun.tag = "overrun"
  /\ \A p \in HitboxPackets :
       /\ ~(p \in FrameBegins /\ p \in BoxOverruns)
       /\ \A h : ~(p \in ReportsOf(h) /\ p \in FrameBegins)
       /\ p.tag \in {"do_many", "hitbox", "collisi", "overrun"}
       /\ p.tag = "hitbox" => p.hb \in Hitboxes
       /\ p.tag = "collisi" => p.hb1 \in Hitboxes /\ p.hb2 \in Hitboxes /\ p.cleared \in BOOLEAN
  BY DEF HitboxPackets, Overrun, BoxOverruns, FrameBegins, ReportsOf

(* What reading a packet does to the client (HoseParser.parse).              *)
LEMMA BoxEffect ==
  ASSUME NEW pg \in Pages, NEW p \in HitboxPackets
  PROVE  /\ ParseHitbox(pg, p) \in Pages
         /\ ParseHitbox(pg, p).whole <=> (pg.whole /\ p \notin BoxOverruns) \/ p \in FrameBegins
         /\ \A h : h \in ParseHitbox(pg, p).hitboxes <=>
              (h \in pg.hitboxes /\ p \notin FrameBegins) \/ p \in ReportsOf(h)
         /\ ParseHitbox(pg, p).unknown <=> pg.unknown \/
              (/\ p.tag = "collisi" /\ pg.whole /\ p.cleared
               /\ ~({p.hb1, p.hb2} \subseteq pg.hitboxes))
<1> DEFINE n == ParseHitbox(pg, p)
<1> USE DEF BoxOverruns, FrameBegins, ReportsOf
<1>1. CASE p.tag = "do_many" /\ p.world = 0
  <2>1. n = [pg EXCEPT !.hitboxes = {}, !.whole = TRUE]
    BY <1>1 DEF ParseHitbox
  <2>2. n \in Pages /\ n.hitboxes = {} /\ n.whole = TRUE /\ n.unknown = pg.unknown
    BY <2>1 DEF Pages
  <2> HIDE DEF n
  <2> QED BY <2>2, <1>1 DEF n
<1>2. CASE p.tag = "do_many" /\ p.world # 0
  BY <1>2 DEF ParseHitbox
<1>3. CASE p.tag = "hitbox"
  <2>1. n = [pg EXCEPT !.hitboxes = @ \cup {p.hb}] /\ p.hb \in Hitboxes
    BY <1>3, BoxKinds DEF ParseHitbox
  <2>2. n \in Pages /\ n.hitboxes = pg.hitboxes \cup {p.hb} /\ n.whole = pg.whole
        /\ n.unknown = pg.unknown
    BY <2>1 DEF Pages
  <2> HIDE DEF n
  <2> QED BY <2>2, <1>3 DEF n
<1>4. CASE p.tag = "overrun"
  <2>1. n = [pg EXCEPT !.whole = FALSE]
    BY <1>4 DEF ParseHitbox
  <2>2. n \in Pages /\ n.hitboxes = pg.hitboxes /\ n.whole = FALSE /\ n.unknown = pg.unknown
    BY <2>1 DEF Pages
  <2> HIDE DEF n
  <2> QED BY <2>2, <1>4 DEF n
<1>5. CASE p.tag = "collisi" /\ {p.hb1, p.hb2} \subseteq pg.hitboxes
  BY <1>5 DEF ParseHitbox
<1>6. CASE p.tag = "collisi" /\ ~({p.hb1, p.hb2} \subseteq pg.hitboxes)
  <2>1. n = [pg EXCEPT !.unknown = @ \/ (pg.whole /\ p.cleared)]
    BY <1>6 DEF ParseHitbox
  <2>2. p.cleared \in BOOLEAN
    BY <1>6, BoxKinds
  <2>3. n \in Pages /\ n.hitboxes = pg.hitboxes /\ n.whole = pg.whole
        /\ n.unknown = (pg.unknown \/ (pg.whole /\ p.cleared))
    BY <2>1, <2>2 DEF Pages
  <2> HIDE DEF n
  <2> QED BY <2>3, <1>6 DEF n
<1> QED BY <1>1, <1>2, <1>3, <1>4, <1>5, <1>6, BoxKinds

(* What a hitbox known by q is when q is read, dropped, or appended to.      *)
LEMMA KnownRead ==
  ASSUME NEW pg \in Pages, NEW q \in Seq(HitboxPackets), q # <<>>, NEW h, KnownIn(q, pg, h)
  PROVE  KnownIn(Tail(q), ParseHitbox(pg, Head(q)), h)
<1> DEFINE p == Head(q)
           bb == ParseHitbox(pg, p).whole
           aa == h \in ParseHitbox(pg, p).hitboxes
           b0 == pg.whole
           a0 == h \in pg.hitboxes
           A == ReportsOf(h)
<1>1. p \in HitboxPackets
  BY TailPositions
<1>2. bb <=> (b0 /\ p \notin BoxOverruns) \/ p \in FrameBegins
  BY <1>1, BoxEffect
<1>3. aa <=> (a0 /\ p \notin FrameBegins) \/ p \in A
  BY <1>1, BoxEffect
<1>4. /\ \A x \in HitboxPackets : ~(x \in A /\ x \in FrameBegins)
      /\ ~(p \in FrameBegins /\ p \in BoxOverruns)
  BY <1>1, BoxKinds
<1>5. Covered(q, b0, a0, FrameBegins, BoxOverruns, A, FrameBegins)
  BY DEF KnownIn
<1>6. p = Head(q)
  OBVIOUS
<1> HIDE DEF p, bb, aa, b0, a0, A
<1>7. /\ bb => (b0 /\ Head(q) \notin BoxOverruns)
               \/ (Head(q) \in FrameBegins /\ Head(q) \notin BoxOverruns)
      /\ (a0 /\ Head(q) \notin FrameBegins)
           \/ (Head(q) \in A /\ Head(q) \notin FrameBegins) => aa
  BY <1>1, <1>2, <1>3, <1>4, <1>6
<1>8. Covered(Tail(q), bb, aa, FrameBegins, BoxOverruns, A, FrameBegins)
  BY <1>4, <1>5, <1>7, CoveredTail
<1> QED BY <1>8 DEF p, bb, aa, A, KnownIn

LEMMA KnownForget ==
  ASSUME NEW pg \in Pages, NEW q \in Seq(HitboxPackets), NEW h, KnownIn(q, pg, h)
  PROVE  /\ KnownIn(q, [pg EXCEPT !.whole = FALSE], h)
         /\ \A m \in 0..Len(q) : ~pg.whole => KnownIn(SubSeq(q, m + 1, Len(q)), pg, h)
<1> DEFINE b0 == pg.whole
           a0 == h \in pg.hitboxes
           A == ReportsOf(h)
           p2 == [pg EXCEPT !.whole = FALSE]
<1>1. Covered(q, b0, a0, FrameBegins, BoxOverruns, A, FrameBegins)
  BY DEF KnownIn
<1>2. p2.whole = FALSE /\ p2.hitboxes = pg.hitboxes
  BY DEF Pages
<1>3. ~pg.whole => pg.whole = FALSE
  BY DEF Pages
<1>4. KnownIn(q, p2, h)
  <2> HIDE DEF b0, a0, A, p2
  <2>1. Covered(q, FALSE, a0, FrameBegins, BoxOverruns, A, FrameBegins)
    BY ONLY <1>1, CoveredForget
  <2> QED BY <1>2, <2>1 DEF a0, A, KnownIn
<1>5. ASSUME NEW m \in 0..Len(q), ~pg.whole PROVE KnownIn(SubSeq(q, m + 1, Len(q)), pg, h)
  <2> HIDE DEF b0, a0, A
  <2>1. Covered(SubSeq(q, m + 1, Len(q)), FALSE, a0, FrameBegins, BoxOverruns, A, FrameBegins)
    BY <1>1, CoveredDrop
  <2> QED BY <1>3, <1>5, <2>1 DEF a0, A, KnownIn
<1> QED BY <1>4, <1>5

LEMMA KnownAppend ==
  ASSUME NEW pg, NEW q \in Seq(HitboxPackets), NEW h
  PROVE  /\ \A p \in HitboxPackets :
              KnownIn(q, pg, h) /\ p \notin FrameBegins => KnownIn(Append(q, p), pg, h)
         /\ \A r \in Seq(HitboxPackets) :
              KnownIn(q, pg, h) /\ (\A i \in 1..Len(r) : r[i] \notin FrameBegins)
                => KnownIn(q \o r, pg, h)
         /\ \A r \in Seq(HitboxPackets) :
              (\A i \in 1..Len(r) : r[i] \notin FrameBegins)
              /\ (\E k \in 1..Len(r) : r[k] \in ReportsOf(h))
                => KnownIn(q \o r, pg, h)
         /\ Spoilt(q, pg.whole, FrameBegins, BoxOverruns) => KnownIn(q, pg, h)
<1> DEFINE b0 == pg.whole
           a0 == h \in pg.hitboxes
           A == ReportsOf(h)
<1> HIDE DEF b0, a0, A
<1>1. ASSUME NEW p \in HitboxPackets,
             Covered(q, b0, a0, FrameBegins, BoxOverruns, A, FrameBegins), p \notin FrameBegins
      PROVE  Covered(Append(q, p), b0, a0, FrameBegins, BoxOverruns, A, FrameBegins)
  BY <1>1, CoveredAppend
<1>2. ASSUME NEW r \in Seq(HitboxPackets), \A i \in 1..Len(r) : r[i] \notin FrameBegins,
             Covered(q, b0, a0, FrameBegins, BoxOverruns, A, FrameBegins)
      PROVE  Covered(q \o r, b0, a0, FrameBegins, BoxOverruns, A, FrameBegins)
  BY <1>2, CoveredConcat
<1>3. ASSUME NEW r \in Seq(HitboxPackets), \A i \in 1..Len(r) : r[i] \notin FrameBegins,
             NEW k \in 1..Len(r), r[k] \in A
      PROVE  Covered(q \o r, b0, a0, FrameBegins, BoxOverruns, A, FrameBegins)
  BY <1>3, CoveredByDump
<1>4. Spoilt(q, b0, FrameBegins, BoxOverruns)
        => Covered(q, b0, a0, FrameBegins, BoxOverruns, A, FrameBegins)
  BY SpoiltCovers
<1> QED BY <1>1, <1>2, <1>3, <1>4 DEF KnownIn, b0, a0, A

(* The collisions of a queue, when it is read, dropped, or appended to.      *)
LEMMA CollisionsRead ==
  ASSUME NEW pg \in Pages, NEW q \in Seq(HitboxPackets), q # <<>>,
         Collisions(q, pg), ~pg.unknown
  PROVE  Collisions(Tail(q), ParseHitbox(pg, Head(q))) /\ ~ParseHitbox(pg, Head(q)).unknown
<1> DEFINE r == Tail(q)
           n == Len(q) - 1
           p == Head(q)
           p2 == ParseHitbox(pg, p)
<1>1. n \in Nat /\ Len(q) = n + 1 /\ Len(r) = n /\ q[1] = p /\ q[1] \in HitboxPackets
      /\ \A i \in 1..n : r[i] = q[i + 1]
  BY TailPositions
<1>2. ASSUME NEW i \in 1..n, r[i].tag = "collisi", r[i].cleared
      PROVE  KnownIn(Before(r, i), p2, r[i].hb1) /\ KnownIn(Before(r, i), p2, r[i].hb2)
  <2> DEFINE b == Before(q, i + 1)
  <2>1. i + 1 \in 1..Len(q) /\ r[i] = q[i + 1]
    BY <1>1
  <2>2. b \in Seq(HitboxPackets)
    BY <2>1, BeforePositions
  <2>3. b # <<>> /\ Head(b) = p /\ Before(r, i) = Tail(b)
    BY BeforeTail
  <2>4. KnownIn(b, pg, r[i].hb1) /\ KnownIn(b, pg, r[i].hb2)
    BY <1>2, <2>1 DEF Collisions
  <2> HIDE DEF b, r, p
  <2>5. KnownIn(Tail(b), ParseHitbox(pg, Head(b)), r[i].hb1)
        /\ KnownIn(Tail(b), ParseHitbox(pg, Head(b)), r[i].hb2)
    BY <2>2, <2>3, <2>4, KnownRead
  <2> QED BY <2>3, <2>5
<1>3. p.tag = "collisi" /\ p.cleared /\ pg.whole => {p.hb1, p.hb2} \subseteq pg.hitboxes
  <2> SUFFICES ASSUME p.tag = "collisi", p.cleared, pg.whole, NEW h \in {p.hb1, p.hb2}
               PROVE  h \in pg.hitboxes
    OBVIOUS
  <2> DEFINE b == Before(q, 1)
             b0 == pg.whole
             a0 == h \in pg.hitboxes
             A == ReportsOf(h)
  <2>1. 1 \in 1..Len(q)
    BY <1>1
  <2>2. b \in Seq(HitboxPackets) /\ Len(b) = 0
    BY <2>1, BeforePositions
  <2>3. KnownIn(b, pg, h)
    BY <1>1, <2>1 DEF Collisions
  <2>4. Covered(b, b0, a0, FrameBegins, BoxOverruns, A, FrameBegins) /\ b0
    BY <2>3 DEF KnownIn
  <2>5. 0 \in From(b0, b, FrameBegins)
    BY <2>2, <2>4 DEF From
  <2> HIDE DEF b, p, b0, a0, A
  <2>6. 0 \in From(a0, b, A)
    BY <2>2, <2>4, <2>5, CoveredEmpty
  <2> QED BY <2>6 DEF a0, From
<1>4. p2.unknown <=> pg.unknown \/
        (/\ p.tag = "collisi" /\ pg.whole /\ p.cleared
         /\ ~({p.hb1, p.hb2} \subseteq pg.hitboxes))
  BY <1>1, BoxEffect
<1> HIDE DEF p2
<1>5. ~p2.unknown
  BY <1>3, <1>4
<1> QED BY <1>1, <1>2, <1>5 DEF Collisions, p2

LEMMA CollisionsForget ==
  ASSUME NEW pg \in Pages, NEW q \in Seq(HitboxPackets), Collisions(q, pg)
  PROVE  /\ Collisions(q, [pg EXCEPT !.whole = FALSE])
         /\ \A m \in 0..Len(q) : ~pg.whole => Collisions(SubSeq(q, m + 1, Len(q)), pg)
<1> DEFINE p2 == [pg EXCEPT !.whole = FALSE]
<1>1. ASSUME NEW i \in 1..Len(q), q[i].tag = "collisi", q[i].cleared
      PROVE  KnownIn(Before(q, i), p2, q[i].hb1) /\ KnownIn(Before(q, i), p2, q[i].hb2)
  <2> DEFINE b == Before(q, i)
  <2>1. b \in Seq(HitboxPackets) /\ KnownIn(b, pg, q[i].hb1) /\ KnownIn(b, pg, q[i].hb2)
    BY <1>1, BeforePositions DEF Collisions
  <2> HIDE DEF b
  <2> QED BY <2>1, KnownForget DEF b
<1>2. ASSUME NEW m \in 0..Len(q), ~pg.whole PROVE Collisions(SubSeq(q, m + 1, Len(q)), pg)
  <2> DEFINE r == SubSeq(q, m + 1, Len(q))
             n == Len(q) - m
  <2>1. n \in Nat /\ m \in Nat /\ Len(q) = m + n /\ Len(r) = n
        /\ \A i \in 1..n : r[i] = q[m + i]
    BY DropPositions
  <2>2. ASSUME NEW i \in 1..n, r[i].tag = "collisi", r[i].cleared
        PROVE  KnownIn(Before(r, i), pg, r[i].hb1) /\ KnownIn(Before(r, i), pg, r[i].hb2)
    <3> DEFINE b == Before(q, m + i)
    <3>1. m + i \in 1..Len(q) /\ r[i] = q[m + i]
      <4> HIDE DEF r, n
      <4> QED BY <2>1
    <3>2. b \in Seq(HitboxPackets)
      BY <3>1, BeforePositions
    <3>3. Before(r, i) = SubSeq(b, m + 1, Len(b)) /\ m \in 0..Len(b)
      BY BeforeDrop
    <3>4. KnownIn(b, pg, r[i].hb1) /\ KnownIn(b, pg, r[i].hb2)
      BY <2>2, <3>1 DEF Collisions
    <3> HIDE DEF b, r
    <3> QED BY <1>2, <3>2, <3>3, <3>4, KnownForget
  <2> HIDE DEF r
  <2> QED BY <2>1, <2>2 DEF Collisions, r
<1> QED BY <1>1, <1>2 DEF Collisions

(* The packets before a position of two sequences joined.                    *)
LEMMA BeforeConcat ==
  ASSUME NEW X, NEW q \in Seq(X), NEW r \in Seq(X)
  PROVE  /\ \A i \in 1..Len(q) : Before(q \o r, i) = Before(q, i)
         /\ \A i \in 1..Len(r) : Before(q \o r, Len(q) + i) = q \o Before(r, i)
  BY DEF Before

LEMMA CollisionsConcat ==
  ASSUME NEW pg, NEW q \in Seq(HitboxPackets), NEW r \in Seq(HitboxPackets),
         Collisions(q, pg),
         \A i \in 1..Len(r) : r[i].tag = "collisi" /\ r[i].cleared =>
           /\ KnownIn(q \o Before(r, i), pg, r[i].hb1)
           /\ KnownIn(q \o Before(r, i), pg, r[i].hb2)
  PROVE  Collisions(q \o r, pg)
<1> DEFINE w == q \o r
           n == Len(q)
           m == Len(r)
<1>1. n = Len(q) /\ n \in Nat /\ m \in Nat /\ Len(w) = n + m
      /\ (\A i \in 1..n : w[i] = q[i]) /\ (\A i \in 1..m : w[n + i] = r[i])
  BY ConcatPositions
<1>2. /\ \A i \in 1..n : Before(w, i) = Before(q, i)
      /\ \A i \in 1..m : Before(w, n + i) = q \o Before(r, i)
  BY BeforeConcat
<1> HIDE DEF w, n
<1> SUFFICES ASSUME NEW i \in 1..(n + m), w[i].tag = "collisi", w[i].cleared
             PROVE  KnownIn(Before(w, i), pg, w[i].hb1) /\ KnownIn(Before(w, i), pg, w[i].hb2)
  BY <1>1 DEF Collisions, w
<1>3. CASE i \in 1..n
  <2>1. w[i] = q[i] /\ Before(w, i) = Before(q, i) /\ i \in 1..Len(q)
    BY <1>1, <1>2, <1>3
  <2> QED BY <2>1 DEF Collisions
<1>4. CASE i \notin 1..n
  <2> DEFINE j == i - n
  <2>1. j \in 1..m /\ n + j = i
    BY <1>1, <1>4
  <2> HIDE DEF j
  <2>2. w[i] = r[j] /\ Before(w, i) = q \o Before(r, j)
    BY <1>1, <1>2, <2>1
  <2>3. r[j].tag = "collisi" /\ r[j].cleared
    BY <2>2
  <2>4. KnownIn(q \o Before(r, j), pg, r[j].hb1) /\ KnownIn(q \o Before(r, j), pg, r[j].hb2)
    BY <2>1, <2>3
  <2> QED BY <2>2, <2>4
<1> QED BY <1>3, <1>4

(* The other way round: those of the first.                                  *)
LEMMA CollisionsPrefix ==
  ASSUME NEW pg, NEW q \in Seq(HitboxPackets), NEW r \in Seq(HitboxPackets),
         Collisions(q \o r, pg)
  PROVE  Collisions(q, pg)
<1> DEFINE w == q \o r
           n == Len(q)
           m == Len(r)
<1>1. n \in Nat /\ m \in Nat /\ Len(w) = n + m /\ (\A i \in 1..n : w[i] = q[i])
      /\ (\A i \in 1..n : Before(w, i) = Before(q, i))
  BY ConcatPositions, BeforeConcat
<1>2. Collisions(w, pg)
  OBVIOUS
<1> HIDE DEF w
<1> SUFFICES ASSUME NEW i \in 1..n, q[i].tag = "collisi", q[i].cleared
             PROVE  KnownIn(Before(q, i), pg, q[i].hb1) /\ KnownIn(Before(q, i), pg, q[i].hb2)
  BY DEF Collisions
<1>3. i \in 1..Len(w) /\ w[i] = q[i] /\ Before(w, i) = Before(q, i)
  BY <1>1
<1> QED BY <1>2, <1>3 DEF Collisions

(* After a loss nothing is expected of what follows it.                      *)
LEMMA CollisionsSpoilt ==
  ASSUME NEW pg, NEW q \in Seq(HitboxPackets), NEW r \in Seq(HitboxPackets),
         Collisions(q, pg), Spoilt(q, pg.whole, FrameBegins, BoxOverruns),
         \A i \in 1..Len(r) : r[i] \notin FrameBegins
  PROVE  Collisions(q \o r, pg)
<1> SUFFICES ASSUME NEW i \in 1..Len(r), NEW h
             PROVE  KnownIn(q \o Before(r, i), pg, h)
  BY CollisionsConcat
<1> DEFINE t == Before(r, i)
<1>1. t \in Seq(HitboxPackets) /\ Len(t) = i - 1 /\ \A j \in 1..(i - 1) : t[j] = r[j]
  BY BeforePositions
<1>2. Len(r) \in Nat /\ \A j \in 1..(i - 1) : j \in 1..Len(r)
  OBVIOUS
<1> HIDE DEF t
<1>3. \A j \in 1..Len(t) : t[j] \notin FrameBegins
  BY <1>1, <1>2
<1>4. KnownIn(q, pg, h)
  BY KnownAppend
<1>5. KnownIn(q \o t, pg, h)
  BY <1>1, <1>3, <1>4, KnownAppend
<1> QED BY <1>5 DEF t

(* The reports of the hitboxes not yet in the table (report_hitbox).         *)
LEMMA ReportPackets ==
  ASSUME NEW hs \in SUBSET Hitboxes
  PROVE  /\ Report(hs) \in Seq(HitboxPackets)
         /\ \A i \in 1..Len(Report(hs)) :
              Report(hs)[i].tag = "hitbox" /\ Report(hs)[i] \notin FrameBegins
         /\ \A h \in hs \ s_hitboxes_this_frame :
              \E i \in 1..Len(Report(hs)) : Report(hs)[i] \in ReportsOf(h)
<1> DEFINE new == hs \ s_hitboxes_this_frame
           n == Cardinality(new)
           e == SetToSeq(new)
           r == [i \in 1..n |-> [tag |-> "hitbox", hb |-> e[i]]]
<1>1. IsFiniteSet(new)
  BY FS_Subset, HitboxAssumption
<1>2. n \in Nat /\ e \in [1..n -> new] /\ \A x \in new : \E i \in 1..n : e[i] = x
  BY <1>1, SetToSeqNamesAll
<1>3. new \subseteq Hitboxes
  OBVIOUS
<1>4. Report(hs) = r
  BY DEF Report
<1> HIDE DEF e, n, new
<1>5. \A h \in Hitboxes : [tag |-> "hitbox", hb |-> h] \in HitboxPackets
  BY DEF HitboxPackets
<1>6. r \in [1..n -> HitboxPackets]
  BY <1>2, <1>3, <1>5
<1>7. r \in Seq(HitboxPackets) /\ Len(r) = n
      /\ \A i \in 1..n : r[i] = [tag |-> "hitbox", hb |-> e[i]]
  BY <1>2, <1>6
<1> HIDE DEF r
<1>8. \A i \in 1..n : r[i].tag = "hitbox" /\ r[i] \notin FrameBegins
  BY <1>7 DEF FrameBegins
<1>9. ASSUME NEW h \in new PROVE \E i \in 1..n : r[i] \in ReportsOf(h)
  <2>1. PICK i \in 1..n : e[i] = h
    BY <1>2
  <2>2. r[i] = [tag |-> "hitbox", hb |-> h] /\ r[i] \in HitboxPackets
    BY <1>3, <1>5, <1>7, <2>1
  <2> QED BY <2>2 DEF ReportsOf
<1> QED BY <1>4, <1>7, <1>8, <1>9 DEF new

(* Every hitbox of hs is known once its reports are read, if those that need *)
(* none were known.                                                          *)
LEMMA ReportTells ==
  ASSUME NEW q \in Seq(HitboxPackets), NEW hs \in SUBSET Hitboxes, NEW h \in hs,
         h \in s_hitboxes_this_frame => KnownIn(q, page, h)
  PROVE  KnownIn(q \o Report(hs), page, h)
<1> DEFINE r == Report(hs)
           pg == page
<1>1. /\ r \in Seq(HitboxPackets) /\ \A i \in 1..Len(r) : r[i] \notin FrameBegins
      /\ h \notin s_hitboxes_this_frame => \E i \in 1..Len(r) : r[i] \in ReportsOf(h)
  BY ReportPackets
<1>2. h \in s_hitboxes_this_frame => KnownIn(q, pg, h)
  OBVIOUS
<1> HIDE DEF r, pg
<1>3. KnownIn(q \o r, pg, h)
  BY <1>1, <1>2, KnownAppend
<1> QED BY <1>3 DEF r, pg

(* Entering hitboxes keeps the table a set of them, within its slots.        *)
LEMMA EnterKeeps ==
  ASSUME NEW hs \in SUBSET Hitboxes, Enter(hs), s_hitboxes_this_frame \subseteq Hitboxes
  PROVE  /\ s_hitboxes_this_frame' \subseteq Hitboxes
         /\ Cardinality(s_hitboxes_this_frame') <= Slots
         /\ s_hitboxes_this_frame' \subseteq s_hitboxes_this_frame \cup hs
  BY DEF Enter

(* A first packet followed by others, and a last one after others.           *)
LEMMA QueueEnds ==
  ASSUME NEW X, NEW q \in Seq(X), NEW r \in Seq(X), NEW p \in X
  PROVE  /\ q \o (<<p>> \o r) = Append(q, p) \o r
         /\ q \o (r \o <<p>>) = Append(q \o r, p)
         /\ <<p>> \o r \in Seq(X) /\ r \o <<p>> \in Seq(X)
         /\ Len(<<p>> \o r) = Len(r) + 1 /\ Len(r \o <<p>>) = Len(r) + 1
         /\ \A i \in 2..(Len(r) + 1) : i - 1 \in 1..Len(r) /\ (<<p>> \o r)[i] = r[i - 1]
         /\ \A i \in 1..Len(r) : (r \o <<p>>)[i] = r[i]
         /\ (r \o <<p>>)[Len(r) + 1] = p /\ (<<p>> \o r)[1] = p
<1> DEFINE t == <<p>> \o r
           u == r \o <<p>>
<1>1. t \in Seq(X) /\ Len(t) = Len(r) + 1 /\ t[1] = p /\ t # <<>> /\ Head(t) = p
      /\ \A i \in 2..(Len(r) + 1) : i - 1 \in 1..Len(r) /\ t[i] = r[i - 1]
  OBVIOUS
<1>2. Tail(t) = r
  OBVIOUS
<1>3. q \o t = Append(q, p) \o r
  <2> HIDE DEF t
  <2> QED BY <1>1, <1>2, QueueWrite
<1>4. u \in Seq(X) /\ Len(u) = Len(r) + 1 /\ u[Len(r) + 1] = p
      /\ \A i \in 1..Len(r) : u[i] = r[i]
  OBVIOUS
<1>5. q \o u = Append(q \o r, p)
  OBVIOUS
<1> QED BY <1>1, <1>3, <1>4, <1>5

(* What the steps of a hook leave to be written.                             *)
BoxWritable(r) ==
  r \in Seq(HitboxPackets) /\ \A i \in 1..Len(r) : r[i].tag = "do_many" => i = 1

LEMMA BoxWritableSteps ==
  /\ BoxWritable(<<>>)
  /\ \A r \in Seq(HitboxPackets) : BoxWritable(r) /\ r # <<>> =>
       BoxWritable(Tail(r)) /\ \A i \in 1..Len(Tail(r)) : Tail(r)[i] \notin FrameBegins
  /\ \A w \in Worlds, hs \in SUBSET Hitboxes :
       BoxWritable(<<[tag |-> "do_many", world |-> w]>> \o Report(hs))
  /\ \A p \in HitboxPackets, hs \in SUBSET Hitboxes :
       p.tag = "collisi" => BoxWritable(Report(hs) \o <<p>>)
<1>1. BoxWritable(<<>>)
  BY DEF BoxWritable
<1>2. ASSUME NEW r \in Seq(HitboxPackets), BoxWritable(r), r # <<>>
      PROVE  BoxWritable(Tail(r)) /\ \A i \in 1..Len(Tail(r)) : Tail(r)[i] \notin FrameBegins
  <2> DEFINE t == Tail(r)
             n == Len(r) - 1
  <2>1. t \in Seq(HitboxPackets) /\ Len(t) = n /\ n \in Nat /\ \A i \in 1..n : t[i] = r[i + 1]
    BY <1>2, TailPositions
  <2>2. Len(r) = n + 1
    BY <2>1
  <2> HIDE DEF t, n
  <2>3. ASSUME NEW i \in 1..n PROVE t[i].tag # "do_many"
    <3>1. i + 1 \in 1..Len(r) /\ i + 1 # 1
      BY <2>1, <2>2
    <3>2. r[i + 1].tag # "do_many"
      BY <3>1, <1>2 DEF BoxWritable
    <3> QED BY <3>2, <2>1
  <2>4. BoxWritable(t) /\ \A i \in 1..Len(t) : t[i] \notin FrameBegins
    BY <2>1, <2>3 DEF BoxWritable, FrameBegins
  <2> QED BY <2>4 DEF t
<1>3. ASSUME NEW w \in Worlds, NEW hs \in SUBSET Hitboxes
      PROVE  BoxWritable(<<[tag |-> "do_many", world |-> w]>> \o Report(hs))
  <2> DEFINE p == [tag |-> "do_many", world |-> w]
             r == Report(hs)
             z == <<p>> \o r
  <2>1. p \in HitboxPackets
    BY DEF HitboxPackets
  <2>2. r \in Seq(HitboxPackets) /\ \A i \in 1..Len(r) : r[i].tag = "hitbox"
    BY ReportPackets
  <2> HIDE DEF p, r
  <2>3. z \in Seq(HitboxPackets) /\ Len(z) = Len(r) + 1
        /\ \A i \in 2..(Len(r) + 1) : i - 1 \in 1..Len(r) /\ z[i] = r[i - 1]
    BY <2>1, <2>2, QueueEnds
  <2> HIDE DEF z
  <2>4. ASSUME NEW i \in 1..Len(z), i # 1 PROVE z[i].tag # "do_many"
    BY <2>2, <2>3, <2>4
  <2> QED BY <2>3, <2>4 DEF BoxWritable, z, p, r
<1>4. ASSUME NEW p \in HitboxPackets, NEW hs \in SUBSET Hitboxes, p.tag = "collisi"
      PROVE  BoxWritable(Report(hs) \o <<p>>)
  <2> DEFINE r == Report(hs)
             z == r \o <<p>>
             n == Len(r)
  <2>1. r \in Seq(HitboxPackets) /\ \A i \in 1..Len(r) : r[i].tag = "hitbox"
    BY ReportPackets
  <2> HIDE DEF r
  <2>2. z \in Seq(HitboxPackets) /\ Len(z) = n + 1 /\ n \in Nat
        /\ (\A i \in 1..n : z[i] = r[i]) /\ z[n + 1] = p
    BY <2>1, QueueEnds
  <2> HIDE DEF z
  <2>3. ASSUME NEW i \in 1..Len(z) PROVE z[i].tag # "do_many"
    BY <1>4, <2>1, <2>2
  <2> QED BY <2>2, <2>3 DEF BoxWritable, z, r
<1> QED BY <1>1, <1>2, <1>3, <1>4

(* A queue of packets is one.                                                *)
LEMMA BoxQueue ==
  ASSUME NEW q \in Seq(HitboxPackets), NEW r \in Seq(HitboxPackets)
  PROVE  /\ q \o r \in Seq(HitboxPackets)
         /\ \A i \in DOMAIN (q \o r) : (q \o r)[i] \in HitboxPackets
  OBVIOUS

(* Types are kept by every step of the game thread, the hose and the client. *)
LEMMA BoxTypesStep ==
  ASSUME BoxTypes, HitboxNext
  PROVE  BoxTypes'
<1>1. /\ HoseOK /\ stream \in Seq(HitboxPackets) /\ BoxWritable(todo) /\ page \in Pages
      /\ s_hitboxes_this_frame \subseteq Hitboxes /\ Cardinality(s_hitboxes_this_frame) <= Slots
      /\ toRun \subseteq Worlds /\ world \in Worlds \cup {NoWorld}
  BY DEF BoxTypes, HitboxTypeOK, BoxWritable, Pages
<1>2. cleared \in BOOLEAN /\ on \in BOOLEAN
  BY DEF BoxTypes, HitboxTypeOK
<1>3. ASSUME HoseOK', stream' \in Seq(HitboxPackets), BoxWritable(todo'), page' \in Pages,
             s_hitboxes_this_frame' \subseteq Hitboxes,
             Cardinality(s_hitboxes_this_frame') <= Slots,
             toRun' \subseteq Worlds, world' \in Worlds \cup {NoWorld},
             cleared' \in BOOLEAN, on' \in BOOLEAN
      PROVE  BoxTypes'
  <2>1. todo' \in Seq(HitboxPackets)
        /\ \A i \in 1..Len(todo') : todo'[i].tag = "do_many" => i = 1
    BY <1>3 DEF BoxWritable
  <2>2. \A i \in DOMAIN (stream' \o todo') : (stream' \o todo')[i] \in HitboxPackets
    BY <1>3, <2>1, BoxQueue
  <2>3. HitboxTypeOK'
    BY <1>3, <2>2 DEF HitboxTypeOK, Queue, Pages
  <2> QED BY <1>3, <2>1, <2>3 DEF BoxTypes
<1>4. ASSUME UNCHANGED hoseVars PROVE HoseOK' /\ stream' \in Seq(HitboxPackets)
  BY <1>1, <1>4 DEF hoseVars, HoseOK
<1>5. Overrun \in HitboxPackets
  BY BoxKinds
<1>6. CASE DeliverHitbox
  <2>1. stream # <<>> /\ stream' = Tail(stream) /\ UNCHANGED <<lastOverrun, conn, handOvers>>
        /\ page' = ParseHitbox(page, Head(stream)) /\ UNCHANGED <<gameVars, todo, on>>
    BY <1>6 DEF DeliverHitbox, gameVars
  <2>2. Head(stream) \in HitboxPackets
    BY <1>1, <2>1, TailPositions
  <2>3. HoseOK' /\ stream' \in Seq(HitboxPackets)
    BY <1>1, <1>5, <2>1, HoseTypes
  <2>4. page' \in Pages
    BY <1>1, <2>1, <2>2, BoxEffect
  <2> QED BY <1>1, <1>2, <1>3, <2>1, <2>3, <2>4 DEF gameVars
<1>7. CASE ReconnectHitbox
  <2>1. HoseOK' /\ stream' \in Seq(HitboxPackets)
    BY <1>1, <1>5, <1>7, HoseTypes DEF ReconnectHitbox
  <2>2. page' \in Pages /\ UNCHANGED <<gameVars, todo, on>>
    BY <1>1, <1>7 DEF ReconnectHitbox, Pages
  <2> QED BY <1>1, <1>2, <1>3, <2>1, <2>2 DEF gameVars
<1>8. CASE HitboxHoseStep
  <2>1. HoseOK' /\ stream' \in Seq(HitboxPackets)
    BY <1>1, <1>5, <1>8, HoseTypes DEF HitboxHoseStep
  <2>2. UNCHANGED <<gameVars, todo, on, page>>
    BY <1>8 DEF HitboxHoseStep
  <2> QED BY <1>1, <1>2, <1>3, <2>1, <2>2 DEF gameVars
<1>9. CASE SetFlag
  <2>1. UNCHANGED <<hoseVars, gameVars, todo, page>> /\ on' \in BOOLEAN
    BY <1>2, <1>9 DEF SetFlag
  <2> QED BY <1>1, <1>2, <1>3, <1>4, <2>1 DEF gameVars
<1>10. CASE HitboxFrameStart
  <2>1. UNCHANGED <<hoseVars, world, todo, on, page>> /\ toRun' = Worlds /\ cleared' = on
    BY <1>10 DEF HitboxFrameStart
  <2>2. s_hitboxes_this_frame' = {} \/ s_hitboxes_this_frame' = s_hitboxes_this_frame
    BY <1>10 DEF HitboxFrameStart
  <2>3. Cardinality({}) <= Slots
    BY FS_EmptySet, HitboxAssumption
  <2>4. cleared' \in BOOLEAN
    BY <1>2, <2>1
  <2> QED BY <1>1, <1>2, <1>3, <1>4, <2>1, <2>2, <2>3, <2>4
<1>11. CASE WorldDone
  <2>1. /\ UNCHANGED <<hoseVars, s_hitboxes_this_frame, cleared, toRun, todo, on, page>>
        /\ world' = NoWorld
    BY <1>11 DEF WorldDone
  <2> QED BY <1>1, <1>2, <1>3, <1>4, <2>1
<1>12. CASE WriteHitbox
  <2>1. todo # <<>> /\ todo' = Tail(todo) /\ UNCHANGED <<gameVars, on, page>>
        /\ (Publish(Head(todo)) \/ Lose)
    BY <1>12 DEF WriteHitbox
  <2>2. Head(todo) \in HitboxPackets /\ todo \in Seq(HitboxPackets)
    BY <1>1, <2>1, TailPositions DEF BoxWritable
  <2>3. HoseOK' /\ stream' \in Seq(HitboxPackets)
    BY <1>1, <1>5, <2>1, <2>2, HoseTypes
  <2>4. BoxWritable(todo')
    BY <1>1, <2>1, <2>2, BoxWritableSteps
  <2> QED BY <1>1, <1>2, <1>3, <2>1, <2>3, <2>4 DEF gameVars
<1>13. ASSUME NEW w \in Worlds, DoManyCollisions(w) PROVE BoxTypes'
  <2> DEFINE hs == {h \in Hitboxes : WorldOf[h] = w}
  <2>1. UNCHANGED <<hoseVars, cleared, on, page>> /\ world' = w /\ toRun' = toRun \ {w}
        /\ todo = <<>>
    BY <1>13 DEF DoManyCollisions
  <2>2. CASE on
    <3>1. Enter(hs) /\ todo' = <<[tag |-> "do_many", world |-> w]>> \o Report(hs)
      BY <1>13, <2>2 DEF DoManyCollisions
    <3>2. hs \in SUBSET Hitboxes
      OBVIOUS
    <3> HIDE DEF hs
    <3>3. BoxWritable(todo')
      BY <3>1, <3>2, BoxWritableSteps
    <3> QED BY <1>1, <1>2, <1>3, <1>4, <2>1, <3>1, <3>2, <3>3, EnterKeeps
  <2>3. CASE ~on
    <3>1. UNCHANGED <<s_hitboxes_this_frame, todo>>
      BY <1>13, <2>3 DEF DoManyCollisions
    <3> QED BY <1>1, <1>2, <1>3, <1>4, <2>1, <3>1
  <2> QED BY <2>2, <2>3
<1>14. ASSUME NEW h1 \in Hitboxes, NEW h2 \in Hitboxes, HitboxCollide(h1, h2) PROVE BoxTypes'
  <2> DEFINE p == [tag |-> "collisi", hb1 |-> h1, hb2 |-> h2, cleared |-> cleared]
             hs == {h1, h2}
  <2>1. UNCHANGED <<hoseVars, cleared, toRun, world, on, page>>
        /\ Enter(hs) /\ todo' = Report(hs) \o <<p>>
    BY <1>14 DEF HitboxCollide
  <2>2. p \in HitboxPackets /\ p.tag = "collisi"
    BY <1>2 DEF HitboxPackets
  <2>3. hs \in SUBSET Hitboxes
    OBVIOUS
  <2> HIDE DEF p, hs
  <2>4. BoxWritable(todo')
    BY <2>1, <2>2, <2>3, BoxWritableSteps
  <2> QED BY <1>1, <1>2, <1>3, <1>4, <2>1, <2>3, <2>4, EnterKeeps
<1> QED
  BY <1>6, <1>7, <1>8, <1>9, <1>10, <1>11, <1>12, <1>13, <1>14 DEF HitboxNext

(* What the hose does to the packets published.                              *)
LEMMA BoxStreamDrops ==
  ASSUME BoxTypes, BoxLosses, HitboxHoseStep
  PROVE  /\ page' = page /\ lastOverrun' = lastOverrun
         /\ conn # "current" /\ ~page.whole
         /\ \/ stream' = stream
            \/ \E m \in 0..Len(stream) : stream' = SubSeq(stream, m + 1, Len(stream))
<1>1. stream \in Seq(HitboxPackets)
  BY DEF BoxTypes
<1>2. CASE DiscardPacket
  BY <1>1, <1>2, TailDrops DEF DiscardPacket, BoxLosses, HitboxHoseStep
<1>3. CASE Adopt
  BY <1>3 DEF Adopt, BoxLosses, HitboxHoseStep
<1>4. CASE HandOver
  BY <1>4 DEF HandOver, BoxLosses, HitboxHoseStep
<1> QED BY <1>2, <1>3, <1>4 DEF HitboxHoseStep

(* What is known is forgotten with the connection, or behind the mark of a   *)
(* loss.                                                                     *)
LEMMA BoxLossesStep ==
  ASSUME BoxTypes, BoxLosses, HitboxNext
  PROVE  BoxLosses'
<1>1. /\ stream \in Seq(HitboxPackets) /\ page \in Pages
      /\ conn \in {"closed", "pending", "current"}
  BY DEF BoxTypes, HitboxTypeOK, HoseOK, Pages
<1>2. ASSUME UNCHANGED hoseVars, page' = page PROVE BoxLosses'
  BY <1>2 DEF BoxLosses, hoseVars
<1>3. CASE DeliverHitbox
  <2> DEFINE p == Head(stream)
  <2>1. p \in HitboxPackets /\ stream # <<>> /\ stream' = Tail(stream) /\ conn' = "current"
        /\ lastOverrun' = lastOverrun
    BY <1>1, <1>3, TailPositions DEF DeliverHitbox
  <2>2. page'.whole <=> (page.whole /\ p \notin BoxOverruns) \/ p \in FrameBegins
    BY <1>1, <1>3, <2>1, BoxEffect DEF DeliverHitbox
  <2>3. \A x \in HitboxPackets : ~(x \in FrameBegins /\ x \in BoxOverruns)
    BY BoxKinds
  <2>4. ASSUME lastOverrun PROVE Spoilt(stream', page'.whole, FrameBegins, BoxOverruns)
    <3>1. Spoilt(stream, page.whole, FrameBegins, BoxOverruns)
      BY <2>4 DEF BoxLosses
    <3> DEFINE b == page.whole
               bb == page'.whole
    <3>2. bb => (b /\ p \notin BoxOverruns) \/ p \in FrameBegins
      BY <2>2
    <3> HIDE DEF b, bb
    <3>3. Spoilt(Tail(stream), bb, FrameBegins, BoxOverruns)
      BY <1>1, <2>1, <2>3, <3>1, <3>2, SpoiltTail DEF b
    <3> QED BY <2>1, <3>3 DEF bb
  <2> QED BY <2>1, <2>4 DEF BoxLosses
<1>4. CASE ReconnectHitbox
  <2>1. page'.whole = FALSE /\ UNCHANGED <<stream, lastOverrun>>
    BY <1>1, <1>4 DEF ReconnectHitbox, Disconnect, Pages
  <2>2. lastOverrun => Spoilt(stream, FALSE, FrameBegins, BoxOverruns)
    BY DEF BoxLosses, Spoilt, From
  <2> QED BY <2>1, <2>2 DEF BoxLosses
<1>5. CASE HitboxHoseStep
  <2>1. page' = page /\ lastOverrun' = lastOverrun /\ page.whole = FALSE
        /\ (stream' = stream
            \/ \E m \in 0..Len(stream) : stream' = SubSeq(stream, m + 1, Len(stream)))
    BY <1>1, <1>5, BoxStreamDrops DEF Pages
  <2>2. lastOverrun => Spoilt(stream', FALSE, FrameBegins, BoxOverruns)
    <3>1. CASE stream' = stream
      BY <2>1, <3>1 DEF BoxLosses
    <3>2. ASSUME NEW m \in 0..Len(stream), stream' = SubSeq(stream, m + 1, Len(stream))
          PROVE  lastOverrun => Spoilt(stream', FALSE, FrameBegins, BoxOverruns)
      BY <1>1, <2>1, <3>2, SpoiltDrop DEF BoxLosses
    <3> QED BY <2>1, <3>1, <3>2
  <2> QED BY <2>1, <2>2 DEF BoxLosses
<1>6. CASE WriteHitbox
  <2>1. page' = page /\ (Publish(Head(todo)) \/ Lose)
    BY <1>6 DEF WriteHitbox
  <2>2. CASE Publish(Head(todo))
    BY <2>1, <2>2 DEF Publish, BoxLosses
  <2>3. CASE Lose
    <3>1. Spoilt(stream', page.whole, FrameBegins, BoxOverruns)
      <4>1. CASE lastOverrun
        BY <2>3, <4>1 DEF Lose, BoxLosses
      <4>2. CASE ~lastOverrun
        <5>1. stream' = Append(stream, Overrun)
          BY <2>3, <4>2 DEF Lose
        <5> QED BY <1>1, <5>1, BoxKinds, SpoiltByOverrun
      <4> QED BY <4>1, <4>2
    <3>2. conn' = conn
      BY <2>3 DEF Lose
    <3> QED BY <2>1, <3>1, <3>2 DEF BoxLosses
  <2> QED BY <2>1, <2>2, <2>3
<1>7. CASE SetFlag \/ HitboxFrameStart \/ WorldDone
  BY <1>2, <1>7 DEF SetFlag, HitboxFrameStart, WorldDone
<1>8. ASSUME NEW w, DoManyCollisions(w) PROVE BoxLosses'
  BY <1>2, <1>8 DEF DoManyCollisions
<1>9. ASSUME NEW h1, NEW h2, HitboxCollide(h1, h2) PROVE BoxLosses'
  BY <1>2, <1>9 DEF HitboxCollide
<1> QED
  BY <1>3, <1>4, <1>5, <1>6, <1>7, <1>8, <1>9 DEF HitboxNext

(* Worlds run once in a frame, and their hitboxes are entered as they do.    *)
LEMMA BoxFramesStep ==
  ASSUME BoxTypes, BoxFrames, HitboxNext
  PROVE  BoxFrames'
<1>1. /\ toRun \subseteq Worlds /\ s_hitboxes_this_frame \subseteq Hitboxes
      /\ NoWorld \notin Worlds /\ NoWorld \notin toRun
  BY HitboxAssumption DEF BoxTypes, HitboxTypeOK, NoWorld
<1>2. ASSUME UNCHANGED gameVars PROVE BoxFrames'
  BY <1>2 DEF BoxFrames, gameVars
<1>3. CASE DeliverHitbox \/ ReconnectHitbox \/ HitboxHoseStep \/ SetFlag \/ WriteHitbox
  BY <1>2, <1>3 DEF DeliverHitbox, ReconnectHitbox, HitboxHoseStep, SetFlag, WriteHitbox
<1>4. CASE HitboxFrameStart
  BY <1>1, <1>4 DEF HitboxFrameStart, BoxFrames
<1>5. CASE WorldDone
  BY <1>1, <1>5 DEF WorldDone, BoxFrames
<1>6. ASSUME NEW w \in Worlds, DoManyCollisions(w) PROVE BoxFrames'
  <2> DEFINE hs == {h \in Hitboxes : WorldOf[h] = w}
  <2>1. world' = w /\ toRun' = toRun \ {w} /\ cleared' = cleared
        /\ (Enter(hs) \/ s_hitboxes_this_frame' = s_hitboxes_this_frame)
    BY <1>6 DEF DoManyCollisions
  <2>2. s_hitboxes_this_frame' \subseteq s_hitboxes_this_frame \cup hs
    BY <2>1 DEF Enter
  <2> QED BY <2>1, <2>2 DEF BoxFrames
<1>7. ASSUME NEW h1 \in Hitboxes, NEW h2 \in Hitboxes, HitboxCollide(h1, h2) PROVE BoxFrames'
  <2>1. UNCHANGED <<cleared, toRun, world>> /\ WorldOf[h1] = world /\ WorldOf[h2] = world
        /\ s_hitboxes_this_frame' \subseteq s_hitboxes_this_frame \cup {h1, h2}
    BY <1>7 DEF HitboxCollide, Enter
  <2> QED BY <2>1 DEF BoxFrames
<1> QED
  BY <1>3, <1>4, <1>5, <1>6, <1>7 DEF HitboxNext

(* What each step does to the queue as a whole.                              *)
LEMMA BoxQueueSteps ==
  ASSUME BoxTypes
  PROVE  /\ Queue \in Seq(HitboxPackets)
         /\ DeliverHitbox => Queue # <<>> /\ Queue' = Tail(Queue) /\ Head(Queue) = Head(stream)
         /\ HitboxHoseStep => Queue' = Queue \/ \E n \in 0..Len(Queue) :
                                                Queue' = SubSeq(Queue, n + 1, Len(Queue))
         /\ todo # <<>> /\ Publish(Head(todo)) /\ todo' = Tail(todo) => Queue' = Queue
         /\ todo = <<>> => Queue = stream
<1>1. stream \in Seq(HitboxPackets) /\ todo \in Seq(HitboxPackets)
  BY DEF BoxTypes
<1>2. Queue \in Seq(HitboxPackets)
  BY <1>1, BoxQueue DEF Queue
<1>3. ASSUME DeliverHitbox
      PROVE  Queue # <<>> /\ Queue' = Tail(Queue) /\ Head(Queue) = Head(stream)
  <2>1. stream # <<>> /\ stream' = Tail(stream) /\ todo' = todo
    BY <1>3 DEF DeliverHitbox
  <2>2. Tail(stream) \o todo = Tail(stream \o todo) /\ Head(stream \o todo) = Head(stream)
        /\ stream \o todo # <<>>
    BY <1>1, <2>1, QueueTail
  <2> QED BY <2>1, <2>2 DEF Queue
<1>4. ASSUME HitboxHoseStep
      PROVE  Queue' = Queue \/ \E n \in 0..Len(Queue) :
                                 Queue' = SubSeq(Queue, n + 1, Len(Queue))
  <2>1. todo' = todo
    BY <1>4 DEF HitboxHoseStep
  <2>2. CASE stream' = stream
    BY <2>1, <2>2 DEF Queue
  <2>3. ASSUME NEW n \in 0..Len(stream), stream' = SubSeq(stream, n + 1, Len(stream))
        PROVE  \E m \in 0..Len(Queue) : Queue' = SubSeq(Queue, m + 1, Len(Queue))
    <3>1. SubSeq(stream, n + 1, Len(stream)) \o todo
            = SubSeq(stream \o todo, n + 1, Len(stream \o todo))
          /\ n \in 0..Len(stream \o todo)
      BY <1>1, QueueDrop
    <3> QED BY <2>1, <2>3, <3>1 DEF Queue
  <2>4. stream' = stream \/ \E n \in 0..Len(stream) : stream' = SubSeq(stream, n + 1, Len(stream))
    <3>1. CASE DiscardPacket
      BY <1>1, <3>1, TailDrops DEF DiscardPacket
    <3>2. CASE HandOver \/ Adopt
      BY <3>2 DEF HandOver, Adopt
    <3> QED BY <1>4, <3>1, <3>2 DEF HitboxHoseStep
  <2> QED BY <2>2, <2>3, <2>4
<1>5. ASSUME todo # <<>>, Publish(Head(todo)), todo' = Tail(todo) PROVE Queue' = Queue
  <2>1. stream' = Append(stream, Head(todo))
    BY <1>5 DEF Publish
  <2>2. Append(stream, Head(todo)) \o Tail(todo) = stream \o todo
    BY <1>1, <1>5, QueueWrite
  <2> QED BY <1>5, <2>1, <2>2 DEF Queue
<1>6. ASSUME todo = <<>> PROVE Queue = stream
  BY <1>1, <1>6 DEF Queue
<1> QED BY <1>2, <1>3, <1>4, <1>5, <1>6

(* A world runs: its hitboxes are reported, and entered as far as they fit.  *)
LEMMA DoManyTells ==
  ASSUME BoxTypes, BoxFrames, Collisions(Queue, page),
         NEW w \in Worlds, DoManyCollisions(w)
  PROVE  BoxesTold' /\ Collisions(Queue', page')
<1> DEFINE hs == {h \in Hitboxes : WorldOf[h] = w}
           p == [tag |-> "do_many", world |-> w]
           q == Append(stream, p)
           r == Report(hs)
<1>1. /\ UNCHANGED <<hoseVars, cleared, page>> /\ world' = w /\ w \in toRun /\ todo = <<>>
      /\ s_hitboxes_this_frame \subseteq Hitboxes /\ stream \in Seq(HitboxPackets)
  BY DEF DoManyCollisions, BoxTypes, HitboxTypeOK
<1>2. Queue = stream /\ stream' = stream
  BY <1>1, BoxQueueSteps DEF hoseVars
<1>3. cleared => \A h \in s_hitboxes_this_frame : h \notin hs
  BY <1>1 DEF BoxFrames
<1>4. CASE ~on
  <2>1. UNCHANGED <<s_hitboxes_this_frame, todo>>
    BY <1>4 DEF DoManyCollisions
  <2>2. cleared' => \A h \in s_hitboxes_this_frame' : WorldOf[h] # world'
    BY <1>1, <1>3, <2>1
  <2>3. Queue' = Queue
    BY <1>2, <2>1 DEF Queue
  <2> QED BY <1>1, <2>2, <2>3 DEF BoxesTold
<1>5. CASE on
  <2>1. Enter(hs) /\ todo' = <<p>> \o r
    BY <1>5 DEF DoManyCollisions
  <2>2. hs \in SUBSET Hitboxes
    OBVIOUS
  <2>3. p \in HitboxPackets /\ p.tag = "do_many"
    BY DEF HitboxPackets
  <2>4. r \in Seq(HitboxPackets) /\ \A i \in 1..Len(r) : r[i].tag = "hitbox"
    BY <2>2, ReportPackets
  <2>5. s_hitboxes_this_frame' \subseteq s_hitboxes_this_frame \cup hs
    BY <1>1, <2>1, <2>2, EnterKeeps
  <2>6. \A h \in s_hitboxes_this_frame' : WorldOf[h] = w => h \in hs
    BY <1>1, <2>5
  <2>7. q \in Seq(HitboxPackets)
    BY <1>1, <2>3, AppendPositions
  <2>8. ASSUME NEW h \in hs, cleared PROVE KnownIn(q \o r, page, h)
    <3>1. h \notin s_hitboxes_this_frame
      BY <1>3, <2>8
    <3> HIDE DEF q, hs
    <3> QED BY <2>2, <2>7, <2>8, <3>1, ReportTells
  <2> HIDE DEF hs, p, r
  <2>9. Queue' = q \o r
    <3>1. stream \in Seq(HitboxPackets)
      BY <1>1
    <3>2. stream \o (<<p>> \o r) = Append(stream, p) \o r
      BY <2>3, <2>4, <3>1, QueueEnds
    <3> QED BY <1>2, <2>1, <3>2 DEF Queue
  <2>10. BoxesTold'
    BY <1>1, <2>6, <2>8, <2>9 DEF BoxesTold
  <2>11. Collisions(q, page)
    <3>1. q = stream \o <<p>> /\ <<p>> \in Seq(HitboxPackets) /\ Len(<<p>>) = 1 /\ <<p>>[1] = p
      BY <1>1, <2>3, QueueShort, OnePacket
    <3>2. \A i \in 1..1 : <<p>>[i].tag # "collisi"
      BY <2>3, <3>1
    <3> DEFINE t == <<p>>
    <3> HIDE DEF t
    <3>3. t \in Seq(HitboxPackets) /\ \A i \in 1..Len(t) : t[i].tag # "collisi"
      BY <3>1, <3>2 DEF t
    <3>4. Collisions(stream \o t, page)
      BY <1>1, <1>2, <3>3, CollisionsConcat
    <3> QED BY <3>1, <3>4 DEF t
  <2>12. \A i \in 1..Len(r) : r[i].tag # "collisi"
    BY <2>4
  <2> HIDE DEF q
  <2>13. Collisions(q \o r, page)
    BY <2>4, <2>7, <2>11, <2>12, CollisionsConcat
  <2> QED BY <1>1, <2>9, <2>10, <2>13
<1> QED BY <1>4, <1>5

(* A collision: whichever of its hitboxes is new is reported before it.      *)
LEMMA CollideTells ==
  ASSUME BoxTypes, BoxFrames, BoxesTold, Collisions(Queue, page),
         NEW h1 \in Hitboxes, NEW h2 \in Hitboxes, HitboxCollide(h1, h2)
  PROVE  BoxesTold' /\ Collisions(Queue', page')
<1> DEFINE hs == {h1, h2}
           p == [tag |-> "collisi", hb1 |-> h1, hb2 |-> h2, cleared |-> cleared]
           r == Report(hs)
           q == stream \o r
           t == <<p>>
<1>1. /\ UNCHANGED <<hoseVars, cleared, world, page>> /\ todo = <<>>
      /\ WorldOf[h1] = world /\ WorldOf[h2] = world
      /\ Enter(hs) /\ todo' = r \o t
      /\ s_hitboxes_this_frame \subseteq Hitboxes /\ stream \in Seq(HitboxPackets)
  BY DEF HitboxCollide, BoxTypes, HitboxTypeOK
<1>2. Queue = stream /\ stream' = stream
  BY <1>1, BoxQueueSteps DEF hoseVars
<1>3. hs \in SUBSET Hitboxes
  OBVIOUS
<1>4. p \in HitboxPackets /\ p.tag = "collisi" /\ p.cleared = cleared /\ p.hb1 \in hs /\ p.hb2 \in hs
  BY DEF HitboxPackets, BoxTypes, HitboxTypeOK
<1>5. r \in Seq(HitboxPackets)
      /\ \A i \in 1..Len(r) : r[i].tag = "hitbox" /\ r[i] \notin FrameBegins
  BY <1>3, ReportPackets
<1>6. s_hitboxes_this_frame' \subseteq s_hitboxes_this_frame \cup hs
  BY <1>1, <1>3, EnterKeeps
<1>7. \A h \in hs : WorldOf[h] = world
  BY <1>1
<1>8. ASSUME cleared, NEW h \in s_hitboxes_this_frame, WorldOf[h] = world
      PROVE  KnownIn(stream, page, h)
  BY <1>2, <1>8 DEF BoxesTold
<1> HIDE DEF hs, p, r
<1>9. q \in Seq(HitboxPackets)
  BY <1>1, <1>5, BoxQueue
<1>10. ASSUME cleared, NEW h \in hs PROVE KnownIn(q, page, h)
  <2>1. h \in s_hitboxes_this_frame => KnownIn(stream, page, h)
    BY <1>7, <1>8, <1>10
  <2>2. KnownIn(stream \o Report(hs), page, h)
    BY <1>1, <1>3, <1>10, <2>1, ReportTells
  <2> QED BY <2>2 DEF r
<1>11. ASSUME cleared, NEW h \in s_hitboxes_this_frame, WorldOf[h] = world
       PROVE  KnownIn(q, page, h)
  <2>1. KnownIn(stream, page, h)
    BY <1>8, <1>11
  <2> QED BY <1>1, <1>5, <2>1, KnownAppend
<1>12. Collisions(q, page)
  <2>1. Collisions(stream, page)
    BY <1>2
  <2>2. \A i \in 1..Len(r) : r[i].tag # "collisi"
    BY <1>5
  <2> QED BY <1>1, <1>5, <2>1, <2>2, CollisionsConcat
<1>13. Queue' = Append(q, p) /\ Queue' = q \o t
  <2>1. stream \o (r \o <<p>>) = Append(stream \o r, p)
    BY <1>1, <1>4, <1>5, QueueEnds
  <2>2. Queue' = Append(q, p)
    BY <1>1, <1>2, <2>1 DEF Queue
  <2> HIDE DEF q
  <2>3. q \o <<p>> = Append(q, p)
    BY <1>4, <1>9, QueueShort
  <2> QED BY <2>2, <2>3
<1> HIDE DEF q
<1>14. BoxesTold'
  <2> SUFFICES ASSUME cleared', NEW h \in s_hitboxes_this_frame', WorldOf[h] = world'
               PROVE  KnownIn(Queue', page', h)
    BY DEF BoxesTold
  <2>1. KnownIn(q, page, h)
    BY <1>1, <1>6, <1>10, <1>11
  <2>2. p \notin FrameBegins
    BY <1>4 DEF FrameBegins
  <2>3. KnownIn(Append(q, p), page, h)
    BY <1>4, <1>9, <2>1, <2>2, KnownAppend
  <2> QED BY <1>1, <1>13, <2>3
<1>15. Collisions(Queue', page')
  <2>1. t \in Seq(HitboxPackets) /\ Len(t) = 1 /\ t[1] = p
    BY <1>4, OnePacket
  <2> HIDE DEF t
  <2>2. Before(t, 1) \in Seq(HitboxPackets) /\ Len(Before(t, 1)) = 0
    BY <2>1, BeforePositions
  <2>3. Before(t, 1) = <<>>
    BY <2>2
  <2>4. q \o Before(t, 1) = q
    BY <1>9, <2>3
  <2>5. ASSUME NEW i \in 1..Len(t), t[i].tag = "collisi", t[i].cleared
        PROVE  /\ KnownIn(q \o Before(t, i), page, t[i].hb1)
               /\ KnownIn(q \o Before(t, i), page, t[i].hb2)
    <3>1. i = 1 /\ t[i] = p /\ cleared
      BY <1>4, <2>1, <2>5
    <3> QED BY <1>4, <1>10, <2>4, <3>1
  <2>6. Collisions(q \o t, page)
    BY <1>9, <1>12, <2>1, <2>5, CollisionsConcat
  <2> QED BY <1>1, <1>13, <2>6
<1> QED BY <1>14, <1>15

(* Hitboxes that are known stay so.                                          *)
LEMMA BoxesToldStep ==
  ASSUME BoxInv, HitboxNext
  PROVE  BoxesTold' /\ Collisions(Queue', page') /\ ~page'.unknown
<1>1. /\ stream \in Seq(HitboxPackets) /\ BoxWritable(todo) /\ Queue \in Seq(HitboxPackets)
      /\ page \in Pages /\ BoxTypes /\ BoxLosses /\ BoxFrames /\ BoxesTold
      /\ Collisions(Queue, page) /\ ~page.unknown
      /\ s_hitboxes_this_frame \subseteq Hitboxes
  BY BoxQueueSteps DEF BoxInv, BoxTypes, HitboxTypeOK, Pages, BoxWritable
<1>2. ASSUME UNCHANGED <<cleared, s_hitboxes_this_frame, world>>,
             \A h : KnownIn(Queue, page, h) => KnownIn(Queue', page', h)
      PROVE  BoxesTold'
  BY <1>1, <1>2 DEF BoxesTold
<1>3. CASE DeliverHitbox
  <2>1. Queue # <<>> /\ Queue' = Tail(Queue) /\ page' = ParseHitbox(page, Head(Queue))
        /\ UNCHANGED <<cleared, s_hitboxes_this_frame, world>>
    BY <1>1, <1>3, BoxQueueSteps DEF DeliverHitbox, gameVars
  <2> DEFINE q == Queue
             pg == page
  <2>2. q \in Seq(HitboxPackets) /\ q # <<>> /\ pg \in Pages /\ Collisions(q, pg) /\ ~pg.unknown
    BY <1>1, <2>1
  <2> HIDE DEF q, pg
  <2>3. ASSUME NEW h, KnownIn(q, pg, h) PROVE KnownIn(Tail(q), ParseHitbox(pg, Head(q)), h)
    BY <2>2, <2>3, KnownRead
  <2>4. Collisions(Tail(q), ParseHitbox(pg, Head(q))) /\ ~ParseHitbox(pg, Head(q)).unknown
    BY <2>2, CollisionsRead
  <2>5. \A h : KnownIn(Queue, page, h) => KnownIn(Queue', page', h)
    BY <2>1, <2>3 DEF q, pg
  <2>6. Collisions(Queue', page') /\ ~page'.unknown
    BY <2>1, <2>4 DEF q, pg
  <2> QED BY <1>2, <2>1, <2>5, <2>6
<1>4. CASE ReconnectHitbox
  <2>1. Queue' = Queue /\ page' = [page EXCEPT !.whole = FALSE]
        /\ UNCHANGED <<cleared, s_hitboxes_this_frame, world>>
    BY <1>4 DEF ReconnectHitbox, Disconnect, Queue, gameVars
  <2>2. page'.unknown = page.unknown
    BY <1>1, <2>1 DEF Pages
  <2>3. \A h : KnownIn(Queue, page, h) => KnownIn(Queue', page', h)
    BY <1>1, <2>1, KnownForget
  <2>4. Collisions(Queue', page')
    BY <1>1, <2>1, CollisionsForget
  <2> QED BY <1>1, <1>2, <2>1, <2>2, <2>3, <2>4
<1>5. CASE HitboxHoseStep
  <2>1. page' = page /\ ~page.whole /\ UNCHANGED <<cleared, s_hitboxes_this_frame, world>>
    BY <1>1, <1>5, BoxStreamDrops DEF HitboxHoseStep, gameVars
  <2>2. CASE Queue' = Queue
    BY <1>1, <1>2, <2>1, <2>2
  <2>3. ASSUME NEW m \in 0..Len(Queue), Queue' = SubSeq(Queue, m + 1, Len(Queue))
        PROVE  BoxesTold' /\ Collisions(Queue', page') /\ ~page'.unknown
    <3>1. \A h : KnownIn(Queue, page, h) => KnownIn(Queue', page', h)
      BY <1>1, <2>1, <2>3, KnownForget
    <3>2. Collisions(Queue', page')
      BY <1>1, <2>1, <2>3, CollisionsForget
    <3> QED BY <1>1, <1>2, <2>1, <3>1, <3>2
  <2> QED BY <1>1, <1>5, <2>2, <2>3, BoxQueueSteps
<1>6. CASE SetFlag
  <2>1. UNCHANGED <<Queue, page, cleared, s_hitboxes_this_frame, world>>
    BY <1>6 DEF SetFlag, hoseVars, gameVars, Queue
  <2> QED BY <1>1, <1>2, <2>1
<1>7. CASE HitboxFrameStart \/ WorldDone
  <2>1. UNCHANGED <<Queue, page>> /\ world' = NoWorld
    BY <1>7 DEF HitboxFrameStart, WorldDone, hoseVars, Queue
  <2>2. s_hitboxes_this_frame' \subseteq Hitboxes
    BY <1>1, <1>7 DEF HitboxFrameStart, WorldDone
  <2>3. \A h \in Hitboxes : WorldOf[h] # NoWorld
    BY HitboxAssumption DEF NoWorld
  <2> QED BY <1>1, <2>1, <2>2, <2>3 DEF BoxesTold
<1>8. CASE WriteHitbox
  <2>1. todo # <<>> /\ todo' = Tail(todo) /\ page' = page
        /\ UNCHANGED <<cleared, s_hitboxes_this_frame, world>>
        /\ (Publish(Head(todo)) \/ Lose)
    BY <1>8 DEF WriteHitbox, gameVars
  <2>2. CASE Publish(Head(todo))
    <3>1. Queue' = Queue
      BY <1>1, <2>1, <2>2, BoxQueueSteps
    <3> QED BY <1>1, <1>2, <2>1, <3>1
  <2>3. CASE Lose
    <3>1. BoxLosses' /\ BoxTypes' /\ lastOverrun' = TRUE
      BY <1>1, <2>3, BoxLossesStep, BoxTypesStep DEF Lose
    <3>2. Spoilt(stream', page.whole, FrameBegins, BoxOverruns)
      BY <2>1, <3>1 DEF BoxLosses
    <3>3. todo' \in Seq(HitboxPackets) /\ \A i \in 1..Len(todo') : todo'[i] \notin FrameBegins
      BY <1>1, <2>1, BoxWritableSteps DEF BoxWritable
    <3>4. stream' \in Seq(HitboxPackets)
      BY <3>1 DEF BoxTypes
    <3>5. Collisions(stream', page)
      <4>1. Collisions(stream \o todo, page) /\ todo \in Seq(HitboxPackets)
        BY <1>1 DEF Queue, BoxWritable
      <4>2. Collisions(stream, page)
        BY <1>1, <4>1, CollisionsPrefix
      <4>3. stream' = stream \/ stream' = Append(stream, Overrun)
        BY <2>3 DEF Lose
      <4>4. CASE stream' = Append(stream, Overrun)
        <5> DEFINE t == <<Overrun>>
        <5>1. Overrun \in HitboxPackets /\ Overrun.tag = "overrun"
          BY BoxKinds
        <5>2. t \in Seq(HitboxPackets) /\ Len(t) = 1 /\ t[1] = Overrun
          BY <5>1, OnePacket
        <5>3. stream' = stream \o t
          BY <1>1, <4>4, <5>1, QueueShort
        <5> HIDE DEF t
        <5>4. \A i \in 1..Len(t) : t[i].tag # "collisi"
          BY <5>1, <5>2
        <5>5. Collisions(stream \o t, page)
          BY <1>1, <4>2, <5>2, <5>4, CollisionsConcat
        <5> QED BY <5>3, <5>5
      <4> QED BY <4>2, <4>3, <4>4
    <3> DEFINE q == stream'
               z == todo'
    <3> HIDE DEF q, z
    <3>6. Collisions(q \o z, page)
      BY <3>2, <3>3, <3>4, <3>5, CollisionsSpoilt DEF q, z
    <3>7. Spoilt(q, page.whole, FrameBegins, BoxOverruns)
          /\ q \in Seq(HitboxPackets) /\ z \in Seq(HitboxPackets)
          /\ \A i \in 1..Len(z) : z[i] \notin FrameBegins
      BY <3>2, <3>3, <3>4 DEF q, z
    <3>8. \A h : KnownIn(q, page, h)
      BY <3>7, KnownAppend
    <3>9. \A h : KnownIn(q \o z, page, h)
      BY <3>7, <3>8, KnownAppend
    <3>10. Queue' = q \o z
      BY DEF Queue, q, z
    <3> QED BY <1>1, <1>2, <2>1, <3>6, <3>9, <3>10
  <2> QED BY <2>1, <2>2, <2>3
<1>9. ASSUME NEW w \in Worlds, DoManyCollisions(w)
      PROVE  BoxesTold' /\ Collisions(Queue', page') /\ ~page'.unknown
  BY <1>1, <1>9, DoManyTells DEF DoManyCollisions
<1>10. ASSUME NEW h1 \in Hitboxes, NEW h2 \in Hitboxes, HitboxCollide(h1, h2)
       PROVE  BoxesTold' /\ Collisions(Queue', page') /\ ~page'.unknown
  BY <1>1, <1>10, CollideTells DEF HitboxCollide
<1> QED
  BY <1>3, <1>4, <1>5, <1>6, <1>7, <1>8, <1>9, <1>10 DEF HitboxNext

(* Initially no hitbox is reported.                                          *)
LEMMA BoxInvInit == HitboxInit => BoxInv
<1> SUFFICES ASSUME HitboxInit PROVE BoxInv
  OBVIOUS
<1>1. /\ stream = <<>> /\ todo = <<>> /\ lastOverrun = FALSE
      /\ conn \in {"closed", "current"} /\ handOvers = 0
      /\ s_hitboxes_this_frame = {} /\ cleared = FALSE /\ toRun = {} /\ world = NoWorld
      /\ on = FALSE /\ page = [hitboxes |-> {}, whole |-> FALSE, unknown |-> FALSE]
  BY DEF HitboxInit, InitHose
<1>2. Room \in Nat /\ MaxHandOvers \in Nat
  BY LossyHoseAssumption DEF LossyHoseAssumption
<1>3. /\ stream \in Seq(HitboxPackets) /\ todo \in Seq(HitboxPackets) /\ Len(stream) = 0
      /\ Len(todo) = 0 /\ Queue = <<>> /\ Len(Queue) = 0 /\ DOMAIN Queue = {}
  BY <1>1 DEF Queue
<1>4. HoseOK
  <2>1. Len(stream) <= Room /\ handOvers \in 0..MaxHandOvers
    BY <1>1, <1>2
  <2>2. lastOverrun \in BOOLEAN
    BY <1>1
  <2> QED BY <1>1, <2>1, <2>2 DEF HoseOK
<1>5. Cardinality(s_hitboxes_this_frame) <= Slots
  <2>1. Cardinality({}) = 0
    BY FS_EmptySet
  <2> QED BY <1>1, <2>1, HitboxAssumption
<1>6. page \in Pages /\ ~page.whole /\ ~page.unknown
  BY <1>1 DEF Pages
<1>7. cleared \in BOOLEAN /\ on \in BOOLEAN
  BY <1>1
<1>8. HitboxTypeOK
  BY <1>1, <1>3, <1>4, <1>5, <1>6, <1>7 DEF HitboxTypeOK, Pages
<1>9. BoxTypes
  BY <1>3, <1>8 DEF BoxTypes
<1>10. BoxLosses /\ BoxFrames /\ BoxesTold
  BY <1>1, <1>6 DEF BoxLosses, BoxFrames, BoxesTold
<1>11. Collisions(Queue, page)
  BY <1>3 DEF Collisions
<1> QED BY <1>6, <1>9, <1>10, <1>11 DEF BoxInv

LEMMA BoxInvStep == BoxInv /\ [HitboxNext]_hitboxVars => BoxInv'
<1>1. BoxInv /\ HitboxNext => BoxInv'
  BY BoxTypesStep, BoxLossesStep, BoxFramesStep, BoxesToldStep DEF BoxInv
<1>2. BoxInv /\ UNCHANGED hitboxVars => BoxInv'
  <2> SUFFICES ASSUME BoxInv, UNCHANGED hitboxVars PROVE BoxInv'
    OBVIOUS
  <2>1. UNCHANGED <<stream, lastOverrun, conn, handOvers, s_hitboxes_this_frame, cleared,
                    toRun, world, todo, on, page>>
    BY DEF hitboxVars, hoseVars, gameVars
  <2>2. Queue' = Queue
    BY <2>1 DEF Queue
  <2>3. BoxTypes' /\ BoxLosses' /\ BoxFrames'
    BY <2>1, <2>2 DEF BoxInv, BoxTypes, HitboxTypeOK, HoseOK, BoxLosses, BoxFrames
  <2>4. BoxesTold' /\ Collisions(Queue', page') /\ ~page'.unknown
    BY <2>1, <2>2 DEF BoxInv, BoxesTold
  <2> QED BY <2>3, <2>4 DEF BoxInv
<1> QED BY <1>1, <1>2

(* In a frame that began with the flag set, a client that has seen a frame   *)
(* begin on its connection and no overrun since knows both hitboxes of every *)
(* collision (main.cpp's hitbox hooks, client.html:1840): for every order of *)
(* the worlds, every capacity of the table, and whenever the flag, the       *)
(* connection or the room for a packet changes.                              *)
THEOREM ReporterHitboxesSound == HitboxSpec => []HitboxesSound
<1>1. BoxInv => HitboxesSound
  BY DEF BoxInv, BoxTypes, HitboxesSound, CollisionsResolve
<1> QED BY <1>1, BoxInvInit, BoxInvStep, PTL DEF HitboxSpec
==============================================================================
