----------------------- MODULE SharedTranscriptProofs -----------------------
(***************************************************************************)
(* Proofs about TranscriptRepair, for every transcript, about              *)
(* SharedTranscript, for any turns, calls and length, and about            *)
(* StreamSanitizer, for any text, chunks and limits.                       *)
(***************************************************************************)
EXTENDS SharedTranscript, StreamSanitizer, TLAPS, FiniteSetTheorems, WellFoundedInduction

(* A non-empty set of naturals has a least element.                        *)
LEMMA LeastElement ==
  ASSUME NEW S, S \subseteq Nat, S # {}
  PROVE  \E x \in S : \A y \in S : x =< y
<1>1. \E x \in S : \A y \in S : ~ (<<y, x>> \in OpToRel(<, Nat))
  BY WFMin, NatLessThanWellFounded
<1>2. PICK x \in S : \A y \in S : ~ (<<y, x>> \in OpToRel(<, Nat))
  BY <1>1
<1>3. \A y \in S : ~ (y < x)
  BY <1>2 DEF OpToRel
<1>4. QED
  BY <1>3

(* Induction up to N, over a set.                                          *)
LEMMA UpTo ==
  ASSUME NEW N \in Nat, NEW P, 0 \in P, \A n \in 1 .. N : n - 1 \in P => n \in P
  PROVE  0 .. N \subseteq P
<1> DEFINE Rest == (0 .. N) \ P
<1> SUFFICES ASSUME Rest # {} PROVE FALSE
  OBVIOUS
<1>1. Rest \subseteq Nat
  OBVIOUS
<1>2. \E x \in Rest : \A y \in Rest : x =< y
  <2> HIDE DEF Rest
  <2>1. QED
    BY <1>1, LeastElement
<1>3. PICK x \in Rest : \A y \in Rest : x =< y
  BY <1>2
<1>4. x \in 1 .. N /\ x - 1 \in 0 .. N /\ ~ (x =< x - 1)
  BY <1>3
<1>5. x - 1 \in P
  BY <1>3, <1>4
<1>6. QED
  BY <1>3, <1>4, <1>5

(* Steps that stay in a set can be iterated.                               *)
Iterated(g, k, base, step) ==
  g[0] = base /\ \A n \in 1 .. k : g[n] = step[n][g[n - 1]]

LEMMA Iterates ==
  ASSUME NEW N \in Nat, NEW S, NEW base \in S, NEW step \in [1 .. N -> [S -> S]]
  PROVE  \E g \in [0 .. N -> S] : Iterated(g, N, base, step)
<1> DEFINE P == {k \in 0 .. N : \E g \in [0 .. k -> S] : Iterated(g, k, base, step)}
<1>1. 0 \in P
  <2>1. [n \in 0 .. 0 |-> base] \in [0 .. 0 -> S]
    OBVIOUS
  <2>2. Iterated([n \in 0 .. 0 |-> base], 0, base, step)
    BY DEF Iterated
  <2>3. QED
    BY <2>1, <2>2
<1>2. ASSUME NEW k \in 1 .. N, k - 1 \in P PROVE k \in P
  <2>1. PICK g \in [0 .. k - 1 -> S] : Iterated(g, k - 1, base, step)
    BY <1>2
  <2> DEFINE h == [n \in 0 .. k |-> IF n = k THEN step[k][g[k - 1]] ELSE g[n]]
  <2>2. step[k][g[k - 1]] \in S
    OBVIOUS
  <2>3. h \in [0 .. k -> S]
    BY <2>2
  <2>4. ASSUME NEW n \in 1 .. k PROVE h[n] = step[n][h[n - 1]]
    <3>1. h[n - 1] = g[n - 1]
      OBVIOUS
    <3>2. CASE n = k
      BY <3>1, <3>2
    <3>3. CASE n # k
      <4>1. n \in 1 .. k - 1 /\ h[n] = g[n]
        BY <3>3
      <4>2. QED
        BY <2>1, <3>1, <4>1 DEF Iterated
    <3>4. QED
      BY <3>2, <3>3
  <2>5. h[0] = base
    BY <2>1 DEF Iterated
  <2> HIDE DEF h
  <2>6. Iterated(h, k, base, step)
    BY <2>4, <2>5 DEF Iterated
  <2>7. \E f \in [0 .. k -> S] : Iterated(f, k, base, step)
    BY <2>3, <2>6
  <2>8. k \in 0 .. N
    OBVIOUS
  <2>9. QED
    BY <2>7, <2>8
<1>3. 0 .. N \subseteq P
  <2> HIDE DEF P
  <2>1. QED
    BY <1>1, <1>2, UpTo
<1>4. N \in P
  BY <1>3
<1>5. QED
  BY <1>4

(* A set that is closed under the steps holds what they lead to.           *)
LEMMA IteratedTyped ==
  ASSUME NEW N \in Nat, NEW S, NEW h, h[0] \in S,
         \A n \in 1 .. N : h[n - 1] \in S => h[n] \in S
  PROVE  \A n \in 0 .. N : h[n] \in S
<1> DEFINE P == {n \in 0 .. N : h[n] \in S}
<1>1. 0 \in P
  OBVIOUS
<1>2. ASSUME NEW n \in 1 .. N, n - 1 \in P PROVE n \in P
  BY <1>2
<1>3. 0 .. N \subseteq P
  <2> HIDE DEF P
  <2>1. QED
    BY <1>1, <1>2, UpTo
<1>4. QED
  BY <1>3

(* The markers of a set of calls: one of each.                             *)
LEMMA Markers ==
  ASSUME NEW C \in SUBSET Calls
  PROVE  /\ MarkersFor(C) \in Seq(Message)
         /\ \A i \in 1 .. Len(MarkersFor(C)) : \E c \in C : MarkersFor(C)[i] = Interrupted(c)
         /\ \A c \in C : \E i \in 1 .. Len(MarkersFor(C)) : MarkersFor(C)[i] = Interrupted(c)
         /\ \A i, j \in 1 .. Len(MarkersFor(C)) : MarkersFor(C)[i] = MarkersFor(C)[j] => i = j
         /\ C = {} => MarkersFor(C) = <<>>
<1> DEFINE S == {Interrupted(c) : c \in C}
           f == [c \in C |-> Interrupted(c)]
<1>1. IsFiniteSet(S)
  <2>1. IsFiniteSet(C)
    BY CallsAssumption, FS_Subset
  <2>2. f \in Surjection(C, S)
    BY DEF Surjection
  <2>3. QED
    BY <2>1, <2>2, FS_Surjection
<1>2. Cardinality(S) \in Nat /\ ExistsBijection(1 .. Cardinality(S), S)
  BY <1>1, FS_CardinalityType
<1>3. \E g \in [1 .. Cardinality(S) -> S] : IsInjective(g)
  BY <1>2 DEF ExistsBijection, Bijection, Injection
<1> DEFINE K == MarkersFor(C)
<1>4. K \in [1 .. Cardinality(S) -> S] /\ IsInjective(K)
  BY <1>3 DEF MarkersFor, SetToSeq
<1>5. K \in Injection(1 .. Cardinality(S), S)
  BY <1>4 DEF Injection
<1>6. Cardinality(1 .. Cardinality(S)) = Cardinality(S)
  BY <1>2, FS_Interval
<1>7. K \in Surjection(1 .. Cardinality(S), S)
  BY <1>1, <1>5, <1>6, FS_Injection
<1>8. S \subseteq Message
  <2> SUFFICES ASSUME NEW c \in C PROVE Interrupted(c) \in Message
    OBVIOUS
  <2>1. QED
    BY DEF Interrupted, Message
<1>9. C = {} => Cardinality(S) = 0
  BY FS_EmptySet
<1> HIDE DEF K
<1>10. \A s \in S : \E i \in 1 .. Cardinality(S) : K[i] = s
  BY <1>7 DEF Surjection
<1>11. \A i, j \in 1 .. Cardinality(S) : K[i] = K[j] => i = j
  BY <1>4 DEF IsInjective
<1>12. K \in Seq(Message) /\ Len(K) = Cardinality(S)
  <2>1. K \in [1 .. Cardinality(S) -> Message]
    BY <1>4, <1>8
  <2> HIDE DEF S
  <2>2. QED
    BY <1>2, <2>1
<1>13. C = {} => K = <<>>
  BY <1>9, <1>12
<1>14. \A i \in 1 .. Cardinality(S) : K[i] \in S
  BY <1>4
<1>15. QED
  BY <1>10, <1>11, <1>12, <1>13, <1>14 DEF K

-----------------------------------------------------------------------------
(* A transcript, as SharedTranscript has it.                               *)
Transcript(m) == m \in Seq(Message) /\ \A i \in 1 .. Len(m) : IsMessage(m[i])

\* The recursive functions of TranscriptRepair exist and satisfy their equations.
LEMMA SanitizedUnfolds ==
  ASSUME NEW m \in Seq(Message)
  PROVE  /\ Sanitized(m) \in [0 .. Len(m) -> Seq(Message)]
         /\ Sanitized(m)[0] = <<>>
         /\ \A n \in 1 .. Len(m) :
              Sanitized(m)[n] = Sanitized(m)[n - 1] \o <<m[n]>> \o MarkersFor(Unanswered(m, n))
<1> DEFINE N == Len(m)
           Next1(s, n) == s \o <<m[n]>> \o MarkersFor(Unanswered(m, n))
           step == [n \in 1 .. N |-> [s \in Seq(Message) |-> Next1(s, n)]]
           h == Sanitized(m)
<1>1. N \in Nat /\ \A n \in 1 .. N : m[n] \in Message
  OBVIOUS
<1>2. \A n \in 1 .. N : MarkersFor(Unanswered(m, n)) \in Seq(Message)
  <2> SUFFICES ASSUME NEW n \in 1 .. N PROVE Unanswered(m, n) \in SUBSET Calls
    BY Markers
  <2>1. m[n].ids \in SUBSET Calls
    BY <1>1 DEF Message
  <2>2. QED
    BY <2>1 DEF Unanswered
<1>3. \A n \in 1 .. N, s \in Seq(Message) : Next1(s, n) \in Seq(Message)
  BY <1>1, <1>2
<1>4. <<>> \in Seq(Message)
  OBVIOUS
<1> HIDE DEF N, Next1
<1>5. step \in [1 .. N -> [Seq(Message) -> Seq(Message)]]
  BY <1>3
<1>6. \E g \in [0 .. N -> Seq(Message)] : Iterated(g, N, <<>>, step)
  <2> HIDE DEF step
  <2>1. QED
    BY <1>1, <1>4, <1>5, Iterates
<1>7. PICK g \in [0 .. N -> Seq(Message)] : Iterated(g, N, <<>>, step)
  BY <1>6
<1>8. g[0] = <<>> /\ \A n \in 1 .. N : g[n] = Next1(g[n - 1], n)
  <2> SUFFICES ASSUME NEW n \in 1 .. N PROVE g[n] = Next1(g[n - 1], n)
    BY <1>7 DEF Iterated
  <2>1. g[n - 1] \in Seq(Message)
    BY <1>1
  <2>2. QED
    BY <1>7, <2>1 DEF Iterated
<1>9. g = [n \in 0 .. N |-> IF n = 0 THEN <<>> ELSE Next1(g[n - 1], n)]
  BY <1>1, <1>8
<1>10. h = [n \in 0 .. N |-> IF n = 0 THEN <<>> ELSE Next1(h[n - 1], n)]
  BY <1>9 DEF Sanitized, N, Next1
<1> HIDE DEF h
<1>11. h[0] = <<>> /\ \A n \in 1 .. N : h[n] = Next1(h[n - 1], n)
  BY <1>1, <1>10
<1>12. \A n \in 0 .. N : h[n] \in Seq(Message)
  BY <1>1, <1>3, <1>4, <1>11, IteratedTyped
<1>13. h \in [0 .. N -> Seq(Message)]
  BY <1>10, <1>12
<1>14. QED
  BY <1>11, <1>13 DEF h, N, Next1

(* What a scan keeps: the calls open and the messages taken over.          *)
Scans == [open : SUBSET Calls, out : Seq(Message)]

(* A scan stays among the scans.                                           *)
LEMMA ScanTyped ==
  ASSUME NEW acc \in Scans, NEW e \in Message
  PROVE  Scan(acc, e) \in Scans
<1>1. e.role \in {"user", "assistant", "tool"} /\ e.ids \subseteq Calls
  BY DEF Message
<1>2. acc.open \subseteq Calls /\ acc.out \in Seq(Message) /\ Append(acc.out, e) \in Seq(Message)
  BY DEF Scans
<1>3. \A o \in SUBSET Calls, s \in Seq(Message) : [open |-> o, out |-> s] \in Scans
  BY DEF Scans
<1>4. CASE e.role = "assistant"
  <2>1. Scan(acc, e) = [open |-> acc.open \cup e.ids, out |-> Append(acc.out, e)]
    BY <1>4 DEF Scan
  <2>2. QED
    BY <1>1, <1>2, <1>3, <2>1
<1>5. CASE e.role = "tool" /\ e.ids \subseteq acc.open
  <2>1. Scan(acc, e) = [open |-> acc.open \ e.ids, out |-> Append(acc.out, e)]
    BY <1>5 DEF Scan, OpenAfter
  <2>2. QED
    BY <1>1, <1>2, <1>3, <2>1
<1>6. CASE e.role = "tool" /\ ~ (e.ids \subseteq acc.open)
  BY <1>6 DEF Scan
<1>7. CASE e.role = "user"
  <2>1. Scan(acc, e) = [open |-> acc.open, out |-> Append(acc.out, e)]
    BY <1>7 DEF Scan
  <2>2. QED
    BY <1>1, <1>2, <1>3, <2>1
<1>8. QED
  BY <1>1, <1>4, <1>5, <1>6, <1>7

LEMMA ScannedUnfolds ==
  ASSUME NEW m \in Seq(Message)
  PROVE  /\ Scanned(m) \in [0 .. Len(m) -> Scans]
         /\ Scanned(m)[0] = [open |-> {}, out |-> <<>>]
         /\ \A n \in 1 .. Len(m) : Scanned(m)[n] = Scan(Scanned(m)[n - 1], m[n])
<1> DEFINE N == Len(m)
           base == [open |-> {}, out |-> <<>>]
           step == [n \in 1 .. N |-> [a \in Scans |-> Scan(a, m[n])]]
           h == Scanned(m)
<1>1. N \in Nat /\ \A n \in 1 .. N : m[n] \in Message
  OBVIOUS
<1>2. base \in Scans
  BY DEF Scans
<1>3. \A n \in 1 .. N, a \in Scans : Scan(a, m[n]) \in Scans
  BY <1>1, ScanTyped
<1> HIDE DEF N, base
<1>5. step \in [1 .. N -> [Scans -> Scans]]
  BY <1>3
<1>6. \E g \in [0 .. N -> Scans] : Iterated(g, N, base, step)
  <2> HIDE DEF step
  <2>1. QED
    BY <1>1, <1>2, <1>5, Iterates
<1>7. PICK g \in [0 .. N -> Scans] : Iterated(g, N, base, step)
  BY <1>6
<1>8. g[0] = base /\ \A n \in 1 .. N : g[n] = Scan(g[n - 1], m[n])
  <2> SUFFICES ASSUME NEW n \in 1 .. N PROVE g[n] = Scan(g[n - 1], m[n])
    BY <1>7 DEF Iterated
  <2>1. g[n - 1] \in Scans
    BY <1>1
  <2>2. QED
    BY <1>7, <2>1 DEF Iterated
<1>9. g = [n \in 0 .. N |-> IF n = 0 THEN base ELSE Scan(g[n - 1], m[n])]
  BY <1>1, <1>8
<1>10. h = [n \in 0 .. N |-> IF n = 0 THEN base ELSE Scan(h[n - 1], m[n])]
  BY <1>9 DEF Scanned, N, base
<1> HIDE DEF h
<1>11. h[0] = base /\ \A n \in 1 .. N : h[n] = Scan(h[n - 1], m[n])
  BY <1>1, <1>10
<1>12. \A n \in 0 .. N : h[n] \in Scans
  BY <1>1, <1>2, <1>3, <1>11, IteratedTyped
<1>13. h \in [0 .. N -> Scans]
  BY <1>10, <1>12
<1>14. QED
  BY <1>11, <1>13 DEF h, N, base

LEMMA InPlaceUnfolds ==
  ASSUME NEW m \in Seq(Message)
  PROVE  /\ InPlace(m)[0] = <<>>
         /\ \A n \in 1 .. Len(m) :
              InPlace(m)[n] =
                IF Kept(m, n)
                THEN InPlace(m)[n - 1] \o <<m[n]>> \o MarkersFor(Unresolved(m, n))
                ELSE InPlace(m)[n - 1]
<1> DEFINE N == Len(m)
           Next1(s, n) == IF Kept(m, n) THEN s \o <<m[n]>> \o MarkersFor(Unresolved(m, n)) ELSE s
           step == [n \in 1 .. N |-> [s \in Seq(Message) |-> Next1(s, n)]]
           h == InPlace(m)
<1>1. N \in Nat /\ \A n \in 1 .. N : m[n] \in Message
  OBVIOUS
<1>2. \A n \in 1 .. N : MarkersFor(Unresolved(m, n)) \in Seq(Message)
  <2> SUFFICES ASSUME NEW n \in 1 .. N PROVE Unresolved(m, n) \in SUBSET Calls
    BY Markers
  <2>1. m[n].ids \in SUBSET Calls
    BY <1>1 DEF Message
  <2>2. QED
    BY <2>1 DEF Unresolved
<1>3. \A n \in 1 .. N, s \in Seq(Message) : Next1(s, n) \in Seq(Message)
  BY <1>1, <1>2
<1>4. <<>> \in Seq(Message)
  OBVIOUS
<1> HIDE DEF N, Next1
<1>5. step \in [1 .. N -> [Seq(Message) -> Seq(Message)]]
  BY <1>3
<1>6. \E g \in [0 .. N -> Seq(Message)] : Iterated(g, N, <<>>, step)
  <2> HIDE DEF step
  <2>1. QED
    BY <1>1, <1>4, <1>5, Iterates
<1>7. PICK g \in [0 .. N -> Seq(Message)] : Iterated(g, N, <<>>, step)
  BY <1>6
<1>8. g[0] = <<>> /\ \A n \in 1 .. N : g[n] = Next1(g[n - 1], n)
  <2> SUFFICES ASSUME NEW n \in 1 .. N PROVE g[n] = Next1(g[n - 1], n)
    BY <1>7 DEF Iterated
  <2>1. g[n - 1] \in Seq(Message)
    BY <1>1
  <2>2. QED
    BY <1>7, <2>1 DEF Iterated
<1>9. g = [n \in 0 .. N |-> IF n = 0 THEN <<>> ELSE Next1(g[n - 1], n)]
  BY <1>1, <1>8
<1>10. h = [n \in 0 .. N |-> IF n = 0 THEN <<>> ELSE Next1(h[n - 1], n)]
  BY <1>9 DEF InPlace, N, Next1
<1> HIDE DEF h
<1>11. h[0] = <<>> /\ \A n \in 1 .. N : h[n] = Next1(h[n - 1], n)
  BY <1>1, <1>10
<1>12. QED
  BY <1>11 DEF h, N, Next1

-----------------------------------------------------------------------------
(* One message put behind a transcript, and the markers behind it.         *)
Grown(r, s, e, C) ==
  /\ r \in Seq(Message) /\ s \in Seq(Message)
  /\ Len(r) \in Nat /\ Len(s) \in Nat /\ Len(r) >= Len(s) + 1
  /\ C = {} => Len(r) = Len(s) + 1
  /\ \A i \in 1 .. Len(s) : r[i] = s[i]
  /\ r[Len(s) + 1] = e
  /\ \A i \in Len(s) + 2 .. Len(r) : \E c \in C : r[i] = Interrupted(c)
  /\ \A c \in C : \E i \in Len(s) + 2 .. Len(r) : r[i] = Interrupted(c)

(* A message and the markers behind it are such a growth.                  *)
LEMMA Grows ==
  ASSUME NEW s \in Seq(Message), NEW e \in Message, NEW C \in SUBSET Calls
  PROVE  Grown(s \o <<e>> \o MarkersFor(C), s, e, C)
<1> DEFINE K == MarkersFor(C)
<1>1. K \in Seq(Message) /\ (C = {} => K = <<>>)
  BY Markers
<1> DEFINE r == s \o <<e>> \o K
<1>2. r = s \o <<e>> \o K
  OBVIOUS
<1>3. \A i \in 1 .. Len(K) : \E c \in C : K[i] = Interrupted(c)
  BY Markers
<1>4. \A c \in C : \E i \in 1 .. Len(K) : K[i] = Interrupted(c)
  BY Markers
<1> HIDE DEF K
<1>5. r \in Seq(Message) /\ Len(r) = Len(s) + 1 + Len(K)
  BY <1>1, <1>2
<1>6. Len(r) \in Nat /\ Len(s) \in Nat /\ Len(K) \in Nat
  BY <1>1, <1>5
<1>7. \A i \in 1 .. Len(s) : r[i] = s[i]
  BY <1>1, <1>2
<1>8. r[Len(s) + 1] = e
  BY <1>1, <1>2
<1>9. \A i \in 1 .. Len(K) : r[Len(s) + 1 + i] = K[i]
  BY <1>1, <1>2
<1> HIDE DEF r
<1>10. ASSUME NEW i \in Len(s) + 2 .. Len(r) PROVE \E c \in C : r[i] = Interrupted(c)
  <2>1. i - Len(s) - 1 \in 1 .. Len(K) /\ i = Len(s) + 1 + (i - Len(s) - 1)
    BY <1>5, <1>6
  <2>2. r[i] = K[i - Len(s) - 1]
    BY <1>9, <2>1
  <2>3. QED
    BY <1>3, <2>1, <2>2
<1>11. ASSUME NEW c \in C PROVE \E i \in Len(s) + 2 .. Len(r) : r[i] = Interrupted(c)
  <2>1. PICK i \in 1 .. Len(K) : K[i] = Interrupted(c)
    BY <1>4
  <2>2. Len(s) + 1 + i \in Len(s) + 2 .. Len(r)
    BY <1>5, <1>6
  <2>3. QED
    BY <1>9, <2>1, <2>2
<1>12. Len(r) >= Len(s) + 1 /\ (C = {} => Len(r) = Len(s) + 1)
  BY <1>1, <1>5, <1>6
<1>14. Grown(r, s, e, C)
  BY <1>5, <1>6, <1>7, <1>8, <1>10, <1>11, <1>12 DEF Grown
<1>15. QED
  BY <1>14 DEF r, K

(* A result of c is directly behind message i ...                          *)
AnsweredBehind(s, i, c) ==
  \E j \in 1 .. Len(s) : Follows(s, j, i) /\ s[j].ids = {c}

(* ... or is yet to come: it is directly behind message n in the original. *)
Waiting(m, n, s, i, c) ==
  /\ \A k \in i + 1 .. Len(s) : s[k].role = "tool"
  /\ \E j \in n + 1 .. Len(m) : Follows(m, j, n) /\ m[j].ids = {c}

(* Every call has a result directly behind it.                             *)
AllAnswered(s) ==
  \A i \in 1 .. Len(s) : s[i].role = "assistant" =>
    \A c \in s[i].ids : AnsweredBehind(s, i, c)

(* What the first n messages have been made into.                          *)
SanitizeInv(m, n, s) ==
  /\ Transcript(s)
  /\ \A i \in 1 .. Len(s) : s[i].role = "assistant" =>
       \A c \in s[i].ids : AnsweredBehind(s, i, c) \/ Waiting(m, n, s, i, c)

(* A marker is a result of its call.                                       *)
LEMMA MarkerShape ==
  ASSUME NEW c \in Calls
  PROVE  /\ IsMessage(Interrupted(c)) /\ Interrupted(c).role = "tool"
         /\ Interrupted(c).ids = {c} /\ Interrupted(c) \in Message
<1>1. Interrupted(c) \in Message
  BY DEF Interrupted, Message
<1>2. QED
  BY <1>1 DEF Interrupted, IsMessage

(* Only a reply has unanswered calls, and they are calls of its own.       *)
LEMMA UnansweredCalls ==
  ASSUME NEW m \in Seq(Message), NEW n \in 1 .. Len(m)
  PROVE  /\ Unanswered(m, n) \in SUBSET Calls
         /\ Unanswered(m, n) \subseteq m[n].ids
         /\ m[n].role # "assistant" => Unanswered(m, n) = {}
         /\ m[n] \in Message /\ m[n].ids \subseteq Calls
<1>1. m[n] \in Message
  OBVIOUS
<1>2. QED
  BY <1>1 DEF Unanswered, Message

(* One message and its markers keep that.                                  *)
LEMMA SanitizeStep ==
  ASSUME NEW m, Transcript(m), NEW n \in 1 .. Len(m), NEW s, SanitizeInv(m, n - 1, s),
         NEW r, Grown(r, s, m[n], Unanswered(m, n))
  PROVE  SanitizeInv(m, n, r)
<1>0. m \in Seq(Message)
  BY DEF Transcript
<1> DEFINE L == Len(s)
           C == Unanswered(m, n)
<1>1. /\ C \in SUBSET Calls /\ m[n] \in Message /\ C \subseteq m[n].ids
      /\ m[n].ids \subseteq Calls /\ (m[n].role # "assistant" => C = {})
  BY <1>0, UnansweredCalls
<1>a. /\ r \in Seq(Message)
      /\ Len(r) \in Nat /\ L \in Nat /\ Len(r) >= L + 1
      /\ C = {} => Len(r) = L + 1
      /\ \A i \in 1 .. L : r[i] = s[i]
      /\ r[L + 1] = m[n]
  BY DEF Grown
<1>b. \A i \in L + 2 .. Len(r) : \E c \in C : r[i] = Interrupted(c)
  BY DEF Grown
<1>c. \A c \in C : \E i \in L + 2 .. Len(r) : r[i] = Interrupted(c)
  BY DEF Grown
<1> HIDE DEF L, C
<1>3. IsMessage(m[n]) /\ \A i \in 1 .. L : IsMessage(s[i])
  BY DEF Transcript, SanitizeInv, L
<1>4. \A i \in L + 2 .. Len(r) : IsMessage(r[i]) /\ r[i].role = "tool"
  BY <1>1, <1>b, MarkerShape
<1>5. Transcript(r)
  <2> SUFFICES ASSUME NEW i \in 1 .. Len(r) PROVE IsMessage(r[i])
    BY <1>a DEF Transcript
  <2>1. i \in 1 .. L \/ i = L + 1 \/ i \in L + 2 .. Len(r)
    BY <1>a
  <2>2. QED
    BY <1>a, <1>3, <1>4, <2>1
<1>6. ASSUME NEW i \in 1 .. L, s[i].role = "assistant", NEW c \in s[i].ids
      PROVE  AnsweredBehind(r, i, c) \/ Waiting(m, n, r, i, c)
  <2>1. CASE AnsweredBehind(s, i, c)
    <3>1. PICK j \in 1 .. L : Follows(s, j, i) /\ s[j].ids = {c}
      BY <2>1 DEF AnsweredBehind, L
    <3>2. j \in 1 .. Len(r) /\ r[j].ids = {c}
      BY <1>a, <3>1
    <3>3. Follows(r, j, i)
      BY <1>a, <3>1 DEF Follows
    <3>4. QED
      BY <3>2, <3>3 DEF AnsweredBehind
  <2>2. CASE Waiting(m, n - 1, s, i, c)
    <3>1. PICK j \in n .. Len(m) : Follows(m, j, n - 1) /\ m[j].ids = {c}
      BY <1>0, <2>2 DEF Waiting
    <3>2. m[n].role = "tool" /\ C = {} /\ Len(r) = L + 1
      BY <1>0, <1>1, <1>a, <3>1 DEF Follows
    <3>3. \A k \in i + 1 .. L : s[k].role = "tool"
      BY <2>2 DEF Waiting, L
    <3>4. \A k \in i + 1 .. L + 1 : r[k].role = "tool"
      <4> SUFFICES ASSUME NEW k \in i + 1 .. L + 1 PROVE r[k].role = "tool"
        OBVIOUS
      <4>1. k = L + 1 \/ (k \in i + 1 .. L /\ k \in 1 .. L)
        BY <1>a
      <4>2. QED
        BY <1>a, <3>2, <3>3, <4>1
    <3>5. CASE j = n
      <4>1. L + 1 \in 1 .. Len(r) /\ r[L + 1].ids = {c}
        BY <1>a, <3>1, <3>5
      <4>2. Follows(r, L + 1, i)
        BY <1>a, <3>4 DEF Follows
      <4>3. QED
        BY <4>1, <4>2 DEF AnsweredBehind
    <3>6. CASE j # n
      <4>1. j \in n + 1 .. Len(m) /\ Follows(m, j, n)
        BY <1>0, <3>1, <3>6 DEF Follows
      <4>2. QED
        BY <3>1, <3>2, <3>4, <4>1 DEF Waiting
    <3>7. QED
      BY <3>5, <3>6
  <2>3. QED
    BY <1>6, <2>1, <2>2 DEF SanitizeInv, L
<1>7. ASSUME m[n].role = "assistant", NEW c \in m[n].ids
      PROVE  AnsweredBehind(r, L + 1, c) \/ Waiting(m, n, r, L + 1, c)
  <2>1. CASE c \in C
    <3>1. PICK i \in L + 2 .. Len(r) : r[i] = Interrupted(c)
      BY <1>c, <2>1
    <3>2. r[i].ids = {c} /\ i \in 1 .. Len(r)
      BY <1>1, <1>a, <2>1, <3>1, MarkerShape
    <3>3. Follows(r, i, L + 1)
      BY <1>a, <1>4, <3>1 DEF Follows
    <3>4. QED
      BY <3>2, <3>3 DEF AnsweredBehind
  <2>2. CASE c \notin C
    <3>1. c \in Answered(m, n)
      BY <1>7, <2>2 DEF C, Unanswered
    <3>2. PICK j \in RepliesTo(m, n) : c \in m[j].ids
      BY <3>1 DEF Answered
    <3>3. j \in n + 1 .. Len(m) /\ \A k \in n + 1 .. j : m[k].role = "tool"
      BY <3>2 DEF RepliesTo
    <3>4. Follows(m, j, n) /\ m[j].role = "tool"
      BY <1>0, <3>3 DEF Follows
    <3>5. m[j].ids = {c}
      <4>1. IsMessage(m[j])
        BY <1>0, <3>3 DEF Transcript
      <4>2. QED
        BY <3>2, <3>4, <4>1 DEF IsMessage
    <3>6. QED
      BY <1>a, <1>4, <3>3, <3>4, <3>5 DEF Waiting
  <2>3. QED
    BY <2>1, <2>2
<1>8. ASSUME NEW i \in 1 .. Len(r), r[i].role = "assistant", NEW c \in r[i].ids
      PROVE  AnsweredBehind(r, i, c) \/ Waiting(m, n, r, i, c)
  <2>1. i \in 1 .. L \/ i = L + 1
    BY <1>a, <1>4, <1>8
  <2>2. QED
    BY <1>a, <1>6, <1>7, <1>8, <2>1
<1>9. QED
  BY <1>5, <1>8 DEF SanitizeInv

(* sanitizeOrphanedToolCalls makes of any transcript one in which each     *)
(* call of each reply has a result directly behind it.                     *)
THEOREM SanitizeAnswersAll ==
  ASSUME NEW m, Transcript(m)
  PROVE  /\ Transcript(SanitizeOrphanedToolCalls(m))
         /\ AllAnswered(SanitizeOrphanedToolCalls(m))
<1> DEFINE N == Len(m)
           h == Sanitized(m)
           P == {n \in 0 .. N : SanitizeInv(m, n, h[n])}
<1>0. m \in Seq(Message) /\ N \in Nat
  BY DEF Transcript
<1>1. h[0] = <<>> /\ \A n \in 1 .. N : h[n] = h[n - 1] \o <<m[n]>> \o MarkersFor(Unanswered(m, n))
  BY <1>0, SanitizedUnfolds
<1> HIDE DEF h
<1>2. 0 \in P
  <2>1. SanitizeInv(m, 0, <<>>)
    BY DEF SanitizeInv, Transcript
  <2>2. QED
    BY <1>0, <1>1, <2>1
<1>3. ASSUME NEW n \in 1 .. N, n - 1 \in P PROVE n \in P
  <2>1. SanitizeInv(m, n - 1, h[n - 1])
    BY <1>3
  <2>2. Grown(h[n], h[n - 1], m[n], Unanswered(m, n))
    <3>1. Transcript(h[n - 1]) /\ h[n - 1] \in Seq(Message)
      BY <2>1 DEF SanitizeInv, Transcript
    <3>2. m[n] \in Message /\ Unanswered(m, n) \in SUBSET Calls
      BY <1>0, UnansweredCalls
    <3>3. QED
      BY <1>1, <3>1, <3>2, Grows
  <2>3. SanitizeInv(m, n, h[n])
    BY <2>1, <2>2, SanitizeStep
  <2>4. QED
    BY <2>3
<1>4. 0 .. N \subseteq P
  <2> HIDE DEF P
  <2>1. QED
    BY <1>0, <1>2, <1>3, UpTo
<1>5. SanitizeInv(m, N, h[N])
  BY <1>0, <1>4
<1>6. Transcript(h[N]) /\ AllAnswered(h[N])
  BY <1>0, <1>5 DEF SanitizeInv, AllAnswered, Waiting
<1>7. QED
  BY <1>6 DEF SanitizeOrphanedToolCalls, h

-----------------------------------------------------------------------------
(* Message i calls c; what is behind it are results, none of them of c.    *)
Expects(s, n, i, c) ==
  /\ s[i].role = "assistant" /\ c \in s[i].ids
  /\ \A k \in i + 1 .. n : s[k].role = "tool" /\ s[k].ids # {c}

(* Call c of message i has one result directly behind it.                  *)
Paired(s, i, c) ==
  \E j \in 1 .. Len(s) :
    /\ s[j].ids = {c} /\ Follows(s, j, i)
    /\ \A k \in 1 .. Len(s) : s[k].ids = {c} /\ Follows(s, k, i) => k = j

(* Message j is a result of a call of a reply it is directly behind.       *)
Backed(s, j) ==
  \E i \in 1 .. j - 1 : /\ s[i].role = "assistant"
                        /\ Follows(s, j, i)
                        /\ s[j].ids \subseteq s[i].ids

(* What the scan has of the first n messages.                              *)
DropInv(s, n, acc) ==
  /\ Transcript(acc.out) /\ acc.open \subseteq Calls
  /\ \A i \in 1 .. Len(acc.out) : acc.out[i].role = "assistant" =>
       \A c \in acc.out[i].ids :
         \/ Paired(acc.out, i, c)
         \/ c \in acc.open /\ Expects(acc.out, Len(acc.out), i, c)
  /\ \A j \in 1 .. Len(acc.out) : acc.out[j].role = "tool" => Backed(acc.out, j)
  /\ \A c \in acc.open :
       /\ \E i \in 1 .. Len(acc.out) : Expects(acc.out, Len(acc.out), i, c)
       /\ \E i \in 1 .. n : Expects(s, n, i, c)

(* Calls are open only directly behind their reply.                        *)
LEMMA OpenIsAnswered ==
  ASSUME NEW s, Transcript(s), AllAnswered(s), NEW n \in 0 .. Len(s), NEW acc,
         DropInv(s, n, acc), n < Len(s) => s[n + 1].role # "tool"
  PROVE  acc.open = {}
<1> SUFFICES ASSUME NEW c \in acc.open PROVE FALSE
  OBVIOUS
<1>0. Len(s) \in Nat
  BY DEF Transcript
<1>1. PICK i \in 1 .. n : Expects(s, n, i, c)
  BY DEF DropInv
<1>2. PICK j \in 1 .. Len(s) : Follows(s, j, i) /\ s[j].ids = {c}
  <2>1. i \in 1 .. Len(s) /\ s[i].role = "assistant" /\ c \in s[i].ids
    BY <1>0, <1>1 DEF Expects
  <2>2. QED
    BY <2>1 DEF AllAnswered, AnsweredBehind
<1>3. ~ (j =< n)
  BY <1>0, <1>1, <1>2 DEF Follows, Expects
<1>4. n < Len(s) /\ n + 1 \in i + 1 .. j
  BY <1>0, <1>3
<1>5. s[n + 1].role = "tool"
  BY <1>2, <1>4 DEF Follows
<1>6. QED
  BY <1>4, <1>5

(* r is o with e behind it.                                                *)
Appended(r, o, e) ==
  /\ r \in Seq(Message) /\ Len(o) \in Nat /\ Len(r) = Len(o) + 1
  /\ \A i \in 1 .. Len(o) : r[i] = o[i]
  /\ r[Len(o) + 1] = e

(* An appended message is behind the ones there were.                      *)
LEMMA Appends ==
  ASSUME NEW o \in Seq(Message), NEW e \in Message
  PROVE  Appended(Append(o, e), o, e)
BY DEF Appended

(* Appending a message to a transcript makes one.                          *)
LEMMA AppendedTranscript ==
  ASSUME NEW o, Transcript(o), NEW e, IsMessage(e), NEW r, Appended(r, o, e)
  PROVE  Transcript(r)
<1> SUFFICES ASSUME NEW i \in 1 .. Len(r) PROVE IsMessage(r[i])
  BY DEF Appended, Transcript
<1>1. i \in 1 .. Len(o) \/ i = Len(o) + 1
  BY DEF Appended
<1>2. QED
  BY <1>1 DEF Appended, Transcript

(* A pair is undisturbed by a message behind it that is no other result.   *)
LEMMA PairedAppended ==
  ASSUME NEW o, NEW e, NEW r, Appended(r, o, e), NEW i \in 1 .. Len(o), NEW c,
         Paired(o, i, c), ~ (e.ids = {c} /\ Follows(r, Len(o) + 1, i))
  PROVE  Paired(r, i, c)
<1>1. PICK j \in 1 .. Len(o) :
        /\ o[j].ids = {c} /\ Follows(o, j, i)
        /\ \A k \in 1 .. Len(o) : o[k].ids = {c} /\ Follows(o, k, i) => k = j
  BY DEF Paired
<1>2. /\ Len(o) \in Nat /\ Len(r) = Len(o) + 1
      /\ \A k \in 1 .. Len(o) : r[k] = o[k]
      /\ r[Len(o) + 1] = e
  BY DEF Appended
<1>3. \A k \in 1 .. Len(o) : Follows(o, k, i) <=> Follows(r, k, i)
  BY <1>2 DEF Follows
<1>4. j \in 1 .. Len(r) /\ r[j].ids = {c} /\ Follows(r, j, i)
  BY <1>1, <1>2, <1>3
<1>5. ASSUME NEW k \in 1 .. Len(r), r[k].ids = {c}, Follows(r, k, i) PROVE k = j
  <2>1. k \in 1 .. Len(o) \/ k = Len(o) + 1
    BY <1>2
  <2>2. QED
    BY <1>1, <1>2, <1>3, <1>5, <2>1
<1>6. QED
  BY <1>4, <1>5 DEF Paired

(* A result stays backed.                                                  *)
LEMMA BackedAppended ==
  ASSUME NEW o, NEW e, NEW r, Appended(r, o, e), NEW j \in 1 .. Len(o), Backed(o, j)
  PROVE  Backed(r, j)
<1>1. /\ Len(o) \in Nat /\ \A k \in 1 .. Len(o) : r[k] = o[k]
  BY DEF Appended
<1>2. PICK i \in 1 .. j - 1 : /\ o[i].role = "assistant" /\ Follows(o, j, i)
                              /\ o[j].ids \subseteq o[i].ids
  BY DEF Backed
<1>3. Follows(r, j, i) /\ i \in 1 .. Len(o)
  BY <1>1, <1>2 DEF Follows
<1>4. QED
  BY <1>1, <1>2, <1>3 DEF Backed

(* A message that is no result comes when no call is open.                 *)
LEMMA DropPlain ==
  ASSUME NEW s, Transcript(s), AllAnswered(s), NEW n \in 1 .. Len(s), NEW acc,
         DropInv(s, n - 1, acc), s[n].role # "tool", NEW r, Appended(r, acc.out, s[n]),
         NEW open, open = IF s[n].role = "assistant" THEN s[n].ids ELSE {}
  PROVE  DropInv(s, n, [open |-> open, out |-> r]) /\ acc.open = {}
<1> DEFINE o == acc.out
           L == Len(o)
<1>1. /\ Len(r) = L + 1 /\ L \in Nat
      /\ \A i \in 1 .. L : r[i] = o[i]
      /\ r[L + 1] = s[n]
  BY DEF Appended
<1> HIDE DEF o, L
<1>2. IsMessage(s[n]) /\ Len(s) \in Nat
  BY DEF Transcript
<1>3. acc.open = {}
  <2>1. n - 1 \in 0 .. Len(s) /\ (n - 1) + 1 = n
    BY <1>2
  <2>2. QED
    BY <2>1, OpenIsAnswered
<1>4. Transcript(r) /\ open \subseteq Calls
  <2>1. Transcript(r)
    BY <1>2, AppendedTranscript DEF DropInv, o
  <2>2. QED
    BY <1>2, <2>1 DEF IsMessage, Message
<1>5. ASSUME NEW i \in 1 .. L, o[i].role = "assistant", NEW c \in o[i].ids
      PROVE  Paired(r, i, c)
  <2>1. Paired(o, i, c)
    BY <1>3, <1>5 DEF DropInv, o, L
  <2>2. ~ Follows(r, L + 1, i)
    BY <1>1 DEF Follows
  <2>3. QED
    BY <2>1, <2>2, PairedAppended DEF o, L
<1>6. ASSUME NEW j \in 1 .. L, o[j].role = "tool" PROVE Backed(r, j)
  <2>1. Backed(o, j)
    BY <1>6 DEF DropInv, o, L
  <2>2. QED
    BY <2>1, BackedAppended DEF o, L
<1>7. ASSUME NEW c \in open
      PROVE  Expects(r, L + 1, L + 1, c) /\ Expects(s, n, n, c)
  BY <1>1, <1>7 DEF Expects
<1>8. \A i \in 1 .. Len(r) : i \in 1 .. L \/ i = L + 1
  BY <1>1
<1>9. \A i \in 1 .. Len(r) : r[i].role = "assistant" =>
        \A c \in r[i].ids : Paired(r, i, c) \/ (c \in open /\ Expects(r, Len(r), i, c))
  BY <1>1, <1>5, <1>7, <1>8
<1>10. \A j \in 1 .. Len(r) : r[j].role = "tool" => Backed(r, j)
  BY <1>1, <1>6, <1>8
<1>11. \A c \in open : /\ \E i \in 1 .. Len(r) : Expects(r, Len(r), i, c)
                       /\ \E i \in 1 .. n : Expects(s, n, i, c)
  BY <1>1, <1>2, <1>7
<1>12. QED
  BY <1>3, <1>4, <1>9, <1>10, <1>11 DEF DropInv

(* At most one reply has only results behind it.                           *)
LEMMA OneLastReply ==
  ASSUME NEW o, NEW L \in Nat, NEW i \in 1 .. L, NEW j \in 1 .. L,
         o[i].role = "assistant", o[j].role = "assistant",
         \A k \in i + 1 .. L : o[k].role = "tool",
         \A k \in j + 1 .. L : o[k].role = "tool"
  PROVE  i = j
<1>1. ~ (i < j)
  OBVIOUS
<1>2. ~ (j < i)
  OBVIOUS
<1>3. QED
  BY <1>1, <1>2

(* A result of an open call is taken over.                                 *)
LEMMA DropResult ==
  ASSUME NEW s, Transcript(s), NEW n \in 1 .. Len(s), NEW acc, DropInv(s, n - 1, acc),
         s[n].role = "tool", NEW c \in acc.open, s[n].ids = {c},
         NEW r, Appended(r, acc.out, s[n])
  PROVE  DropInv(s, n, [open |-> acc.open \ {c}, out |-> r])
<1> DEFINE o == acc.out
           L == Len(o)
<1>1. /\ Len(r) = L + 1 /\ L \in Nat
      /\ \A i \in 1 .. L : r[i] = o[i]
      /\ r[L + 1] = s[n]
  BY DEF Appended
<1> HIDE DEF o, L
<1>2. IsMessage(s[n]) /\ Len(s) \in Nat
  BY DEF Transcript
<1>3. Transcript(r) /\ acc.open \ {c} \subseteq Calls
  <2>1. Transcript(r)
    BY <1>2, AppendedTranscript DEF DropInv, o
  <2>2. QED
    BY <2>1 DEF DropInv
<1>4. PICK w \in 1 .. L : Expects(o, L, w, c)
  BY DEF DropInv, o, L
<1>5. ASSUME NEW i \in 1 .. L, NEW d, d # c, Expects(o, L, i, d)
      PROVE  Expects(r, L + 1, i, d)
  <2>1. r[i].role = "assistant" /\ d \in r[i].ids
    BY <1>1, <1>5 DEF Expects
  <2>2. ASSUME NEW k \in i + 1 .. L + 1 PROVE r[k].role = "tool" /\ r[k].ids # {d}
    <3>1. (k \in 1 .. L /\ k \in i + 1 .. L) \/ k = L + 1
      BY <1>1
    <3>2. QED
      BY <1>1, <1>5, <3>1 DEF Expects
  <2>3. QED
    BY <2>1, <2>2 DEF Expects
<1>6. ASSUME NEW i \in 1 .. L, Expects(o, L, i, c) PROVE Paired(r, i, c)
  <2>1. L + 1 \in 1 .. Len(r) /\ r[L + 1].ids = {c}
    BY <1>1
  <2>2. Follows(r, L + 1, i)
    <3>1. ASSUME NEW k \in i + 1 .. L + 1 PROVE r[k].role = "tool"
      <4>1. (k \in 1 .. L /\ k \in i + 1 .. L) \/ k = L + 1
        BY <1>1
      <4>2. QED
        BY <1>1, <1>6, <4>1 DEF Expects
    <3>2. QED
      BY <1>1, <3>1 DEF Follows
  <2>3. ASSUME NEW k \in 1 .. Len(r), r[k].ids = {c}, Follows(r, k, i) PROVE k = L + 1
    <3>1. SUFFICES ASSUME k \in 1 .. L PROVE FALSE
      BY <1>1
    <3>2. k \in i + 1 .. L /\ r[k] = o[k]
      BY <1>1, <2>3, <3>1 DEF Follows
    <3>3. QED
      BY <1>6, <2>3, <3>2 DEF Expects
  <2>4. QED
    BY <2>1, <2>2, <2>3 DEF Paired
<1>7. ASSUME NEW i \in 1 .. L, NEW d, Paired(o, i, d), o[i].role = "assistant"
      PROVE  Paired(r, i, d)
  <2>1. ASSUME s[n].ids = {d}, Follows(r, L + 1, i) PROVE FALSE
    <3>1. d = c
      BY <2>1
    <3>2. \A k \in i + 1 .. L : o[k].role = "tool"
      BY <1>1, <2>1 DEF Follows
    <3>3. o[w].role = "assistant" /\ \A k \in w + 1 .. L : o[k].role = "tool" /\ o[k].ids # {c}
      BY <1>4 DEF Expects
    <3>4. w = i
      BY <1>1, <1>7, <3>2, <3>3, OneLastReply
    <3>5. PICK j \in 1 .. L : o[j].ids = {c} /\ Follows(o, j, i)
      BY <1>7, <3>1 DEF Paired, L
    <3>6. j \in w + 1 .. L
      BY <1>1, <3>4, <3>5 DEF Follows
    <3>7. QED
      BY <3>3, <3>5, <3>6
  <2>2. QED
    BY <1>7, <2>1, PairedAppended DEF o, L
<1>8. ASSUME NEW j \in 1 .. L, o[j].role = "tool" PROVE Backed(r, j)
  <2>1. Backed(o, j)
    BY <1>8 DEF DropInv, o, L
  <2>2. QED
    BY <2>1, BackedAppended DEF o, L
<1>9. Backed(r, L + 1)
  <2>1. ASSUME NEW k \in w + 1 .. L + 1 PROVE r[k].role = "tool"
    <3>1. (k \in 1 .. L /\ k \in w + 1 .. L) \/ k = L + 1
      BY <1>1
    <3>2. QED
      BY <1>1, <1>4, <3>1 DEF Expects
  <2>2. Follows(r, L + 1, w)
    BY <1>1, <2>1 DEF Follows
  <2>3. w \in 1 .. (L + 1) - 1
    BY <1>1
  <2>4. r[w].role = "assistant" /\ r[L + 1].ids \subseteq r[w].ids
    BY <1>1, <1>4 DEF Expects
  <2>5. QED
    BY <2>2, <2>3, <2>4 DEF Backed
<1>10. ASSUME NEW d \in acc.open \ {c}
       PROVE  \E i \in 1 .. n : Expects(s, n, i, d)
  <2>1. PICK i \in 1 .. n - 1 : Expects(s, n - 1, i, d)
    BY DEF DropInv
  <2>2. ASSUME NEW k \in i + 1 .. n PROVE s[k].role = "tool" /\ s[k].ids # {d}
    <3>1. k \in i + 1 .. n - 1 \/ k = n
      BY <1>2
    <3>2. QED
      BY <2>1, <3>1 DEF Expects
  <2>3. Expects(s, n, i, d)
    BY <2>1, <2>2 DEF Expects
  <2>4. QED
    BY <1>2, <2>3
<1>11. \A i \in 1 .. Len(r) : i \in 1 .. L \/ i = L + 1
  BY <1>1
<1>12. \A i \in 1 .. Len(r) : r[i].role = "assistant" =>
         \A d \in r[i].ids :
           \/ Paired(r, i, d)
           \/ d \in acc.open \ {c} /\ Expects(r, Len(r), i, d)
  <2> SUFFICES ASSUME NEW i \in 1 .. Len(r), r[i].role = "assistant", NEW d \in r[i].ids
               PROVE  \/ Paired(r, i, d)
                      \/ d \in acc.open \ {c} /\ Expects(r, Len(r), i, d)
    OBVIOUS
  <2>1. i \in 1 .. L /\ o[i].role = "assistant" /\ d \in o[i].ids
    BY <1>1, <1>11
  <2>2. CASE Paired(o, i, d)
    BY <1>7, <2>1, <2>2
  <2>3. CASE d \in acc.open /\ Expects(o, L, i, d)
    BY <1>1, <1>5, <1>6, <2>1, <2>3
  <2>4. QED
    BY <2>1, <2>2, <2>3 DEF DropInv, o, L
<1>13. \A j \in 1 .. Len(r) : r[j].role = "tool" => Backed(r, j)
  BY <1>1, <1>8, <1>9, <1>11
<1>14. \A d \in acc.open \ {c} : /\ \E i \in 1 .. Len(r) : Expects(r, Len(r), i, d)
                                 /\ \E i \in 1 .. n : Expects(s, n, i, d)
  <2> SUFFICES ASSUME NEW d \in acc.open \ {c}
               PROVE  \E i \in 1 .. Len(r) : Expects(r, Len(r), i, d)
    BY <1>10
  <2>1. PICK i \in 1 .. L : Expects(o, L, i, d)
    BY DEF DropInv, o, L
  <2>2. QED
    BY <1>1, <1>5, <2>1
<1>15. QED
  BY <1>3, <1>12, <1>13, <1>14 DEF DropInv

(* A result of no open call is dropped.                                    *)
LEMMA DropDrops ==
  ASSUME NEW s, Transcript(s), NEW n \in 1 .. Len(s), NEW acc, DropInv(s, n - 1, acc),
         s[n].role = "tool", ~ (s[n].ids \subseteq acc.open)
  PROVE  DropInv(s, n, acc)
<1>1. ASSUME NEW d \in acc.open PROVE \E i \in 1 .. n : Expects(s, n, i, d)
  <2>1. PICK i \in 1 .. n - 1 : Expects(s, n - 1, i, d)
    BY DEF DropInv
  <2>2. ASSUME NEW k \in i + 1 .. n PROVE s[k].role = "tool" /\ s[k].ids # {d}
    <3>1. k \in i + 1 .. n - 1 \/ k = n
      OBVIOUS
    <3>2. QED
      BY <2>1, <3>1 DEF Expects
  <2>3. Expects(s, n, i, d)
    BY <2>1, <2>2 DEF Expects
  <2>4. QED
    BY <2>3
<1>2. QED
  BY <1>1 DEF DropInv

(* One message keeps what the scan has.                                    *)
LEMMA DropStep ==
  ASSUME NEW s, Transcript(s), AllAnswered(s), NEW n \in 1 .. Len(s), NEW acc \in Scans,
         DropInv(s, n - 1, acc)
  PROVE  DropInv(s, n, Scan(acc, s[n]))
<1> DEFINE e == s[n]
           r == Append(acc.out, e)
<1>1. IsMessage(e) /\ e \in Message /\ e.role \in {"user", "assistant", "tool"}
  BY DEF Transcript, IsMessage, Message
<1>2. Appended(r, acc.out, e)
  BY <1>1, Appends DEF Scans
<1> HIDE DEF r
<1>3. CASE e.role = "assistant"
  <2>1. DropInv(s, n, [open |-> e.ids, out |-> r]) /\ acc.open = {}
    BY <1>2, <1>3, DropPlain
  <2>2. Scan(acc, e) = [open |-> e.ids, out |-> r]
    BY <1>3, <2>1 DEF Scan, r
  <2>3. QED
    BY <2>1, <2>2
<1>4. CASE e.role = "user"
  <2>1. DropInv(s, n, [open |-> {}, out |-> r]) /\ acc.open = {}
    BY <1>2, <1>4, DropPlain
  <2>2. Scan(acc, e) = [open |-> {}, out |-> r]
    BY <1>4, <2>1 DEF Scan, r
  <2>3. QED
    BY <2>1, <2>2
<1>5. CASE e.role = "tool" /\ e.ids \subseteq acc.open
  <2>1. PICK c \in Calls : e.ids = {c}
    BY <1>1, <1>5 DEF IsMessage
  <2>2. c \in acc.open
    BY <1>5, <2>1
  <2>3. DropInv(s, n, [open |-> acc.open \ {c}, out |-> r])
    BY <1>2, <1>5, <2>1, <2>2, DropResult
  <2>4. Scan(acc, e) = [open |-> acc.open \ {c}, out |-> r]
    BY <1>5, <2>1 DEF Scan, OpenAfter, r
  <2>5. QED
    BY <2>3, <2>4
<1>6. CASE e.role = "tool" /\ ~ (e.ids \subseteq acc.open)
  <2>1. DropInv(s, n, acc)
    BY <1>6, DropDrops
  <2>2. Scan(acc, e) = acc
    BY <1>6 DEF Scan
  <2>3. QED
    BY <2>1, <2>2
<1>7. QED
  BY <1>1, <1>3, <1>4, <1>5, <1>6

(* dropOrphanedToolResults makes of a transcript whose calls all have a    *)
(* result directly behind their reply one a provider accepts.              *)
LEMMA DropPairs ==
  ASSUME NEW s, Transcript(s), AllAnswered(s)
  PROVE  /\ Transcript(DropOrphanedToolResults(s))
         /\ WellPaired(DropOrphanedToolResults(s))
<1> DEFINE N == Len(s)
           h == Scanned(s)
           P == {n \in 0 .. N : DropInv(s, n, h[n])}
<1>0. s \in Seq(Message) /\ N \in Nat
  BY DEF Transcript
<1>1. /\ h[0] = [open |-> {}, out |-> <<>>]
      /\ \A n \in 1 .. N : h[n] = Scan(h[n - 1], s[n])
      /\ \A n \in 0 .. N : h[n] \in Scans
  BY <1>0, ScannedUnfolds
<1> HIDE DEF h
<1>2. 0 \in P
  <2>1. DropInv(s, 0, [open |-> {}, out |-> <<>>])
    BY DEF DropInv, Transcript
  <2>2. QED
    BY <1>0, <1>1, <2>1
<1>3. ASSUME NEW n \in 1 .. N, n - 1 \in P PROVE n \in P
  <2>1. DropInv(s, n - 1, h[n - 1])
    BY <1>3
  <2>2. DropInv(s, n, h[n])
    BY <1>0, <1>1, <2>1, DropStep
  <2>3. QED
    BY <2>2
<1>4. 0 .. N \subseteq P
  <2> HIDE DEF P
  <2>1. QED
    BY <1>0, <1>2, <1>3, UpTo
<1>5. DropInv(s, N, h[N])
  BY <1>0, <1>4
<1>6. h[N].open = {}
  BY <1>0, <1>5, OpenIsAnswered
<1>7. Transcript(h[N].out) /\ WellPaired(h[N].out)
  BY <1>5, <1>6 DEF DropInv, WellPaired, Paired, Backed
<1>8. QED
  BY <1>7 DEF DropOrphanedToolResults, h

(* Whatever the transcript: a result for each call, a call for each result.*)
THEOREM ViewPairs ==
  ASSUME NEW m, Transcript(m)
  PROVE  Transcript(View(m)) /\ WellPaired(View(m))
BY SanitizeAnswersAll, DropPairs DEF View

-----------------------------------------------------------------------------
(* In every transcript each call of each reply is either left to a marker  *)
(* or resolved by exactly one message: dropOrphanedToolResults drops the   *)
(* second result of a call, and never the first.                           *)
THEOREM CallsResolvedOnce ==
  ASSUME NEW m \in Seq(Message), NEW i \in 1 .. Len(m), m[i].role = "assistant",
         NEW c \in m[i].ids, c \notin Unresolved(m, i)
  PROVE  \E j \in 1 .. Len(m) :
            /\ m[j].ids = {c} /\ Resolves(m, j, i)
            /\ \A k \in 1 .. Len(m) : m[k].ids = {c} /\ Resolves(m, k, i) => k = j
<1>1. PICK j \in 1 .. Len(m) : m[j].ids = {c} /\ Resolves(m, j, i)
  BY DEF Unresolved
<1>2. ASSUME NEW k \in 1 .. Len(m), m[k].ids = {c}, Resolves(m, k, i)
      PROVE  k = j
  <2>1. i < j /\ i < k
    BY <1>1, <1>2 DEF Resolves, Follows
  <2>2. ~ (k < j)
    BY <1>1, <1>2, <2>1 DEF Resolves
  <2>3. ~ (j < k)
    BY <1>1, <1>2, <2>1 DEF Resolves
  <2>4. QED
    BY <2>2, <2>3
<1>3. QED
  BY <1>1, <1>2

(* A call is left to a marker only if no result of it is directly behind   *)
(* its reply: sanitizeOrphanedToolCalls never marks an answered call.      *)
THEOREM AnsweredCallsUnmarked ==
  ASSUME NEW m \in Seq(Message), NEW i \in 1 .. Len(m), m[i].role = "assistant",
         NEW c \in m[i].ids, NEW j \in 1 .. Len(m), Follows(m, j, i), m[j].ids = {c}
  PROVE  c \notin Unresolved(m, i)
<1> DEFINE S == {k \in i + 1 .. Len(m) : Follows(m, k, i) /\ m[k].ids = {c}}
<1>1. j \in S
  BY DEF Follows
<1>2. S \subseteq Nat
  OBVIOUS
<1>3. PICK k \in S : \A n \in S : k =< n
  BY <1>1, <1>2, LeastElement
<1>4. \A n \in i + 1 .. k - 1 : m[n].ids # {c}
  <2> SUFFICES ASSUME NEW n \in i + 1 .. k - 1, m[n].ids = {c} PROVE FALSE
    OBVIOUS
  <2>1. k \in i + 1 .. Len(m) /\ Follows(m, k, i)
    BY <1>3
  <2>2. n \in S
    BY <2>1 DEF Follows
  <2>3. QED
    BY <1>3, <2>2
<1>5. Resolves(m, k, i) /\ m[k].ids = {c} /\ k \in 1 .. Len(m)
  BY <1>3, <1>4 DEF Resolves
<1>6. QED
  BY <1>5 DEF Unresolved

(* Message j is a result of c directly behind message i.                   *)
LEMMA AnsweredBy ==
  ASSUME NEW m, Transcript(m), NEW i \in 1 .. Len(m), NEW c
  PROVE  c \in Answered(m, i) <=>
           \E j \in i + 1 .. Len(m) : m[j].ids = {c} /\ Follows(m, j, i)
<1>0. Len(m) \in Nat
  BY DEF Transcript
<1>1. ASSUME c \in Answered(m, i)
      PROVE  \E j \in i + 1 .. Len(m) : m[j].ids = {c} /\ Follows(m, j, i)
  <2>1. PICK j \in RepliesTo(m, i) : c \in m[j].ids
    BY <1>1 DEF Answered
  <2>2. j \in i + 1 .. Len(m) /\ \A k \in i + 1 .. j : m[k].role = "tool"
    BY <2>1 DEF RepliesTo
  <2>3. Follows(m, j, i) /\ m[j].role = "tool"
    BY <1>0, <2>2 DEF Follows
  <2>4. IsMessage(m[j])
    BY <1>0, <2>2 DEF Transcript
  <2>5. m[j].ids = {c}
    BY <2>1, <2>3, <2>4 DEF IsMessage
  <2>6. QED
    BY <2>2, <2>3, <2>5
<1>2. ASSUME NEW j \in i + 1 .. Len(m), m[j].ids = {c}, Follows(m, j, i)
      PROVE  c \in Answered(m, i)
  <2>1. j \in RepliesTo(m, i)
    BY <1>2 DEF Follows, RepliesTo
  <2>2. c \in m[j].ids
    BY <1>2
  <2>3. QED
    BY <2>1, <2>2 DEF Answered
<1>3. QED
  BY <1>1, <1>2

(* The calls that get a marker are those without a result.                 *)
LEMMA UnresolvedIsUnanswered ==
  ASSUME NEW m, Transcript(m), NEW i \in 1 .. Len(m)
  PROVE  Unresolved(m, i) = Unanswered(m, i)
<1>0. m \in Seq(Message) /\ Len(m) \in Nat
  BY DEF Transcript
<1>1. CASE m[i].role = "assistant"
  <2>1. ASSUME NEW c \in m[i].ids, c \in Answered(m, i) PROVE c \notin Unresolved(m, i)
    <3>1. PICK j \in i + 1 .. Len(m) : m[j].ids = {c} /\ Follows(m, j, i)
      BY <2>1, AnsweredBy
    <3>2. j \in 1 .. Len(m)
      BY <1>0
    <3>3. QED
      BY <1>0, <1>1, <3>1, <3>2, AnsweredCallsUnmarked
  <2>2. ASSUME NEW c \in m[i].ids, c \notin Unresolved(m, i) PROVE c \in Answered(m, i)
    <3>1. PICK j \in 1 .. Len(m) : m[j].ids = {c} /\ Resolves(m, j, i)
      BY <1>1, <2>2 DEF Unresolved
    <3>2. j \in i + 1 .. Len(m) /\ Follows(m, j, i)
      BY <1>0, <3>1 DEF Resolves, Follows
    <3>3. QED
      BY <3>1, <3>2, AnsweredBy
  <2>3. Unresolved(m, i) \subseteq m[i].ids
    BY DEF Unresolved
  <2>4. Unanswered(m, i) = m[i].ids \ Answered(m, i)
    BY <1>1 DEF Unanswered
  <2>5. QED
    BY <2>1, <2>2, <2>3, <2>4
<1>2. CASE m[i].role # "assistant"
  BY <1>2 DEF Unresolved, Unanswered
<1>3. QED
  BY <1>1, <1>2

(* A scan depends on what is in front only.                                *)
LEMMA ScannedByPrefix ==
  ASSUME NEW s \in Seq(Message), NEW t \in Seq(Message), Len(s) =< Len(t),
         \A i \in 1 .. Len(s) : t[i] = s[i]
  PROVE  \A n \in 0 .. Len(s) : Scanned(t)[n] = Scanned(s)[n]
<1> DEFINE f == Scanned(s)
           g == Scanned(t)
           P == {n \in 0 .. Len(s) : g[n] = f[n]}
<1>1. /\ f[0] = [open |-> {}, out |-> <<>>]
      /\ \A n \in 1 .. Len(s) : f[n] = Scan(f[n - 1], s[n])
  BY ScannedUnfolds
<1>2. /\ g[0] = [open |-> {}, out |-> <<>>]
      /\ \A n \in 1 .. Len(t) : g[n] = Scan(g[n - 1], t[n])
  BY ScannedUnfolds
<1>3. Len(s) \in Nat /\ Len(t) \in Nat
  OBVIOUS
<1> HIDE DEF f, g
<1>4. 0 \in P
  BY <1>1, <1>2, <1>3
<1>5. ASSUME NEW n \in 1 .. Len(s), n - 1 \in P PROVE n \in P
  <2>1. n \in 1 .. Len(t) /\ t[n] = s[n] /\ g[n - 1] = f[n - 1]
    BY <1>3, <1>5
  <2>2. g[n] = f[n]
    BY <1>1, <1>2, <2>1
  <2>3. QED
    BY <2>2
<1>6. 0 .. Len(s) \subseteq P
  <2> HIDE DEF P
  <2>1. QED
    BY <1>3, <1>4, <1>5, UpTo
<1>7. QED
  BY <1>6 DEF f, g

(* One marker of each call, in some order.                                 *)
AreMarkers(K, C) ==
  /\ K \in Seq(Message)
  /\ \A i \in 1 .. Len(K) : \E c \in C : K[i] = Interrupted(c)
  /\ \A c \in C : \E i \in 1 .. Len(K) : K[i] = Interrupted(c)
  /\ \A i, j \in 1 .. Len(K) : K[i] = K[j] => i = j

(* MarkersFor makes one marker for each call.                              *)
LEMMA MarkersForAre ==
  ASSUME NEW C \in SUBSET Calls
  PROVE  AreMarkers(MarkersFor(C), C)
BY Markers DEF AreMarkers

(* Markers appended one by one are appended all.                           *)
LEMMA AppendNext ==
  ASSUME NEW out \in Seq(Message), NEW K \in Seq(Message), NEW k \in 1 .. Len(K)
  PROVE  Append(out \o SubSeq(K, 1, k - 1), K[k]) = out \o SubSeq(K, 1, k)
<1>1. \A s \in Seq(Message), e \in Message : out \o Append(s, e) = Append(out \o s, e)
  OBVIOUS
<1>2. SubSeq(K, 1, k - 1) \in Seq(Message) /\ K[k] \in Message
  OBVIOUS
<1>3. Append(SubSeq(K, 1, k - 1), K[k]) = SubSeq(K, 1, k)
  OBVIOUS
<1>4. QED
  BY <1>1, <1>2, <1>3

(* The scan of t, up to message p.                                         *)
ScanIs(t, p, open, out) == Scanned(t)[p] = [open |-> open, out |-> out]

(* What is behind message p of t is K.                                     *)
EndsWith(t, p, K) ==
  Len(t) = p + Len(K) /\ \A i \in 1 .. Len(K) : t[p + i] = K[i]

(* Markers of open calls are taken over, and close them.                   *)
LEMMA MarkersScanned ==
  ASSUME NEW t \in Seq(Message), NEW C \in SUBSET Calls, NEW K, AreMarkers(K, C),
         NEW p \in Nat, EndsWith(t, p, K),
         NEW open \in SUBSET Calls, C \subseteq open, NEW out \in Seq(Message),
         ScanIs(t, p, open, out)
  PROVE  ScanIs(t, Len(t), open \ C, out \o K)
<1> DEFINE g == Scanned(t)
           Closed(k) == {c \in C : \E i \in 1 .. k : K[i] = Interrupted(c)}
           At(k) == [open |-> open \ Closed(k), out |-> out \o SubSeq(K, 1, k)]
           P == {k \in 0 .. Len(K) : g[p + k] = At(k)}
<1>1. K \in Seq(Message) /\ Len(K) \in Nat
  BY DEF AreMarkers
<1>2. \A i \in 1 .. Len(K) : \E c \in C : K[i] = Interrupted(c)
  BY DEF AreMarkers
<1>3. \A c \in C : \E i \in 1 .. Len(K) : K[i] = Interrupted(c)
  BY DEF AreMarkers
<1>4. \A i, j \in 1 .. Len(K) : K[i] = K[j] => i = j
  BY DEF AreMarkers
<1>5. \A n \in 1 .. Len(t) : g[n] = Scan(g[n - 1], t[n])
  BY ScannedUnfolds
<1>6. g[p] = [open |-> open, out |-> out]
  BY DEF ScanIs
<1>a. Len(t) = p + Len(K) /\ \A i \in 1 .. Len(K) : t[p + i] = K[i]
  BY DEF EndsWith
<1> HIDE DEF g
<1>7. 0 \in P
  <2>1. Closed(0) = {} /\ SubSeq(K, 1, 0) = <<>> /\ out \o <<>> = out
    BY <1>1
  <2>2. open \ {} = open
    OBVIOUS
  <2>3. At(0) = [open |-> open, out |-> out]
    BY <2>1, <2>2
  <2> HIDE DEF At
  <2>4. g[p + 0] = At(0)
    BY <1>6, <2>3
  <2>5. QED
    BY <1>1, <2>4
<1>8. ASSUME NEW k \in 1 .. Len(K), k - 1 \in P PROVE k \in P
  <2>1. PICK c \in C : K[k] = Interrupted(c)
    BY <1>2
  <2>2. p + k \in 1 .. Len(t) /\ (p + k) - 1 = p + (k - 1) /\ t[p + k] = K[k]
    BY <1>1, <1>a
  <2>3. g[p + k] = Scan(At(k - 1), K[k])
    <3> HIDE DEF At
    <3>1. g[p + (k - 1)] = At(k - 1)
      BY <1>8
    <3>2. QED
      BY <1>5, <2>2, <3>1
  <2>4. c \notin Closed(k - 1)
    BY <1>1, <1>4, <2>1
  <2>5. Closed(k) = Closed(k - 1) \cup {c}
    <3>1. \A d \in C : Interrupted(d) = Interrupted(c) => d = c
      <4> SUFFICES ASSUME NEW d \in C, Interrupted(d) = Interrupted(c) PROVE d = c
        OBVIOUS
      <4>1. Interrupted(d).ids = {d} /\ Interrupted(c).ids = {c}
        BY DEF Interrupted
      <4>2. QED
        BY <4>1
    <3>2. \A i \in 1 .. k : i \in 1 .. k - 1 \/ i = k
      OBVIOUS
    <3>3. \A i \in 1 .. k - 1 : i \in 1 .. k
      OBVIOUS
    <3>4. k \in 1 .. k
      OBVIOUS
    <3>5. QED
      BY <2>1, <3>1, <3>2, <3>3, <3>4
  <2>6. K[k].role = "tool" /\ K[k].ids = {c} /\ c \in open \ Closed(k - 1)
    BY <2>1, <2>4, MarkerShape
  <2>7. Append(out \o SubSeq(K, 1, k - 1), K[k]) = out \o SubSeq(K, 1, k)
    BY <1>1, AppendNext
  <2> HIDE DEF Closed
  <2>8. Scan(At(k - 1), K[k]) = [open |-> (open \ Closed(k - 1)) \ {c},
                                 out |-> Append(out \o SubSeq(K, 1, k - 1), K[k])]
    BY <2>6 DEF Scan, OpenAfter
  <2>9. (open \ Closed(k - 1)) \ {c} = open \ Closed(k)
    BY <2>5
  <2>10. g[p + k] = At(k)
    BY <2>3, <2>7, <2>8, <2>9
  <2>11. QED
    BY <2>10
<1>9. 0 .. Len(K) \subseteq P
  <2> HIDE DEF P
  <2>1. QED
    BY <1>1, <1>7, <1>8, UpTo
<1>10. g[p + Len(K)] = At(Len(K))
  <2> HIDE DEF At
  <2>1. QED
    BY <1>1, <1>9
<1>11. Closed(Len(K)) = C /\ SubSeq(K, 1, Len(K)) = K
  BY <1>1, <1>3
<1>12. QED
  BY <1>10, <1>11, <1>a DEF g, ScanIs

(* Message i calls c and c has a result directly behind it, not up to n.   *)
Outstanding(m, n, i, c) == Expects(m, n, i, c) /\ c \in Answered(m, i)

(* The calls the scan has open after message n.                            *)
OpenAt(m, n) == {c \in Calls : \E i \in 1 .. n : Outstanding(m, n, i, c)}

(* The scan of a sanitized transcript up to message n of the original.     *)
Upto(m, n) == Scanned(Sanitized(m)[n])[Len(Sanitized(m)[n])]

(* A call stays outstanding until its result.                              *)
LEMMA OutstandingOlder ==
  ASSUME NEW m, Transcript(m), NEW n \in 1 .. Len(m), NEW i \in 1 .. n - 1, NEW c
  PROVE  Outstanding(m, n, i, c) <=>
           Outstanding(m, n - 1, i, c) /\ m[n].role = "tool" /\ m[n].ids # {c}
<1>0. Len(m) \in Nat
  BY DEF Transcript
<1>1. \A k \in i + 1 .. n : k \in i + 1 .. n - 1 \/ k = n
  BY <1>0
<1>2. n \in i + 1 .. n /\ \A k \in i + 1 .. n - 1 : k \in i + 1 .. n
  BY <1>0
<1>3. QED
  BY <1>1, <1>2 DEF Outstanding, Expects

(* ... and the next message is a result.                                   *)
LEMMA OutstandingNext ==
  ASSUME NEW m, Transcript(m), NEW n \in 1 .. Len(m), NEW i \in 1 .. n - 1, NEW c,
         Outstanding(m, n - 1, i, c)
  PROVE  m[n].role = "tool"
<1>0. Len(m) \in Nat /\ i \in 1 .. Len(m)
  BY DEF Transcript
<1>1. PICK j \in i + 1 .. Len(m) : m[j].ids = {c} /\ Follows(m, j, i)
  BY <1>0, AnsweredBy DEF Outstanding
<1>2. ~ (j =< n - 1)
  BY <1>0, <1>1 DEF Outstanding, Expects
<1>3. n \in i + 1 .. j
  BY <1>0, <1>2
<1>4. QED
  BY <1>1, <1>3 DEF Follows

(* The result of a call of the last reply is kept if it is the first.      *)
LEMMA KeptIsOpen ==
  ASSUME NEW m, Transcript(m), NEW n \in 1 .. Len(m), m[n].role = "tool",
         NEW c \in Calls, m[n].ids = {c}
  PROVE  Kept(m, n) <=> c \in OpenAt(m, n - 1)
<1>0. Len(m) \in Nat
  BY DEF Transcript
<1>1. ASSUME NEW i \in 1 .. n - 1, Resolves(m, n, i) PROVE Outstanding(m, n - 1, i, c)
  <2>1. Follows(m, n, i) /\ m[i].role = "assistant" /\ c \in m[i].ids
        /\ \A k \in i + 1 .. n - 1 : m[k].ids # {c}
    BY <1>1 DEF Resolves
  <2>2. \A k \in i + 1 .. n : m[k].role = "tool"
    BY <2>1 DEF Follows
  <2>3. i \in 1 .. Len(m) /\ n \in i + 1 .. Len(m)
    BY <1>0
  <2>4. c \in Answered(m, i)
    BY <2>1, <2>3, AnsweredBy
  <2>5. \A k \in i + 1 .. n - 1 : k \in i + 1 .. n
    BY <1>0
  <2>6. QED
    BY <2>1, <2>2, <2>4, <2>5 DEF Outstanding, Expects
<1>2. ASSUME NEW i \in 1 .. n - 1, Outstanding(m, n - 1, i, c) PROVE Resolves(m, n, i)
  <2>1. \A k \in i + 1 .. n : k \in i + 1 .. n - 1 \/ k = n
    BY <1>0
  <2>2. m[i].role = "assistant" /\ c \in m[i].ids
        /\ \A k \in i + 1 .. n - 1 : m[k].role = "tool" /\ m[k].ids # {c}
    BY <1>2 DEF Outstanding, Expects
  <2>3. Follows(m, n, i)
    BY <2>1, <2>2 DEF Follows
  <2>4. QED
    BY <2>2, <2>3 DEF Resolves
<1>3. QED
  BY <1>1, <1>2 DEF Kept, OpenAt

(* t is s, then e, then K.                                                 *)
Joins(t, s, e, K) ==
  /\ t \in Seq(Message)
  /\ Len(t) = Len(s) + 1 + Len(K)
  /\ \A i \in 1 .. Len(s) : t[i] = s[i]
  /\ t[Len(s) + 1] = e
  /\ \A i \in 1 .. Len(K) : t[Len(s) + 1 + i] = K[i]

(* A message and markers behind a transcript, position by position.        *)
LEMMA Joined ==
  ASSUME NEW s \in Seq(Message), NEW e \in Message, NEW K \in Seq(Message)
  PROVE  Joins(s \o <<e>> \o K, s, e, K)
<1> DEFINE t == s \o <<e>> \o K
<1>1. t \in Seq(Message)
  OBVIOUS
<1>2. Len(t) = Len(s) + 1 + Len(K)
  OBVIOUS
<1>3. \A i \in 1 .. Len(s) : t[i] = s[i]
  OBVIOUS
<1>4. t[Len(s) + 1] = e
  OBVIOUS
<1>5. \A i \in 1 .. Len(K) : t[Len(s) + 1 + i] = K[i]
  OBVIOUS
<1> HIDE DEF t
<1>6. Joins(t, s, e, K)
  BY <1>1, <1>2, <1>3, <1>4, <1>5 DEF Joins
<1>7. QED
  BY <1>6 DEF t

(* The scan of s goes on to open and out at e.                             *)
ScansTo(s, e, open, out) == Scan(Scanned(s)[Len(s)], e) = [open |-> open, out |-> out]

(* What the scan makes of one message and its markers.                     *)
LEMMA ScanJoined ==
  ASSUME NEW s \in Seq(Message), NEW e \in Message, NEW C \in SUBSET Calls,
         NEW K, AreMarkers(K, C), NEW t, Joins(t, s, e, K),
         NEW open, NEW out, ScansTo(s, e, open, out), C \subseteq open
  PROVE  ScanIs(t, Len(t), open \ C, out \o K)
<1> DEFINE p == Len(s) + 1
<1>1. Len(s) \in Nat /\ Len(K) \in Nat /\ p \in Nat
  BY DEF AreMarkers
<1>2. t \in Seq(Message) /\ Len(t) = p + Len(K) /\ t[p] = e
  BY DEF Joins
<1>3. \A i \in 1 .. Len(K) : t[p + i] = K[i]
  BY DEF Joins
<1>4. Scanned(s) \in [0 .. Len(s) -> Scans]
  BY ScannedUnfolds
<1>5. \A n \in 1 .. Len(t) : Scanned(t)[n] = Scan(Scanned(t)[n - 1], t[n])
  BY <1>2, ScannedUnfolds
<1>6. p \in 1 .. Len(t) /\ p - 1 = Len(s) /\ Len(s) \in 0 .. Len(s) /\ Len(s) =< Len(t)
  BY <1>1, <1>2
<1>7. \A i \in 1 .. Len(s) : t[i] = s[i]
  BY DEF Joins
<1>8. \A n \in 0 .. Len(s) : Scanned(t)[n] = Scanned(s)[n]
  BY <1>2, <1>6, <1>7, ScannedByPrefix
<1>9. Scanned(t)[p] = Scan(Scanned(t)[p - 1], t[p])
  BY <1>5, <1>6
<1>10. Scanned(t)[p] = Scan(Scanned(s)[Len(s)], e)
  BY <1>2, <1>6, <1>8, <1>9
<1>11. Scan(Scanned(s)[Len(s)], e) \in Scans
  BY <1>4, <1>6, ScanTyped
<1>12. [open |-> open, out |-> out] \in Scans
  BY <1>11 DEF ScansTo
<1>13. open \in SUBSET Calls /\ out \in Seq(Message)
  BY <1>12 DEF Scans
<1>14. ScanIs(t, p, open, out)
  BY <1>10 DEF ScanIs, ScansTo
<1>15. EndsWith(t, p, K)
  BY <1>2, <1>3 DEF EndsWith
<1> HIDE DEF p
<1>16. QED
  BY <1>1, <1>2, <1>13, <1>14, <1>15, MarkersScanned

(* Both ways to add one message.                                           *)
LEMMA AppendIsConcat ==
  ASSUME NEW s \in Seq(Message), NEW e \in Message
  PROVE  s \o <<e>> = Append(s, e)
OBVIOUS

(* The scan of the sanitized transcript is the view message by message.    *)
Placed(m, n) ==
  Upto(m, n) = [open |-> OpenAt(m, n), out |-> InPlace(m)[n]]

(* It stays so with one more message.                                      *)
LEMMA PlaceStep ==
  ASSUME NEW m, Transcript(m), NEW n \in 1 .. Len(m), Placed(m, n - 1)
  PROVE  Placed(m, n)
<1> DEFINE e == m[n]
           C == Unanswered(m, n)
           K == MarkersFor(C)
           s == Sanitized(m)[n - 1]
           open == OpenAt(m, n - 1)
           out == InPlace(m)[n - 1]
           acc == Scan([open |-> open, out |-> out], e)
<1>1. m \in Seq(Message) /\ Len(m) \in Nat /\ IsMessage(e) /\ e \in Message
      /\ e.role \in {"user", "assistant", "tool"}
  BY DEF Transcript, IsMessage, Message
<1>2. C \in SUBSET Calls /\ C \subseteq e.ids /\ (e.role # "assistant" => C = {})
      /\ e.ids \subseteq Calls
  BY <1>1, UnansweredCalls
<1>3. K \in Seq(Message) /\ (C = {} => K = <<>>)
  BY <1>2, Markers
<1>4. AreMarkers(K, C)
  BY <1>2, MarkersForAre
<1>5. s \in Seq(Message) /\ Sanitized(m)[n] = s \o <<e>> \o K
  <2>1. n - 1 \in 0 .. Len(m)
    BY <1>1
  <2>2. QED
    BY <1>1, <2>1, SanitizedUnfolds
<1>6. InPlace(m)[n] = IF Kept(m, n) THEN out \o <<e>> \o K ELSE out
  BY <1>1, InPlaceUnfolds, UnresolvedIsUnanswered
<1>7. Scanned(s)[Len(s)] = [open |-> open, out |-> out]
  BY DEF Placed, Upto
<1>8. out \in Seq(Message) /\ open \in SUBSET Calls
  <2>1. Scanned(s)[Len(s)] \in Scans
    <3> HIDE DEF s
    <3>1. Len(s) \in 0 .. Len(s)
      BY <1>5
    <3>2. QED
      BY <1>5, <3>1, ScannedUnfolds
  <2>2. QED
    BY <1>7, <2>1 DEF Scans
<1> HIDE DEF C, K, s, open, out, e
<1>9. ASSUME NEW o, NEW r, acc = [open |-> o, out |-> r], C \subseteq o
      PROVE  Upto(m, n) = [open |-> o \ C, out |-> r \o K]
  <2> DEFINE t == Sanitized(m)[n]
  <2>1. Joins(t, s, e, K)
    BY <1>1, <1>3, <1>5, Joined
  <2>2. ScansTo(s, e, o, r)
    BY <1>7, <1>9 DEF ScansTo
  <2> HIDE DEF t, acc
  <2>3. ScanIs(t, Len(t), o \ C, r \o K)
    BY <1>1, <1>2, <1>4, <1>5, <1>9, <2>1, <2>2, ScanJoined
  <2>4. QED
    BY <2>3 DEF Upto, t, ScanIs
<1>10. e.role # "tool" => open = {}
  BY OutstandingNext DEF open, OpenAt, e
<1>11. OpenAt(m, n) = {c \in open : e.role = "tool" /\ e.ids # {c}}
                       \cup (IF e.role = "assistant" THEN e.ids \ C ELSE {})
  <2>1. \A i \in 1 .. n : i \in 1 .. n - 1 \/ i = n
    BY <1>1
  <2>2. n \in 1 .. n /\ \A i \in 1 .. n - 1 : i \in 1 .. n
    BY <1>1
  <2>3. \A c \in Calls : Outstanding(m, n, n, c) <=>
                           e.role = "assistant" /\ c \in e.ids /\ c \notin C
    BY <1>1 DEF Outstanding, Expects, C, Unanswered, e
  <2>4. \A c \in Calls : (\E i \in 1 .. n - 1 : Outstanding(m, n, i, c)) <=>
                           c \in open /\ e.role = "tool" /\ e.ids # {c}
    BY OutstandingOlder DEF open, OpenAt, e
  <2>5. \A c \in Calls : (\E i \in 1 .. n : Outstanding(m, n, i, c)) <=>
           \/ c \in open /\ e.role = "tool" /\ e.ids # {c}
           \/ e.role = "assistant" /\ c \in e.ids /\ c \notin C
    BY <2>1, <2>2, <2>3, <2>4
  <2>6. QED
    BY <1>2, <1>8, <2>5 DEF OpenAt
<1>12. out \o <<e>> = Append(out, e) /\ out \o <<e>> \o K = Append(out, e) \o K
  BY <1>1, <1>8, AppendIsConcat
<1>13. CASE e.role = "assistant"
  <2>1. acc = [open |-> e.ids, out |-> Append(out, e)]
    BY <1>10, <1>13 DEF Scan
  <2>2. Upto(m, n) = [open |-> e.ids \ C, out |-> Append(out, e) \o K]
    <3> HIDE DEF acc
    <3>1. QED
      BY <1>2, <1>9, <2>1
  <2>3. OpenAt(m, n) = e.ids \ C
    BY <1>11, <1>13
  <2>4. Kept(m, n)
    BY <1>13 DEF Kept, e
  <2>5. QED
    BY <1>6, <1>12, <2>2, <2>3, <2>4 DEF Placed
<1>14. CASE e.role = "user"
  <2>1. acc = [open |-> {}, out |-> Append(out, e)] /\ C = {}
    BY <1>2, <1>10, <1>14 DEF Scan
  <2>2. Upto(m, n) = [open |-> {}, out |-> Append(out, e) \o K]
    <3> HIDE DEF acc
    <3>1. {} \ C = {}
      OBVIOUS
    <3>2. QED
      BY <1>9, <2>1, <3>1
  <2>3. OpenAt(m, n) = {}
    BY <1>11, <1>14
  <2>4. Kept(m, n)
    BY <1>14 DEF Kept, e
  <2>5. QED
    BY <1>6, <1>12, <2>2, <2>3, <2>4 DEF Placed
<1>15. CASE e.role = "tool"
  <2>1. PICK c \in Calls : e.ids = {c}
    BY <1>1, <1>15 DEF IsMessage
  <2>2. C = {} /\ K = <<>>
    BY <1>2, <1>3, <1>15
  <2>3. OpenAt(m, n) = open \ {c}
    BY <1>11, <1>15, <2>1
  <2>4. CASE c \in open
    <3>1. Kept(m, n)
      BY <1>15, <2>1, <2>4, KeptIsOpen DEF open, e
    <3>2. acc = [open |-> open \ {c}, out |-> Append(out, e)]
      BY <1>15, <2>1, <2>4 DEF Scan, OpenAfter
    <3>3. Upto(m, n) = [open |-> open \ {c}, out |-> Append(out, e) \o K]
      <4> HIDE DEF acc
      <4>1. C \subseteq open \ {c} /\ (open \ {c}) \ C = open \ {c}
        BY <2>2
      <4>2. QED
        BY <1>9, <3>2, <4>1
    <3>4. QED
      BY <1>6, <1>12, <2>3, <3>1, <3>3 DEF Placed
  <2>5. CASE c \notin open
    <3>1. ~ Kept(m, n)
      BY <1>15, <2>1, <2>5, KeptIsOpen DEF open, e
    <3>2. acc = [open |-> open, out |-> out]
      BY <1>15, <2>1, <2>5 DEF Scan
    <3>3. Upto(m, n) = [open |-> open, out |-> out \o <<>>]
      <4> HIDE DEF acc
      <4>1. C \subseteq open /\ open \ C = open
        BY <2>2
      <4>2. QED
        BY <1>9, <2>2, <3>2, <4>1
    <3>4. out \o <<>> = out /\ open \ {c} = open
      BY <1>8, <2>5
    <3>5. QED
      BY <1>6, <2>3, <3>1, <3>3, <3>4 DEF Placed
  <2>6. QED
    BY <2>4, <2>5
<1>16. QED
  BY <1>1, <1>13, <1>14, <1>15

(* The two passes change what they must and nothing else: their result is  *)
(* ViewInPlace, message by message.                                        *)
THEOREM ViewIsInPlace ==
  ASSUME NEW m, Transcript(m)
  PROVE  View(m) = ViewInPlace(m)
<1> DEFINE N == Len(m)
           P == {n \in 0 .. N : Placed(m, n)}
<1>0. m \in Seq(Message) /\ N \in Nat
  BY DEF Transcript
<1>1. 0 \in P
  <2>1. Sanitized(m)[0] = <<>> /\ InPlace(m)[0] = <<>>
    BY <1>0, SanitizedUnfolds, InPlaceUnfolds
  <2>2. Scanned(<<>>)[0] = [open |-> {}, out |-> <<>>] /\ Len(<<>>) = 0
    <3>1. <<>> \in Seq(Message)
      OBVIOUS
    <3>2. QED
      BY <3>1, ScannedUnfolds
  <2>3. OpenAt(m, 0) = {}
    BY DEF OpenAt
  <2>4. Placed(m, 0)
    BY <2>1, <2>2, <2>3 DEF Placed, Upto
  <2>5. QED
    BY <1>0, <2>4
<1>2. ASSUME NEW n \in 1 .. N, n - 1 \in P PROVE n \in P
  BY <1>2, PlaceStep
<1>3. 0 .. N \subseteq P
  <2> HIDE DEF P
  <2>1. QED
    BY <1>0, <1>1, <1>2, UpTo
<1>4. Placed(m, N)
  BY <1>0, <1>3
<1>5. Upto(m, N).out = InPlace(m)[N]
  BY <1>4 DEF Placed
<1>6. QED
  BY <1>5 DEF Upto, View, ViewInPlace, SanitizeOrphanedToolCalls, DropOrphanedToolResults

-----------------------------------------------------------------------------
(* Whether a message is kept depends on what is in front of it only.       *)
LEMMA KeptByPrefix ==
  ASSUME NEW m, NEW n, NEW j \in Nat, \A k \in 1 .. j : m[k] = n[k], j >= 1, Kept(m, j)
  PROVE  Kept(n, j)
<1> SUFFICES ASSUME n[j].role = "tool" PROVE \E i \in 1 .. j - 1 : Resolves(n, j, i)
  BY DEF Kept
<1>1. m[j] = n[j]
  OBVIOUS
<1>2. PICK i \in 1 .. j - 1 : Resolves(m, j, i)
  BY <1>1 DEF Kept
<1>3. Follows(n, j, i)
  BY <1>2 DEF Resolves, Follows
<1>4. m[i] = n[i] /\ \A k \in i + 1 .. j - 1 : m[k] = n[k]
  OBVIOUS
<1>5. Resolves(n, j, i)
  BY <1>1, <1>2, <1>3, <1>4 DEF Resolves
<1>6. QED
  BY <1>5

(* A turn in its tool calls has made the last reply: what is behind it are *)
(* results, none of them of a call that is still to be done.               *)
StepIsLast ==
  \A t \in Turns : pc[t] = "tools" =>
    \E i \in 1 .. Len(messages) :
      /\ messages[i].role = "assistant"
      /\ todo[t] \subseteq messages[i].ids
      /\ \A k \in i + 1 .. Len(messages) :
           messages[k].role = "tool" /\ messages[k].ids \cap todo[t] = {}

\* The inductive invariant: a turn with calls to answer is at its tools, and in a clean run
\* no other is active and its reply is the last but for results.
IInv ==
  /\ TypeOK
  /\ \A t \in Turns : todo[t] # {} => pc[t] = "tools"
  /\ clean => /\ \A t, u \in Turns : Active(t) /\ Active(u) => t = u
              /\ StepIsLast
  /\ ResultsAreShown

(* It holds at first.                                                      *)
LEMMA InitIInv == Init => IInv
  BY DEF Init, IInv, TypeOK, Active, StepIsLast, ResultsAreShown, Kept

(* What holds of a transcript holds when a message that is no result is    *)
(* appended.                                                               *)
LEMMA AppendKeeps ==
  ASSUME NEW m \in Seq(Message), NEW e \in Message, e.role # "tool",
         \A j \in 1 .. Len(m) : Kept(m, j)
  PROVE  \A j \in 1 .. Len(Append(m, e)) : Kept(Append(m, e), j)
<1> DEFINE n == Append(m, e)
<1>1. Len(n) = Len(m) + 1 /\ n[Len(m) + 1] = e /\ \A k \in 1 .. Len(m) : n[k] = m[k]
  OBVIOUS
<1>2. ASSUME NEW j \in 1 .. Len(m) PROVE Kept(n, j)
  <2>1. \A k \in 1 .. j : m[k] = n[k]
    BY <1>1
  <2>2. j \in Nat /\ j >= 1 /\ Kept(m, j)
    OBVIOUS
  <2> HIDE DEF n
  <2>3. QED
    BY <2>1, <2>2, KeptByPrefix
<1>3. Kept(n, Len(m) + 1)
  BY <1>1 DEF Kept
<1>4. QED
  BY <1>1, <1>2, <1>3

(* Appending a message makes it a transcript.                              *)
LEMMA AppendTyped ==
  ASSUME TypeOK, NEW t, NEW e, IsMessage(e), Push(t, e)
  PROVE  /\ messages' \in Seq(Message)
         /\ \A i \in 1 .. Len(messages') : IsMessage(messages'[i])
         /\ Len(messages') = Len(messages) + 1
         /\ messages'[Len(messages')] = e
         /\ \A i \in 1 .. Len(messages) : messages'[i] = messages[i]
<1>1. messages \in Seq(Message) /\ e \in Message /\ messages' = Append(messages, e)
  BY DEF TypeOK, IsMessage, Push
<1>2. Len(messages') = Len(messages) + 1 /\ messages'[Len(messages) + 1] = e
  BY <1>1
<1>3. \A i \in 1 .. Len(messages) : messages'[i] = messages[i]
  BY <1>1
<1>4. \A i \in 1 .. Len(messages') : IsMessage(messages'[i])
  BY <1>2, <1>3 DEF TypeOK
<1>5. QED
  BY <1>1, <1>2, <1>3, <1>4

(* The messages the code makes.                                            *)
LEMMA Roles ==
  /\ IsMessage(User) /\ User.role = "user"
  /\ \A C \in SUBSET Calls : IsMessage(Reply(C)) /\ Reply(C).role = "assistant"
                             /\ Reply(C).ids = C
  /\ \A c \in Calls : /\ IsMessage(ToolResult(c)) /\ ToolResult(c).role = "tool"
                      /\ ToolResult(c).ids = {c}
                      /\ IsMessage(Interrupted(c)) /\ Interrupted(c).role = "tool"
                      /\ Interrupted(c).ids = {c}
BY DEF IsMessage, Message, User, Reply, ToolResult, Interrupted

(* Steps that leave the transcript alone and start no tool calls.          *)
LEMMA SilentStep ==
  ASSUME IInv, NEW t \in Turns, UNCHANGED <<messages, start, used, clean>>,
         told' \subseteq Calls,
         Active(t),
         \/ /\ pc' = [pc EXCEPT ![t] = "over"]
            /\ todo' = [todo EXCEPT ![t] = {}]
         \/ /\ todo[t] = {} /\ UNCHANGED todo
            /\ \E next \in {"core", "asking", "over"} : pc' = [pc EXCEPT ![t] = next]
  PROVE  IInv'
<1>1. TypeOK'
  BY DEF IInv, TypeOK, Active
<1>2. /\ \A u \in Turns : Active(u)' => Active(u)
      /\ \A u \in Turns : pc'[u] = "tools" => pc[u] = "tools" /\ todo'[u] = todo[u]
      /\ \A u \in Turns : todo'[u] # {} => pc'[u] = "tools"
  BY DEF IInv, TypeOK, Active
<1>3. clean' => \A u, v \in Turns : Active(u)' /\ Active(v)' => u = v
  BY <1>2 DEF IInv
<1>4. clean' => StepIsLast'
  BY <1>2 DEF IInv, StepIsLast
<1>5. ResultsAreShown'
  BY DEF IInv, ResultsAreShown
<1>6. QED
  BY <1>1, <1>2, <1>3, <1>4, <1>5 DEF IInv

(* A model is shown something: some calls more may be told interrupted.    *)
LEMMA ShownTold ==
  ASSUME TypeOK, NEW v, Shown(v)
  PROVE  told' \subseteq Calls
BY DEF TypeOK, Shown
(* A message that is no result: of the user, of an agent that answers, or  *)
(* of one that calls tools, by a turn that has no call to do.              *)
LEMMA MessageStep ==
  ASSUME IInv, NEW t \in Turns, NEW e, IsMessage(e), e.role # "tool", Push(t, e),
         NEW next \in {"core", "asking", "tools", "over"}, pc' = [pc EXCEPT ![t] = next],
         next = "tools" => e.role = "assistant",
         todo[t] = {},
         todo' = [todo EXCEPT ![t] = IF next = "tools" THEN e.ids ELSE {}],
         used' \subseteq Calls, told' \subseteq Calls,
         \/ Active(t) /\ UNCHANGED <<start, clean>> /\ pc[t] # "tools"
         \/ /\ start' = [start EXCEPT ![t] = Len(messages')]
            /\ clean' = (clean /\ \A u \in Turns : ~Active(u))
  PROVE  IInv'
<1>1. /\ messages' \in Seq(Message)
      /\ \A i \in 1 .. Len(messages') : IsMessage(messages'[i])
      /\ Len(messages') = Len(messages) + 1
      /\ messages'[Len(messages')] = e
      /\ \A i \in 1 .. Len(messages) : messages'[i] = messages[i]
  <2> USE DEF IInv
  <2> QED BY AppendTyped
<1>2. e.ids \in SUBSET Calls /\ Len(messages) \in Nat /\ Len(messages') \in Nat
  BY <1>1 DEF IsMessage, Message, IInv, TypeOK
<1>3. TypeOK'
  <2>1. start' \in [Turns -> Nat] /\ clean' \in BOOLEAN
    BY <1>2 DEF IInv, TypeOK
  <2>2. \A u \in Turns : Active(u)' => start'[u] =< Len(messages')
    BY <1>1, <1>2 DEF IInv, TypeOK, Active
  <2>3. todo' \in [Turns -> SUBSET Calls] /\ pc' \in [Turns -> {"new", "core", "asking", "tools", "over"}]
    BY <1>2 DEF IInv, TypeOK
  <2>4. QED
    BY <1>1, <2>1, <2>2, <2>3 DEF TypeOK
<1>4. \A u \in Turns : todo'[u] # {} => pc'[u] = "tools"
  BY DEF IInv, TypeOK
<1>5. clean' => clean /\ \A u \in Turns : Active(u) => u = t
  BY DEF IInv
<1>6. clean' => \A u, v \in Turns : Active(u)' /\ Active(v)' => u = v
  BY <1>5 DEF Active, IInv, TypeOK
<1>7. clean' => StepIsLast'
  <2> SUFFICES ASSUME clean', NEW u \in Turns, pc'[u] = "tools"
               PROVE  \E i \in 1 .. Len(messages') :
                        /\ messages'[i].role = "assistant"
                        /\ todo'[u] \subseteq messages'[i].ids
                        /\ \A k \in i + 1 .. Len(messages') :
                             messages'[k].role = "tool" /\ messages'[k].ids \cap todo'[u] = {}
    BY DEF StepIsLast
  <2>1. u = t
    BY <1>5 DEF Active, IInv, TypeOK
  <2>2. next = "tools" /\ todo'[u] = e.ids
    BY <2>1 DEF IInv, TypeOK
  <2>3. Len(messages') \in 1 .. Len(messages')
    BY <1>1, <1>2
  <2>4. \A k \in Len(messages') + 1 .. Len(messages') : FALSE
    BY <1>2
  <2>5. QED
    BY <1>1, <2>2, <2>3, <2>4
<1>8. ResultsAreShown'
  <2> SUFFICES ASSUME clean' PROVE \A j \in 1 .. Len(messages') : Kept(messages', j)
    BY DEF ResultsAreShown
  <2>1. messages \in Seq(Message) /\ e \in Message /\ messages' = Append(messages, e)
    BY DEF IInv, TypeOK, IsMessage, Push
  <2>2. \A j \in 1 .. Len(messages) : Kept(messages, j)
    BY <1>5 DEF IInv, ResultsAreShown
  <2>3. QED
    BY <2>1, <2>2, AppendKeeps
<1>9. QED
  BY <1>3, <1>4, <1>6, <1>7, <1>8 DEF IInv

(* Results are put behind the reply of a turn, each of a call to do.       *)
Adds(t, added) ==
  /\ pc[t] = "tools"
  /\ added \in Seq(Message)
  /\ messages' = messages \o added
  /\ \A n \in 1 .. Len(added) : \E c \in todo[t] :
       added[n] = ToolResult(c) \/ added[n] = Interrupted(c)
  /\ \A n, k \in 1 .. Len(added) : added[n].ids = added[k].ids => n = k
  /\ UNCHANGED <<start, used, told, clean>>
  /\ \/ /\ pc' = [pc EXCEPT ![t] = "over"]
        /\ todo' = [todo EXCEPT ![t] = {}]
     \/ /\ UNCHANGED pc
        /\ todo' = [todo EXCEPT ![t] = {c \in @ : \A n \in 1 .. Len(added) : added[n].ids # {c}}]

(* Results behind the reply of the one turn that runs: one result, or a    *)
(* marker for each of several calls.                                       *)
LEMMA ResultsStep ==
  ASSUME IInv, NEW t \in Turns, pc[t] = "tools",
         NEW added \in Seq(Message),
         messages' = messages \o added,
         \A n \in 1 .. Len(added) : \E c \in todo[t] :
           IsMessage(added[n]) /\ added[n].role = "tool" /\ added[n].ids = {c},
         \A n, k \in 1 .. Len(added) : added[n].ids = added[k].ids => n = k,
         UNCHANGED <<start, used, told, clean>>,
         \/ /\ pc' = [pc EXCEPT ![t] = "over"]
            /\ todo' = [todo EXCEPT ![t] = {}]
         \/ /\ UNCHANGED pc
            /\ todo' = [todo EXCEPT ![t] = {c \in @ : \A n \in 1 .. Len(added) : added[n].ids # {c}}]
  PROVE  IInv'
<1>1. /\ messages \in Seq(Message) /\ messages' \in Seq(Message)
      /\ Len(messages) \in Nat /\ Len(added) \in Nat
      /\ Len(messages') = Len(messages) + Len(added)
      /\ \A k \in 1 .. Len(messages) : messages'[k] = messages[k]
      /\ \A k \in Len(messages) + 1 .. Len(messages') : messages'[k] = added[k - Len(messages)]
  BY DEF IInv, TypeOK
<1>2. \A k \in Len(messages) + 1 .. Len(messages') : \E c \in todo[t] :
        /\ IsMessage(messages'[k]) /\ messages'[k].role = "tool"
        /\ messages'[k].ids = {c}
  <2> SUFFICES ASSUME NEW k \in Len(messages) + 1 .. Len(messages')
               PROVE  \E c \in todo[t] :
                        /\ IsMessage(messages'[k]) /\ messages'[k].role = "tool"
                        /\ messages'[k].ids = {c}
    OBVIOUS
  <2>1. k - Len(messages) \in 1 .. Len(added) /\ messages'[k] = added[k - Len(messages)]
    BY <1>1
  <2>2. QED
    BY <2>1
<1>3. \A k, l \in Len(messages) + 1 .. Len(messages') :
        messages'[k].ids = messages'[l].ids => k = l
  <2> SUFFICES ASSUME NEW k \in Len(messages) + 1 .. Len(messages'),
                      NEW l \in Len(messages) + 1 .. Len(messages'),
                      messages'[k].ids = messages'[l].ids
               PROVE  k = l
    OBVIOUS
  <2>1. k - Len(messages) \in 1 .. Len(added) /\ l - Len(messages) \in 1 .. Len(added)
    BY <1>1
  <2>2. added[k - Len(messages)].ids = added[l - Len(messages)].ids
    BY <1>1
  <2>3. k - Len(messages) = l - Len(messages)
    BY <2>1, <2>2
  <2>4. QED
    BY <1>1, <2>3
<1>4. TypeOK'
  <2>1. ASSUME NEW k \in 1 .. Len(messages') PROVE IsMessage(messages'[k])
    <3>1. CASE k =< Len(messages)
      BY <1>1, <3>1 DEF IInv, TypeOK
    <3>2. CASE k > Len(messages)
      <4>1. k \in Len(messages) + 1 .. Len(messages')
        BY <1>1, <3>2
      <4>2. QED
        BY <1>2, <4>1
    <3>3. QED
      BY <1>1, <3>1, <3>2
  <2>2. pc' \in [Turns -> {"new", "core", "asking", "tools", "over"}]
    BY DEF IInv, TypeOK
  <2>3. todo' \in [Turns -> SUBSET Calls]
    <3>1. todo \in [Turns -> SUBSET Calls]
      BY DEF IInv, TypeOK
    <3>2. {c \in todo[t] : \A n \in 1 .. Len(added) : added[n].ids # {c}} \in SUBSET Calls
      BY <3>1
    <3>3. PICK S \in SUBSET Calls : todo' = [todo EXCEPT ![t] = S]
      BY <3>2
    <3>4. QED
      BY <3>1, <3>3
  <2>4. \A u \in Turns : Active(u)' => start'[u] =< Len(messages')
    BY <1>1 DEF IInv, TypeOK, Active
  <2>5. QED
    BY <1>1, <2>1, <2>2, <2>3, <2>4 DEF IInv, TypeOK
<1>5. \A u \in Turns : todo'[u] # {} => pc'[u] = "tools"
  <2>1. /\ todo \in [Turns -> SUBSET Calls] /\ DOMAIN pc = Turns
        /\ \A u \in Turns : todo[u] # {} => pc[u] = "tools"
    BY DEF IInv, TypeOK
  <2>2. CASE pc' = [pc EXCEPT ![t] = "over"] /\ todo' = [todo EXCEPT ![t] = {}]
    BY <2>1, <2>2
  <2>3. CASE /\ UNCHANGED pc
             /\ todo' = [todo EXCEPT ![t] = {c \in @ : \A n \in 1 .. Len(added) : added[n].ids # {c}}]
    <3>1. \A u \in Turns : u # t => todo'[u] = todo[u]
      BY <2>1, <2>3
    <3>2. QED
      BY <2>1, <2>3, <3>1
  <2>4. QED
    BY <2>2, <2>3
<1>6. clean' => clean /\ \A u \in Turns : Active(u) => u = t
  BY DEF IInv, Active
<1>7. clean' => \A u, v \in Turns : Active(u)' /\ Active(v)' => u = v
  BY <1>6 DEF Active, IInv, TypeOK
<1>8. ASSUME clean
      PROVE  \E i \in 1 .. Len(messages) :
               /\ messages[i].role = "assistant" /\ todo[t] \subseteq messages[i].ids
               /\ \A k \in i + 1 .. Len(messages) :
                    messages[k].role = "tool" /\ messages[k].ids \cap todo[t] = {}
  BY <1>8 DEF IInv, StepIsLast
<1>9. ASSUME clean' PROVE StepIsLast'
  <2>1. PICK i \in 1 .. Len(messages) :
               /\ messages[i].role = "assistant" /\ todo[t] \subseteq messages[i].ids
               /\ \A k \in i + 1 .. Len(messages) :
                    messages[k].role = "tool" /\ messages[k].ids \cap todo[t] = {}
    BY <1>8, <1>9
  <2> SUFFICES ASSUME NEW u \in Turns, pc'[u] = "tools"
               PROVE  \E l \in 1 .. Len(messages') :
                        /\ messages'[l].role = "assistant"
                        /\ todo'[u] \subseteq messages'[l].ids
                        /\ \A k \in l + 1 .. Len(messages') :
                             messages'[k].role = "tool" /\ messages'[k].ids \cap todo'[u] = {}
    BY DEF StepIsLast
  <2>2. u = t /\ UNCHANGED pc
    BY <1>6, <1>9 DEF Active, IInv, TypeOK
  <2>3. todo'[t] = {c \in todo[t] : \A n \in 1 .. Len(added) : added[n].ids # {c}}
    BY <2>2 DEF IInv, TypeOK
  <2>4. i \in 1 .. Len(messages') /\ messages'[i] = messages[i] /\ todo'[u] \subseteq todo[t]
    BY <1>1, <2>2, <2>3
  <2>5. ASSUME NEW k \in i + 1 .. Len(messages')
        PROVE  messages'[k].role = "tool" /\ messages'[k].ids \cap todo'[u] = {}
    <3>1. CASE k =< Len(messages)
      BY <1>1, <2>1, <2>4, <3>1
    <3>2. CASE k > Len(messages)
      <4>1. k \in Len(messages) + 1 .. Len(messages') /\ k - Len(messages) \in 1 .. Len(added)
        BY <1>1, <3>2
      <4>2. \A c \in todo'[t] : messages'[k].ids # {c}
        BY <1>1, <4>1, <2>3
      <4>3. QED
        BY <1>2, <4>1, <4>2, <2>2
    <3>3. QED
      BY <1>1, <3>1, <3>2
  <2>6. QED
    BY <2>1, <2>4, <2>5
<1>10. ResultsAreShown'
  <2> SUFFICES ASSUME clean', NEW j \in 1 .. Len(messages') PROVE Kept(messages', j)
    BY DEF ResultsAreShown
  <2>1. PICK i \in 1 .. Len(messages) :
               /\ messages[i].role = "assistant" /\ todo[t] \subseteq messages[i].ids
               /\ \A k \in i + 1 .. Len(messages) :
                    messages[k].role = "tool" /\ messages[k].ids \cap todo[t] = {}
    BY <1>8
  <2>2. CASE j =< Len(messages)
    <3>1. Kept(messages, j) /\ j \in Nat /\ j >= 1 /\ \A k \in 1 .. j : messages[k] = messages'[k]
      BY <1>1, <2>2 DEF IInv, ResultsAreShown
    <3>2. QED
      BY <3>1, KeptByPrefix
  <2>3. CASE j > Len(messages)
    <3>1. j \in Len(messages) + 1 .. Len(messages') /\ i \in 1 .. j - 1
      BY <1>1, <2>3
    <3>2. PICK c \in todo[t] : messages'[j].ids = {c}
      BY <1>2, <3>1
    <3>3. \A k \in i + 1 .. j : messages'[k].role = "tool"
      BY <1>1, <1>2, <2>1, <3>1
    <3>4. ASSUME NEW k \in i + 1 .. j - 1 PROVE messages'[k].ids # messages'[j].ids
      <4>1. CASE k =< Len(messages)
        <5>1. k \in i + 1 .. Len(messages) /\ messages'[k] = messages[k]
          BY <1>1, <3>1, <4>1
        <5>2. messages'[k].ids \cap todo[t] = {} /\ c \in messages'[j].ids
          BY <2>1, <3>2, <5>1
        <5>3. QED
          BY <5>2
      <4>2. CASE k > Len(messages)
        <5>1. /\ k \in Len(messages) + 1 .. Len(messages')
              /\ j \in Len(messages) + 1 .. Len(messages') /\ k # j
          BY <1>1, <3>1, <4>2
        <5>2. QED
          BY <1>3, <5>1
      <4>3. QED
        BY <1>1, <3>1, <4>1, <4>2
    <3>5. messages'[i].role = "assistant" /\ messages'[j].ids \subseteq messages'[i].ids
      BY <1>1, <2>1, <3>2
    <3>6. Follows(messages', j, i)
      BY <3>1, <3>3 DEF Follows
    <3>7. Resolves(messages', j, i)
      BY <3>4, <3>5, <3>6 DEF Resolves
    <3>8. QED
      BY <3>1, <3>7 DEF Kept
  <2>4. QED
    BY <1>1, <2>2, <2>3
<1>11. QED
  BY <1>4, <1>5, <1>7, <1>9, <1>10 DEF IInv

(* A concatenation, position by position.                                  *)
LEMMA Concatenation ==
  ASSUME NEW a \in Seq(Message), NEW b \in Seq(Message)
  PROVE  /\ a \o b \in Seq(Message)
         /\ Len(a \o b) = Len(a) + Len(b)
         /\ \A i \in 1 .. Len(a) + Len(b) :
              (a \o b)[i] = IF i =< Len(a) THEN a[i] ELSE b[i - Len(a)]
OBVIOUS

(* What is read back are rows of the log.                                  *)
LEMMA RowsOfTheLog ==
  ASSUME messages \in Seq(Message), NEW m, Reload(m)
  PROVE  /\ m \in Seq(Message)
         /\ \A i \in 1 .. Len(m) : \E n \in 1 .. Len(messages) : m[i] = messages[n]
<1>0. messages \in Seq(Message)
  OBVIOUS
<1>1. CASE m \in Flushed(messages)
  BY <1>0, <1>1 DEF Flushed
<1>2. CASE m \in Repeated(messages)
  <2>1. PICK a \in 1 .. Len(messages) : m = messages \o SubSeq(messages, a, Len(messages))
    BY <1>2 DEF Repeated
  <2> DEFINE tail == SubSeq(messages, a, Len(messages))
  <2>2. tail \in Seq(Message) /\ Len(tail) = Len(messages) - a + 1
    BY <1>0
  <2>3. \A i \in 1 .. Len(tail) : tail[i] = messages[a + i - 1]
    BY <1>0
  <2> HIDE DEF tail
  <2>4. m = messages \o tail
    BY <2>1 DEF tail
  <2>5. m \in Seq(Message) /\ Len(m) = Len(messages) + Len(tail)
    BY <1>0, <2>2, <2>4, Concatenation
  <2>6. \A i \in 1 .. Len(m) :
          m[i] = IF i =< Len(messages) THEN messages[i] ELSE tail[i - Len(messages)]
    BY <1>0, <2>2, <2>4, <2>5, Concatenation
  <2>7. ASSUME NEW i \in 1 .. Len(m) PROVE \E n \in 1 .. Len(messages) : m[i] = messages[n]
    <3>1. CASE i =< Len(messages)
      BY <1>0, <2>6, <3>1
    <3>2. CASE i > Len(messages)
      <4>1. i - Len(messages) \in 1 .. Len(tail)
        BY <1>0, <2>2, <2>5, <3>2
      <4>2. m[i] = messages[a + (i - Len(messages)) - 1]
        BY <1>0, <2>3, <2>6, <3>2, <4>1
      <4>3. a + (i - Len(messages)) - 1 \in 1 .. Len(messages)
        BY <1>0, <2>2, <4>1
      <4>4. QED
        BY <4>2, <4>3
    <3>3. QED
      BY <1>0, <2>5, <3>1, <3>2
  <2>8. QED
    BY <2>5, <2>7
<1>3. CASE m \in Swapped(messages)
  <2>1. PICK a \in 1 .. Len(messages) - 1 :
          m = [messages EXCEPT ![a] = messages[a + 1], ![a + 1] = messages[a]]
    BY <1>3 DEF Swapped
  <2>2. messages \in [1 .. Len(messages) -> Message] /\ Len(messages) \in Nat
    BY <1>0
  <2>3. m \in [1 .. Len(messages) -> Message]
    BY <2>1, <2>2
  <2>4. m \in Seq(Message) /\ Len(m) = Len(messages)
    BY <2>2, <2>3
  <2>5. a \in 1 .. Len(messages) /\ a + 1 \in 1 .. Len(messages)
    BY <2>2
  <2>6. \A i \in 1 .. Len(messages) :
          m[i] = messages[i] \/ m[i] = messages[a + 1] \/ m[i] = messages[a]
    BY <2>1, <2>2
  <2>7. QED
    BY <2>4, <2>5, <2>6
<1>4. QED
  BY <1>1, <1>2, <1>3 DEF Reload

(* The log is read back: nothing runs, and a prefix keeps what it has.     *)
LEMMA ReloadStep ==
  ASSUME IInv, NEW m, Reload(m)
  PROVE  IInv'
<1>1. messages \in Seq(Message) /\ messages' = m
  BY DEF IInv, TypeOK, Reload
<1>2. m \in Seq(Message) /\ \A i \in 1 .. Len(m) : \E n \in 1 .. Len(messages) : m[i] = messages[n]
  BY <1>1, RowsOfTheLog
<1>3. \A t \in Turns : ~Active(t)' /\ todo'[t] = {} /\ pc'[t] # "tools"
  BY DEF Reload, Active, IInv, TypeOK
<1>4. TypeOK'
  <2>1. \A i \in 1 .. Len(messages') : IsMessage(messages'[i])
    BY <1>1, <1>2 DEF IInv, TypeOK
  <2>2. /\ pc' \in [Turns -> {"new", "core", "asking", "tools", "over"}]
        /\ todo' \in [Turns -> SUBSET Calls]
        /\ start' \in [Turns -> Nat]
        /\ used' \subseteq Calls /\ told' \subseteq Calls
        /\ clean' \in BOOLEAN
    BY DEF Reload, IInv, TypeOK
  <2>3. QED
    BY <1>1, <1>2, <1>3, <2>1, <2>2 DEF TypeOK
<1>5. ResultsAreShown'
  <2> SUFFICES ASSUME clean', NEW j \in 1 .. Len(messages') PROVE Kept(messages', j)
    BY DEF ResultsAreShown
  <2>1. PICK n \in 0 .. Len(messages) : m = SubSeq(messages, 1, n)
    BY DEF Reload, Flushed
  <2>2. Len(m) = n /\ \A k \in 1 .. n : m[k] = messages[k]
    BY <1>1, <2>1
  <2>3. j \in 1 .. Len(messages) /\ j \in Nat /\ j >= 1 /\ \A k \in 1 .. j : messages[k] = m[k]
    BY <1>1, <2>2
  <2>4. Kept(messages, j)
    BY <2>3 DEF Reload, IInv, ResultsAreShown
  <2>5. QED
    BY <1>1, <2>3, <2>4, KeptByPrefix
<1>6. QED
  BY <1>3, <1>4, <1>5 DEF IInv, StepIsLast

-----------------------------------------------------------------------------
(* A result of one call.                                                   *)
LEMMA ResultAdds ==
  ASSUME TypeOK, NEW t \in Turns, NEW c \in Calls, Result(t, c)
  PROVE  \E added : Adds(t, added)
<1> DEFINE added == <<ToolResult(c)>>
<1>1. /\ IsMessage(ToolResult(c)) /\ ToolResult(c).role = "tool"
      /\ ToolResult(c).ids = {c}
  BY Roles
<1>2. added \in Seq(Message) /\ Len(added) = 1 /\ added[1] = ToolResult(c)
  BY <1>1 DEF IsMessage
<1>3. messages' = messages \o added
  BY <1>1 DEF Result, Push, TypeOK, IsMessage
<1>4. UNCHANGED pc /\ UNCHANGED <<start, used, told, clean>> /\ pc[t] = "tools" /\ c \in todo[t]
  BY DEF Result
<1>5. {d \in todo[t] : \A n \in 1 .. Len(added) : added[n].ids # {d}} = todo[t] \ {c}
  BY <1>1, <1>2
<1>6. todo' = [todo EXCEPT ![t] = {d \in @ : \A n \in 1 .. Len(added) : added[n].ids # {d}}]
  BY <1>5 DEF Result, Done
<1>7. \A n \in 1 .. Len(added) : \E d \in todo[t] :
        added[n] = ToolResult(d) \/ added[n] = Interrupted(d)
  BY <1>2, <1>4
<1>8. \A n, k \in 1 .. Len(added) : added[n].ids = added[k].ids => n = k
  BY <1>2
<1> HIDE DEF added
<1>9. Adds(t, added)
  BY <1>2, <1>3, <1>4, <1>6, <1>7, <1>8 DEF Adds
<1>10. QED
  BY <1>9

(* Markers of the call whose wallet failed and of those behind it.         *)
LEMMA LoseAdds ==
  ASSUME TypeOK, NEW t \in Turns, NEW c \in Calls, NEW cut \in BOOLEAN, Lose(t, c, cut)
  PROVE  \E added : Adds(t, added)
<1> DEFINE marked == IF cut THEN {c} ELSE todo[t]
<1>1. marked \subseteq todo[t] /\ pc[t] = "tools"
  BY DEF Lose
<1>2. IsFiniteSet(marked)
  BY <1>1, CallsAssumption, FS_Subset DEF TypeOK
<1>3. PICK order \in SetToSeqs(marked) :
        messages' = messages \o [n \in 1 .. Len(order) |-> Interrupted(order[n])]
  BY DEF Lose
<1>4. /\ Cardinality(marked) \in Nat
      /\ order \in [1 .. Cardinality(marked) -> marked]
      /\ \A n, k \in 1 .. Cardinality(marked) : n # k => order[n] # order[k]
  BY <1>2, FS_CardinalityType DEF SetToSeqs
<1> HIDE DEF marked
<1>5. Len(order) = Cardinality(marked) /\ Len(order) \in Nat
  BY <1>4
<1> DEFINE added == [n \in 1 .. Len(order) |-> Interrupted(order[n])]
<1>6. \A n \in 1 .. Len(order) : order[n] \in todo[t] /\ order[n] \in Calls
  BY <1>1, <1>4, <1>5 DEF TypeOK
<1>7. \A n \in 1 .. Len(order) : /\ IsMessage(Interrupted(order[n]))
                                 /\ Interrupted(order[n]).ids = {order[n]}
  BY <1>6, Roles
<1>8. added \in Seq(Message) /\ Len(added) = Len(order)
  BY <1>5, <1>7 DEF IsMessage
<1>9. \A n \in 1 .. Len(added) : added[n] = Interrupted(order[n])
  BY <1>8
<1>10. \A n \in 1 .. Len(added) : \E d \in todo[t] :
         added[n] = ToolResult(d) \/ added[n] = Interrupted(d)
  BY <1>6, <1>8, <1>9
<1>11. \A n, k \in 1 .. Len(added) : added[n].ids = added[k].ids => n = k
  <2> SUFFICES ASSUME NEW n \in 1 .. Len(order), NEW k \in 1 .. Len(order),
                      added[n].ids = added[k].ids
               PROVE  n = k
    BY <1>8
  <2>1. added[n].ids = {order[n]} /\ added[k].ids = {order[k]}
    BY <1>7, <1>8, <1>9
  <2>2. order[n] = order[k]
    BY <2>1
  <2>3. QED
    BY <1>4, <1>5, <2>2
<1>12. messages' = messages \o added
  BY <1>3
<1> HIDE DEF added
<1>13. /\ UNCHANGED <<start, used, told, clean>>
       /\ pc' = [pc EXCEPT ![t] = "over"] /\ todo' = [todo EXCEPT ![t] = {}]
  BY DEF Lose
<1>14. Adds(t, added)
  BY <1>1, <1>8, <1>10, <1>11, <1>12, <1>13 DEF Adds
<1>15. QED
  BY <1>14

(* Results of calls that are still to answer keep the invariant.           *)
LEMMA AddsStep ==
  ASSUME IInv, NEW t \in Turns, NEW added, Adds(t, added)
  PROVE  IInv'
<1>1. \A n \in 1 .. Len(added) : \E c \in todo[t] :
        IsMessage(added[n]) /\ added[n].role = "tool" /\ added[n].ids = {c}
  <2> SUFFICES ASSUME NEW n \in 1 .. Len(added)
               PROVE  \E c \in todo[t] :
                        IsMessage(added[n]) /\ added[n].role = "tool" /\ added[n].ids = {c}
    OBVIOUS
  <2>1. PICK c \in todo[t] : added[n] = ToolResult(c) \/ added[n] = Interrupted(c)
    BY DEF Adds
  <2>2. c \in Calls
    BY DEF IInv, TypeOK
  <2>3. QED
    BY <2>1, <2>2, Roles
<1>2. /\ pc[t] = "tools" /\ added \in Seq(Message) /\ messages' = messages \o added
      /\ \A n, k \in 1 .. Len(added) : added[n].ids = added[k].ids => n = k
  BY DEF Adds
<1>3. UNCHANGED <<start, used, told, clean>>
  BY DEF Adds
<1>4. \/ /\ pc' = [pc EXCEPT ![t] = "over"]
         /\ todo' = [todo EXCEPT ![t] = {}]
      \/ /\ UNCHANGED pc
         /\ todo' = [todo EXCEPT ![t] = {c \in @ : \A n \in 1 .. Len(added) : added[n].ids # {c}}]
  BY DEF Adds
<1>5. QED
  BY <1>1, <1>2, <1>3, <1>4, ResultsStep

(* Every step of a turn keeps the invariant.                               *)
LEMMA TurnStepInv ==
  ASSUME IInv, NEW t \in Turns, TurnStep(t)
  PROVE  IInv'
<1> USE DEF IInv
<1>0. pc[t] # "tools" => todo[t] = {} /\ todo = [todo EXCEPT ![t] = {}]
  BY DEF TypeOK
<1>1. ASSUME NEW first \in {"core", "asking"}, Post(t, first) PROVE IInv'
  <2>1. /\ Push(t, User) /\ pc' = [pc EXCEPT ![t] = first]
        /\ start' = [start EXCEPT ![t] = Len(messages')]
        /\ clean' = (clean /\ \A u \in Turns : ~Active(u))
        /\ UNCHANGED <<todo, used, told>> /\ pc[t] = "new"
    BY <1>1 DEF Post, TurnStart
  <2>2. todo' = [todo EXCEPT ![t] = IF first = "tools" THEN User.ids ELSE {}]
    BY <1>0, <2>1
  <2>3. used' \subseteq Calls /\ told' \subseteq Calls
    BY <2>1 DEF TypeOK
  <2>4. QED
    BY <1>0, <2>1, <2>2, <2>3, Roles, MessageStep
<1>2. CASE CoreRoutes(t)
  <2>1. told' \subseteq Calls
    BY <1>2, ShownTold DEF CoreRoutes
  <2>2. Active(t) /\ todo[t] = {}
    BY <1>0, <1>2 DEF CoreRoutes, Active
  <2>3. QED
    BY <1>2, <2>1, <2>2, SilentStep DEF CoreRoutes
<1>3. ASSUME Active(t), pc[t] # "tools", Push(t, Reply({})) \/ UNCHANGED messages,
             NEW next \in {"core", "asking", "over"}, pc' = [pc EXCEPT ![t] = next],
             UNCHANGED <<start, todo, used, clean>>, NEW v, Shown(v)
      PROVE  IInv'
  <2>1. told' \subseteq Calls /\ used' \subseteq Calls
    BY <1>3, ShownTold DEF TypeOK
  <2>2. todo[t] = {} /\ todo' = [todo EXCEPT ![t] = IF next = "tools" THEN Reply({}).ids ELSE {}]
    BY <1>0, <1>3
  <2>3. IsMessage(Reply({})) /\ Reply({}).role = "assistant"
    BY Roles
  <2>4. CASE Push(t, Reply({}))
    BY <1>3, <2>1, <2>2, <2>3, <2>4, MessageStep
  <2>5. CASE UNCHANGED messages
    BY <1>3, <2>1, <2>2, <2>5, SilentStep
  <2>6. QED
    BY <1>3, <2>4, <2>5
<1>4. CASE CoreAnswers(t)
  <2>1. Active(t) /\ pc[t] # "tools"
    BY <1>4 DEF CoreAnswers, Active
  <2>2. QED
    BY <1>3, <1>4, <2>1 DEF CoreAnswers
<1>5. ASSUME NEW next \in {"core", "asking", "over"}, SpecialistAnswers(t, next)
      PROVE  IInv'
  <2>1. Active(t) /\ pc[t] # "tools"
    BY <1>5 DEF SpecialistAnswers, Active
  <2>2. QED
    BY <1>3, <1>5, <2>1 DEF SpecialistAnswers
<1>6. ASSUME NEW next \in {"core", "asking", "over"}, NextIteration(t, next)
      PROVE  IInv'
  <2>1. Active(t) /\ todo[t] = {} /\ told' \subseteq Calls
    BY <1>6 DEF NextIteration, AllDone, Active, TypeOK
  <2>2. QED
    BY <1>6, <2>1, SilentStep DEF NextIteration
<1>7. ASSUME NEW C \in SUBSET Calls, SpecialistCalls(t, C)
      PROVE  IInv'
  <2>1. told' \subseteq Calls /\ used' \subseteq Calls
    BY <1>7, ShownTold DEF SpecialistCalls, TypeOK
  <2>2. Active(t) /\ pc[t] # "tools" /\ todo[t] = {}
    BY <1>0, <1>7 DEF SpecialistCalls, Active
  <2>3. IsMessage(Reply(C)) /\ Reply(C).role = "assistant" /\ Reply(C).ids = C
    BY Roles
  <2>4. Push(t, Reply(C)) /\ pc' = [pc EXCEPT ![t] = "tools"] /\ UNCHANGED <<start, clean>>
    BY <1>7 DEF SpecialistCalls
  <2>5. todo' = [todo EXCEPT ![t] = Reply(C).ids]
    BY <1>7, <2>2, <2>3 DEF SpecialistCalls
  <2>6. QED
    BY <2>1, <2>2, <2>3, <2>4, <2>5, MessageStep
<1>8. ASSUME NEW added, Adds(t, added) PROVE IInv'
  BY <1>8, AddsStep
<1>9. ASSUME NEW c \in Calls, Result(t, c) PROVE IInv'
  BY <1>8, <1>9, ResultAdds
<1>10. ASSUME NEW c \in Calls, NEW cut \in BOOLEAN, Lose(t, c, cut) PROVE IInv'
  BY <1>8, <1>10, LoseAdds
<1>11. CASE Cut(t)
  <2>1. told' \subseteq Calls
    BY <1>11 DEF Cut, TypeOK
  <2>2. QED
    BY <1>11, <2>1, SilentStep DEF Cut
<1>12. QED
  BY <1>1, <1>2, <1>4, <1>5, <1>6, <1>7, <1>9, <1>10, <1>11 DEF TurnStep

(* The inductive invariant.                                                *)
THEOREM InvariantHolds == Spec => []IInv
<1>1. IInv /\ [Next]_vars => IInv'
  <2> SUFFICES ASSUME IInv, [Next]_vars PROVE IInv'
    OBVIOUS
  <2>1. CASE Next
    BY <2>1, TurnStepInv, ReloadStep DEF Next
  <2>2. CASE UNCHANGED vars
    BY <2>2 DEF vars, IInv, TypeOK, Active, StepIsLast, ResultsAreShown
  <2>3. QED
    BY <2>1, <2>2
<1>2. QED
  BY <1>1, InitIInv, PTL DEF Spec

(* Every variable keeps its type, every message its shape.                 *)
THEOREM TypeCorrect == Spec => []TypeOK
<1>1. IInv => TypeOK
  BY DEF IInv
<1>2. QED
  BY <1>1, InvariantHolds, PTL

(* With one turn at a time and a log in order, dropOrphanedToolResults     *)
(* drops nothing: every result pushed is in what the models are shown.     *)
THEOREM NoResultWithheld == Spec => []ResultsAreShown
<1>1. IInv => ResultsAreShown
  BY DEF IInv
<1>2. QED
  BY <1>1, InvariantHolds, PTL

-----------------------------------------------------------------------------
(* What a model is shown as interrupted is marked so in the transcript, or *)
(* a call without a result.                                                *)
LEMMA ShownAsInterrupted ==
  ASSUME NEW m, Transcript(m), NEW c \in Calls, Interrupted(c) \in ToSet(View(m))
  PROVE  \E i \in 1 .. Len(m) : m[i] = Interrupted(c) \/ c \in Unanswered(m, i)
<1> DEFINE N == Len(m)
           h == InPlace(m)
           Source(e) == \E i \in 1 .. N :
             e = m[i] \/ \E d \in Unanswered(m, i) : e = Interrupted(d)
           P == {n \in 0 .. N : h[n] \in Seq(Message) /\ \A k \in 1 .. Len(h[n]) : Source(h[n][k])}
<1>0. m \in Seq(Message) /\ N \in Nat
  BY DEF Transcript
<1>1. h[0] = <<>>
  BY <1>0, InPlaceUnfolds
<1>2. \A n \in 1 .. N :
        h[n] = IF Kept(m, n) THEN h[n - 1] \o <<m[n]>> \o MarkersFor(Unanswered(m, n))
               ELSE h[n - 1]
  BY <1>0, InPlaceUnfolds, UnresolvedIsUnanswered
<1> HIDE DEF h
<1>3. 0 \in P
  <2> HIDE DEF Source
  <2>1. h[0] \in Seq(Message) /\ Len(h[0]) = 0
    BY <1>1
  <2>2. QED
    BY <1>0, <2>1
<1>4. ASSUME NEW n \in 1 .. N, n - 1 \in P PROVE n \in P
  <2> DEFINE s == h[n - 1]
             C == Unanswered(m, n)
             K == MarkersFor(C)
             t == s \o <<m[n]>> \o K
  <2>1. s \in Seq(Message) /\ \A k \in 1 .. Len(s) : Source(s[k])
    BY <1>4
  <2>2. C \in SUBSET Calls /\ m[n] \in Message
    BY <1>0, UnansweredCalls
  <2>3. Grown(t, s, m[n], C)
    BY <2>1, <2>2, Grows
  <2> HIDE DEF s, C, K, t
  <2>4. Source(m[n]) /\ \A d \in C : Source(Interrupted(d))
    BY DEF C
  <2> HIDE DEF Source
  <2>5. ASSUME NEW k \in 1 .. Len(t) PROVE Source(t[k])
    <3>1. Len(s) \in Nat /\ Len(t) \in Nat
      BY <2>3 DEF Grown
    <3>2. k \in 1 .. Len(s) \/ k = Len(s) + 1 \/ k \in Len(s) + 2 .. Len(t)
      BY <3>1
    <3>3. CASE k \in 1 .. Len(s)
      BY <2>1, <2>3, <3>3 DEF Grown
    <3>4. CASE k = Len(s) + 1
      BY <2>3, <2>4, <3>4 DEF Grown
    <3>5. CASE k \in Len(s) + 2 .. Len(t)
      BY <2>3, <2>4, <3>5 DEF Grown
    <3>6. QED
      BY <3>2, <3>3, <3>4, <3>5
  <2>6. t \in Seq(Message)
    BY <2>3 DEF Grown
  <2>7. h[n] = IF Kept(m, n) THEN t ELSE s
    BY <1>2 DEF s, C, K, t
  <2>8. h[n] \in Seq(Message) /\ \A k \in 1 .. Len(h[n]) : Source(h[n][k])
    BY <2>1, <2>5, <2>6, <2>7
  <2>9. QED
    BY <1>0, <2>8
<1>5. 0 .. N \subseteq P
  <2> HIDE DEF P
  <2>1. QED
    BY <1>0, <1>3, <1>4, UpTo
<1>6. h[N] \in Seq(Message) /\ \A k \in 1 .. Len(h[N]) : Source(h[N][k])
  <2>1. N \in P
    <3> HIDE DEF P, N
    <3>1. QED
      BY <1>0, <1>5
  <2> HIDE DEF Source, N
  <2>2. QED
    BY <2>1
<1>7. View(m) = h[N]
  BY ViewIsInPlace DEF ViewInPlace, h
<1>8. Source(Interrupted(c))
  <2> HIDE DEF Source
  <2>1. PICK k \in DOMAIN h[N] : h[N][k] = Interrupted(c)
    BY <1>7 DEF ToSet
  <2>2. k \in 1 .. Len(h[N])
    BY <1>6
  <2>3. QED
    BY <1>6, <2>1, <2>2
<1>9. PICK i \in 1 .. N : Interrupted(c) = m[i] \/ \E d \in Unanswered(m, i) : Interrupted(c) = Interrupted(d)
  BY <1>8
<1>10. ASSUME NEW d, Interrupted(c) = Interrupted(d) PROVE c = d
  <2>1. Interrupted(c).ids = {c} /\ Interrupted(d).ids = {d}
    BY DEF Interrupted
  <2>2. QED
    BY <1>10, <2>1
<1>11. QED
  BY <1>9, <1>10

(* A tool ran for c.                                                       *)
HasResult(c) == \E j \in 1 .. Len(messages) : messages[j] = ToolResult(c)

(* A model was shown c as interrupted, or will be.                         *)
GivenUp(c) == c \in told \/ \E j \in 1 .. Len(messages) : messages[j] = Interrupted(c)

(* A call in the transcript, or still to answer, has been made.            *)
IdsAreUsed ==
  /\ \A i \in 1 .. Len(messages) : messages[i].ids \subseteq used
  /\ \A t \in Turns : todo[t] \subseteq used

(* An active turn began at a message of the user.                          *)
StartsAtUser ==
  \A t \in Turns : Active(t) =>
    start[t] \in 1 .. Len(messages) /\ messages[start[t]].role = "user"

(* No two replies make the same call.                                      *)
OneReplyEach ==
  \A i, j \in 1 .. Len(messages) :
    /\ messages[i].role = "assistant" /\ messages[j].role = "assistant"
    /\ messages[i].ids \cap messages[j].ids # {}
    => i = j

(* A call given up never gets a result, and one still to answer has none.  *)
Settled ==
  /\ told \subseteq used
  /\ \A c \in Calls : GivenUp(c) => ~ HasResult(c) /\ \A t \in Turns : c \notin todo[t]
  /\ \A t \in Turns : \A c \in todo[t] : ~ HasResult(c)

(* The second inductive invariant, for InterruptedIsOver.                  *)
Inv2 ==
  /\ IdsAreUsed
  /\ StartsAtUser
  /\ clean => OneReplyEach /\ Settled

(* A call without a result directly behind its reply has none at all.      *)
LEMMA UnansweredHasNone ==
  ASSUME IInv, Inv2, clean, NEW i \in 1 .. Len(messages), NEW c \in Calls,
         c \in Unanswered(messages, i)
  PROVE  ~ HasResult(c)
<1> SUFFICES ASSUME NEW j \in 1 .. Len(messages), messages[j] = ToolResult(c) PROVE FALSE
  BY DEF HasResult
<1>0. Transcript(messages) /\ Len(messages) \in Nat
  BY DEF IInv, TypeOK, Transcript
<1>1. messages[i].role = "assistant" /\ c \in messages[i].ids /\ c \notin Answered(messages, i)
  BY DEF Unanswered
<1>2. messages[j].role = "tool" /\ messages[j].ids = {c}
  BY Roles
<1>3. Kept(messages, j)
  BY DEF IInv, ResultsAreShown
<1>4. PICK k \in 1 .. j - 1 : Resolves(messages, j, k)
  BY <1>2, <1>3 DEF Kept
<1>5. messages[k].role = "assistant" /\ c \in messages[k].ids /\ Follows(messages, j, k)
  BY <1>2, <1>4 DEF Resolves
<1>6. k \in 1 .. Len(messages)
  BY <1>0
<1>7. k = i
  BY <1>1, <1>5, <1>6 DEF Inv2, OneReplyEach
<1>8. j \in i + 1 .. Len(messages)
  BY <1>0, <1>5, <1>7 DEF Follows
<1>9. c \in Answered(messages, i)
  BY <1>0, <1>2, <1>5, <1>7, <1>8, AnsweredBy
<1>10. QED
  BY <1>1, <1>9

(* A call a model is shown as interrupted is over.                         *)
LEMMA ShownIsOver ==
  ASSUME IInv, Inv2, clean, NEW v, v = messages \/ \E t \in Turns : Active(t) /\ v = SubSeq(messages, 1, start[t]),
         NEW c \in Calls, Interrupted(c) \in ToSet(View(v))
  PROVE  c \in used /\ ~ HasResult(c)
<1>0. Transcript(messages) /\ Len(messages) \in Nat /\ messages \in Seq(Message)
  BY DEF IInv, TypeOK, Transcript
<1>1. PICK n \in 0 .. Len(messages) :
        /\ Transcript(v) /\ Len(v) = n /\ \A i \in 1 .. n : v[i] = messages[i]
        /\ n < Len(messages) => n >= 1 /\ messages[n].role = "user"
  <2>1. CASE v = messages
    BY <1>0, <2>1
  <2>2. ASSUME NEW t \in Turns, Active(t), v = SubSeq(messages, 1, start[t])
        PROVE  \E n \in 0 .. Len(messages) :
                 /\ Transcript(v) /\ Len(v) = n /\ \A i \in 1 .. n : v[i] = messages[i]
                 /\ n < Len(messages) => n >= 1 /\ messages[n].role = "user"
    <3>1. start[t] \in 1 .. Len(messages) /\ messages[start[t]].role = "user"
      BY <2>2 DEF Inv2, StartsAtUser
    <3>2. v \in Seq(Message) /\ Len(v) = start[t] /\ \A i \in 1 .. start[t] : v[i] = messages[i]
      BY <1>0, <2>2, <3>1
    <3>3. Transcript(v)
      BY <1>0, <3>1, <3>2 DEF Transcript
    <3>4. QED
      BY <1>0, <3>1, <3>2, <3>3
  <2>3. QED
    BY <2>1, <2>2
<1>2. PICK i \in 1 .. n : v[i] = Interrupted(c) \/ c \in Unanswered(v, i)
  BY <1>1, ShownAsInterrupted
<1>3. i \in 1 .. Len(messages) /\ i \in 1 .. Len(v) /\ v[i] = messages[i]
  BY <1>0, <1>1
<1>4. CASE v[i] = Interrupted(c)
  <2>1. GivenUp(c)
    BY <1>3, <1>4 DEF GivenUp
  <2>2. c \in messages[i].ids
    BY <1>3, <1>4, Roles
  <2>3. QED
    BY <1>3, <2>1, <2>2 DEF Inv2, Settled, IdsAreUsed
<1>5. CASE c \in Unanswered(v, i)
  <2>1. messages[i].role = "assistant" /\ c \in messages[i].ids /\ c \notin Answered(v, i)
    BY <1>3, <1>5 DEF Unanswered
  <2>2. c \notin Answered(messages, i)
    <3> SUFFICES ASSUME c \in Answered(messages, i) PROVE FALSE
      OBVIOUS
    <3>1. PICK j \in i + 1 .. Len(messages) : messages[j].ids = {c} /\ Follows(messages, j, i)
      BY <1>0, <1>3, AnsweredBy
    <3>2. ~ (n < j)
      <4> SUFFICES ASSUME n < j PROVE FALSE
        OBVIOUS
      <4>1. n < Len(messages)
        BY <1>0
      <4>2. messages[n].role = "user" /\ i # n
        BY <1>1, <2>1, <4>1
      <4>3. n \in i + 1 .. j
        BY <1>0, <4>2
      <4>4. QED
        BY <3>1, <4>2, <4>3 DEF Follows
    <3>3. j \in i + 1 .. Len(v) /\ v[j] = messages[j]
      BY <1>0, <1>1, <3>2
    <3>4. Follows(v, j, i)
      <4>1. \A k \in i + 1 .. j : v[k] = messages[k]
        BY <1>0, <1>1, <3>3
      <4>2. QED
        BY <3>1, <4>1 DEF Follows
    <3>5. c \in Answered(v, i)
      BY <1>1, <1>3, <3>1, <3>3, <3>4, AnsweredBy
    <3>6. QED
      BY <2>1, <3>5
  <2>3. c \in Unanswered(messages, i)
    BY <2>1, <2>2 DEF Unanswered
  <2>4. ~ HasResult(c)
    BY <1>3, <2>3, UnansweredHasNone
  <2>5. QED
    BY <1>3, <2>1, <2>4 DEF Inv2, IdsAreUsed
<1>6. QED
  BY <1>2, <1>4, <1>5

(* ... and so a turn that asks a model may be told of it.                  *)
LEMMA ToldIsOver ==
  ASSUME IInv, Inv2, clean, NEW t \in Turns, pc[t] \in {"core", "asking"},
         NEW v, v = messages \/ v = SubSeq(messages, 1, start[t]), Shown(View(v)),
         NEW c \in told', c \notin told
  PROVE  c \in used /\ ~ HasResult(c) /\ \A u \in Turns : c \notin todo[u]
<1>1. c \in Calls /\ Interrupted(c) \in ToSet(View(v))
  BY DEF Shown
<1>2. Active(t)
  BY DEF Active
<1>3. \A u \in Turns : todo[u] = {}
  BY <1>2 DEF IInv, Active
<1>4. QED
  BY <1>1, <1>2, <1>3, ShownIsOver

(* A step that leaves the transcript alone.                                *)
LEMMA QuietSettled ==
  ASSUME IInv, Inv2, UNCHANGED <<messages, start, used, clean>>,
         \A u \in Turns : todo'[u] \subseteq todo[u] /\ (Active(u)' => Active(u)),
         clean => \A c \in told' : c \notin told =>
           c \in used /\ ~ HasResult(c) /\ \A u \in Turns : c \notin todo[u]
  PROVE  Inv2'
<1>1. IdsAreUsed'
  BY DEF Inv2, IdsAreUsed
<1>2. StartsAtUser'
  BY DEF Inv2, StartsAtUser
<1>3. ASSUME clean' PROVE OneReplyEach'
  BY <1>3 DEF Inv2, OneReplyEach
<1>4. ASSUME clean' PROVE Settled'
  <2>1. Settled
    BY <1>4 DEF Inv2
  <2>2. \A c : HasResult(c)' <=> HasResult(c)
    BY DEF HasResult
  <2>3. \A c \in Calls : GivenUp(c)' => GivenUp(c) \/ (c \in told' /\ c \notin told)
    BY DEF GivenUp
  <2>4. told' \subseteq used'
    BY <1>4, <2>1 DEF Settled
  <2>5. ASSUME NEW c \in Calls, GivenUp(c)'
        PROVE  ~ HasResult(c)' /\ \A u \in Turns : c \notin todo'[u]
    BY <1>4, <2>1, <2>2, <2>3, <2>5 DEF Settled
  <2>6. \A u \in Turns : \A c \in todo'[u] : ~ HasResult(c)'
    BY <2>1, <2>2 DEF Settled
  <2>7. QED
    BY <2>4, <2>5, <2>6 DEF Settled
<1>5. QED
  BY <1>1, <1>2, <1>3, <1>4 DEF Inv2

(* A call with a result or a marker has been made.                         *)
LEMMA GivenUpIsUsed ==
  ASSUME Inv2, clean, NEW c \in Calls, GivenUp(c) \/ HasResult(c)
  PROVE  c \in used
<1>1. ASSUME NEW j \in 1 .. Len(messages), messages[j] = ToolResult(c) \/ messages[j] = Interrupted(c)
      PROVE  c \in used
  <2>1. messages[j].ids = {c}
    BY <1>1, Roles
  <2>2. QED
    BY <2>1 DEF Inv2, IdsAreUsed
<1>2. QED
  BY <1>1 DEF GivenUp, HasResult, Inv2, Settled

(* A message that is no result, with calls not used so far.                *)
LEMMA MessageSettled ==
  ASSUME IInv, Inv2, NEW t \in Turns, NEW e, IsMessage(e), e.role # "tool", Push(t, e),
         e.ids \cap used = {}, used' = used \cup e.ids,
         \A u \in Turns : todo'[u] \subseteq todo[u] \cup e.ids,
         \/ UNCHANGED start /\ \A u \in Turns : Active(u)' => Active(u)
         \/ /\ e.role = "user" /\ \A u \in Turns : u = t \/ (Active(u)' => Active(u))
            /\ start' = [start EXCEPT ![t] = Len(messages')],
         clean' => clean,
         clean => \A c \in told' : c \notin told =>
           c \in used /\ ~ HasResult(c) /\ \A u \in Turns : c \notin todo[u]
  PROVE  Inv2'
<1>1. /\ messages' \in Seq(Message)
      /\ Len(messages') = Len(messages) + 1
      /\ messages'[Len(messages')] = e
      /\ \A i \in 1 .. Len(messages) : messages'[i] = messages[i]
  BY AppendTyped DEF IInv
<1>2. Len(messages) \in Nat /\ Len(messages') \in Nat
  BY <1>1 DEF IInv, TypeOK
<1>3. \A i \in 1 .. Len(messages') : i \in 1 .. Len(messages) \/ i = Len(messages')
  BY <1>1, <1>2
<1>4. IdsAreUsed'
  BY <1>1, <1>3 DEF Inv2, IdsAreUsed
<1>5. StartsAtUser'
  <2> SUFFICES ASSUME NEW u \in Turns, Active(u)'
               PROVE  start'[u] \in 1 .. Len(messages') /\ messages'[start'[u]].role = "user"
    BY DEF StartsAtUser
  <2>1. CASE Active(u) /\ start'[u] = start[u]
    <3>1. start[u] \in 1 .. Len(messages) /\ messages[start[u]].role = "user"
      BY <2>1 DEF Inv2, StartsAtUser
    <3>2. QED
      BY <1>1, <1>2, <2>1, <3>1
  <2>2. CASE e.role = "user" /\ start'[u] = Len(messages')
    BY <1>1, <1>2, <2>2
  <2>3. QED
    BY <2>1, <2>2 DEF IInv, TypeOK
<1>6. ASSUME clean' PROVE OneReplyEach'
  <2>1. ASSUME NEW i \in 1 .. Len(messages) PROVE messages[i].ids \cap e.ids = {}
    BY DEF Inv2, IdsAreUsed
  <2>2. QED
    BY <1>1, <1>3, <1>6, <2>1 DEF Inv2, OneReplyEach
<1>7. ASSUME clean' PROVE Settled'
  <2>1. Settled /\ clean
    BY <1>7 DEF Inv2
  <2>2. \A c \in Calls : e # ToolResult(c) /\ e # Interrupted(c)
    BY Roles
  <2>3. \A c \in Calls : HasResult(c)' <=> HasResult(c)
    BY <1>1, <1>2, <1>3, <2>2 DEF HasResult
  <2>4. \A c \in Calls : GivenUp(c)' => GivenUp(c) \/ (c \in told' /\ c \notin told)
    BY <1>1, <1>3, <2>2 DEF GivenUp
  <2>5. told' \subseteq used'
    BY <2>1 DEF Settled
  <2>6. ASSUME NEW c \in Calls, GivenUp(c)'
        PROVE  ~ HasResult(c)' /\ \A u \in Turns : c \notin todo'[u]
    <3>1. c \in used
      BY <2>1, <2>4, <2>6, GivenUpIsUsed
    <3>2. ~ HasResult(c) /\ \A u \in Turns : c \notin todo[u]
      BY <2>1, <2>4, <2>6 DEF Settled
    <3>3. QED
      BY <2>3, <3>1, <3>2
  <2>7. ASSUME NEW u \in Turns, NEW c \in todo'[u] PROVE ~ HasResult(c)'
    <3>1. c \in Calls
      BY DEF IInv, TypeOK, IsMessage, Message
    <3>2. c \in todo[u] => ~ HasResult(c)
      BY <2>1 DEF Settled
    <3>3. c \in e.ids => ~ HasResult(c)
      BY <2>1, <3>1, GivenUpIsUsed
    <3>4. QED
      BY <2>3, <3>1, <3>2, <3>3
  <2>8. QED
    BY <2>5, <2>6, <2>7 DEF Settled
<1>8. QED
  BY <1>4, <1>5, <1>6, <1>7 DEF Inv2


(* Results settle the calls they are of.                                   *)
LEMMA ResultsSettled ==
  ASSUME IInv, Inv2, NEW t \in Turns, NEW added, Adds(t, added)
  PROVE  Inv2'
<1>1. messages \in Seq(Message) /\ added \in Seq(Message) /\ messages' = messages \o added
  BY DEF IInv, TypeOK, Adds
<1> DEFINE L == Len(messages)
<1>2. /\ messages' \in Seq(Message) /\ L \in Nat /\ Len(added) \in Nat
      /\ Len(messages') = L + Len(added)
      /\ \A k \in 1 .. L : messages'[k] = messages[k]
      /\ \A k \in 1 .. Len(added) : messages'[L + k] = added[k]
  BY <1>1
<1>3. UNCHANGED <<start, used, told, clean>>
  BY DEF Adds
<1>4. \A k \in 1 .. Len(added) : \E c \in todo[t] :
        added[k] = ToolResult(c) \/ added[k] = Interrupted(c)
  BY DEF Adds
<1>5. \A n, k \in 1 .. Len(added) : added[n].ids = added[k].ids => n = k
  BY DEF Adds
<1>6. /\ \A u \in Turns : todo'[u] \subseteq todo[u] /\ (Active(u)' => Active(u))
      /\ \A c \in todo'[t] : \A n \in 1 .. Len(added) : added[n].ids # {c}
  <2>1. /\ pc \in [Turns -> {"new", "core", "asking", "tools", "over"}]
        /\ todo \in [Turns -> SUBSET Calls]
    BY DEF IInv, TypeOK
  <2>2. \/ pc' = [pc EXCEPT ![t] = "over"] /\ todo' = [todo EXCEPT ![t] = {}]
        \/ /\ UNCHANGED pc
           /\ todo' = [todo EXCEPT ![t] = {c \in @ : \A n \in 1 .. Len(added) : added[n].ids # {c}}]
    BY DEF Adds
  <2>3. QED
    BY <2>1, <2>2 DEF Active
<1>7. todo[t] \subseteq Calls /\ todo[t] \subseteq used
  BY DEF IInv, TypeOK, Inv2, IdsAreUsed
<1> HIDE DEF L
<1>8. \A k \in 1 .. Len(messages') :
        k \in 1 .. L \/ \E n \in 1 .. Len(added) : k = L + n /\ messages'[k] = added[n]
  <2> SUFFICES ASSUME NEW k \in 1 .. Len(messages'), k \notin 1 .. L
               PROVE  \E n \in 1 .. Len(added) : k = L + n /\ messages'[k] = added[n]
    OBVIOUS
  <2>1. k - L \in 1 .. Len(added) /\ k = L + (k - L)
    BY <1>2
  <2>2. QED
    BY <1>2, <2>1
<1>9. \A n \in 1 .. Len(added) : added[n].role = "tool" /\ added[n].ids \subseteq used
  BY <1>4, <1>7, Roles
<1>10. IdsAreUsed'
  <2>1. \A i \in 1 .. L : messages[i].ids \subseteq used
    BY DEF Inv2, IdsAreUsed, L
  <2>2. \A i \in 1 .. Len(messages') : messages'[i].ids \subseteq used
    BY <1>2, <1>8, <1>9, <2>1
  <2>3. QED
    BY <1>3, <1>6, <2>2 DEF Inv2, IdsAreUsed
<1>11. StartsAtUser'
  <2> SUFFICES ASSUME NEW u \in Turns, Active(u)'
               PROVE  start'[u] \in 1 .. Len(messages') /\ messages'[start'[u]].role = "user"
    BY DEF StartsAtUser
  <2>1. start[u] \in 1 .. L /\ messages[start[u]].role = "user" /\ start'[u] = start[u]
    BY <1>3, <1>6 DEF Inv2, StartsAtUser, L
  <2>2. QED
    BY <1>2, <2>1
<1>12. ASSUME clean' PROVE OneReplyEach'
  <2>1. \A i \in 1 .. Len(messages') : messages'[i].role = "assistant" => i \in 1 .. L
    BY <1>8, <1>9
  <2>2. OneReplyEach
    BY <1>3, <1>12 DEF Inv2
  <2>3. QED
    BY <1>2, <2>1, <2>2 DEF OneReplyEach, L
<1>13. ASSUME clean' PROVE Settled'
  <2>1. Settled /\ clean
    BY <1>3, <1>13 DEF Inv2
  <2>2. \A c, d \in Calls : /\ ToolResult(c) = ToolResult(d) => c = d
                            /\ Interrupted(c) = Interrupted(d) => c = d
                            /\ ToolResult(c) # Interrupted(d)
    <3> SUFFICES ASSUME NEW c \in Calls, NEW d \in Calls
                 PROVE  /\ ToolResult(c) = ToolResult(d) => c = d
                        /\ Interrupted(c) = Interrupted(d) => c = d
                        /\ ToolResult(c) # Interrupted(d)
      OBVIOUS
    <3>1. /\ ToolResult(c).ids = {c} /\ ToolResult(d).ids = {d}
          /\ Interrupted(c).ids = {c} /\ Interrupted(d).ids = {d}
      BY Roles
    <3>2. ToolResult(c).real /\ ~ Interrupted(d).real
      BY DEF ToolResult, Interrupted
    <3>3. QED
      BY <3>1, <3>2
  <2>3. ASSUME NEW c \in Calls, HasResult(c)'
        PROVE  HasResult(c) \/ (c \in todo[t] /\ \E n \in 1 .. Len(added) : added[n] = ToolResult(c))
    <3>1. PICK k \in 1 .. Len(messages') : messages'[k] = ToolResult(c)
      BY <2>3 DEF HasResult
    <3>2. CASE k \in 1 .. L
      BY <1>2, <3>1, <3>2 DEF HasResult, L
    <3>3. CASE k \notin 1 .. L
      <4>1. PICK n \in 1 .. Len(added) : added[n] = ToolResult(c)
        BY <1>8, <3>1, <3>3
      <4>2. c \in todo[t]
        BY <1>4, <1>7, <2>2, <4>1
      <4>3. QED
        BY <4>1, <4>2
    <3>4. QED
      BY <3>2, <3>3
  <2>4. ASSUME NEW c \in Calls, GivenUp(c)'
        PROVE  GivenUp(c) \/ (c \in todo[t] /\ \E n \in 1 .. Len(added) : added[n] = Interrupted(c))
    <3>1. CASE c \in told'
      BY <1>3, <3>1 DEF GivenUp
    <3>2. ASSUME NEW k \in 1 .. Len(messages'), messages'[k] = Interrupted(c)
          PROVE  GivenUp(c) \/ (c \in todo[t] /\ \E n \in 1 .. Len(added) : added[n] = Interrupted(c))
      <4>1. CASE k \in 1 .. L
        BY <1>2, <3>2, <4>1 DEF GivenUp, L
      <4>2. CASE k \notin 1 .. L
        <5>1. PICK n \in 1 .. Len(added) : added[n] = Interrupted(c)
          BY <1>8, <3>2, <4>2
        <5>2. c \in todo[t]
          BY <1>4, <1>7, <2>2, <5>1
        <5>3. QED
          BY <5>1, <5>2
      <4>3. QED
        BY <4>1, <4>2
    <3>3. QED
      BY <2>4, <3>1, <3>2 DEF GivenUp
  <2>5. \A u \in Turns : u # t => todo[u] = {}
    BY <2>1 DEF IInv, Active, Adds
  <2>6. \A n \in 1 .. Len(added), c \in Calls :
          added[n] = ToolResult(c) \/ added[n] = Interrupted(c) => added[n].ids = {c}
    BY Roles
  <2>7. ASSUME NEW c \in Calls, GivenUp(c)'
        PROVE  ~ HasResult(c)' /\ \A u \in Turns : c \notin todo'[u]
    <3>1. CASE GivenUp(c)
      <4>1. ~ HasResult(c) /\ \A u \in Turns : c \notin todo[u]
        BY <2>1, <3>1 DEF Settled
      <4>2. QED
        BY <1>6, <2>3, <4>1
    <3>2. CASE c \in todo[t] /\ \E n \in 1 .. Len(added) : added[n] = Interrupted(c)
      <4>1. PICK n \in 1 .. Len(added) : added[n] = Interrupted(c)
        BY <3>2
      <4>2. ~ HasResult(c)
        BY <2>1, <3>2 DEF Settled
      <4>3. ~ \E k \in 1 .. Len(added) : added[k] = ToolResult(c)
        <5> SUFFICES ASSUME NEW k \in 1 .. Len(added), added[k] = ToolResult(c) PROVE FALSE
          OBVIOUS
        <5>1. added[k].ids = added[n].ids
          BY <2>6, <4>1
        <5>2. k = n
          BY <1>5, <5>1
        <5>3. QED
          BY <2>2, <4>1, <5>2
      <4>4. c \notin todo'[t]
        BY <1>6, <2>6, <4>1
      <4>5. QED
        BY <1>6, <2>3, <2>5, <4>2, <4>3, <4>4
    <3>3. QED
      BY <2>4, <2>7, <3>1, <3>2
  <2>8. ASSUME NEW u \in Turns, NEW c \in todo'[u] PROVE ~ HasResult(c)'
    <3>1. u = t /\ c \in todo[t] /\ c \in Calls
      BY <1>6, <1>7, <2>5
    <3>2. ~ HasResult(c)
      BY <2>1, <3>1 DEF Settled
    <3>3. ~ \E n \in 1 .. Len(added) : added[n] = ToolResult(c)
      BY <1>6, <2>6, <3>1
    <3>4. QED
      BY <2>3, <3>1, <3>2, <3>3
  <2>9. told' \subseteq used'
    BY <1>3, <2>1 DEF Settled
  <2>10. QED
    BY <2>7, <2>8, <2>9 DEF Settled
<1>14. QED
  BY <1>10, <1>11, <1>12, <1>13 DEF Inv2

(* The log is read back: nothing is left to do, and a prefix has no more   *)
(* than the whole.                                                         *)
LEMMA ReloadSettled ==
  ASSUME IInv, Inv2, NEW m, Reload(m),
         \A i \in 1 .. Len(m) : \E n \in 1 .. Len(messages) : m[i] = messages[n]
  PROVE  Inv2'
<1>1. messages' = m /\ UNCHANGED <<start, used, told>> /\ messages \in Seq(Message)
  BY DEF Reload, IInv, TypeOK
<1>2. \A u \in Turns : ~ Active(u)' /\ todo'[u] = {}
  BY DEF Reload, Active, IInv, TypeOK
<1>3. IdsAreUsed'
  BY <1>1, <1>2 DEF Inv2, IdsAreUsed
<1>4. StartsAtUser'
  BY <1>2 DEF StartsAtUser
<1>5. ASSUME clean' PROVE OneReplyEach' /\ Settled'
  <2>1. PICK n \in 0 .. Len(messages) : m = SubSeq(messages, 1, n)
    BY <1>5 DEF Reload, Flushed
  <2>2. Len(m) = n /\ \A i \in 1 .. n : m[i] = messages[i] /\ i \in 1 .. Len(messages)
    BY <1>1, <2>1
  <2>3. OneReplyEach /\ Settled
    BY <1>5 DEF Reload, Inv2
  <2>4. OneReplyEach'
    <3> SUFFICES ASSUME NEW i \in 1 .. n, NEW j \in 1 .. n,
                        m[i].role = "assistant", m[j].role = "assistant",
                        m[i].ids \cap m[j].ids # {}
                 PROVE  i = j
      BY <1>1, <2>2 DEF OneReplyEach
    <3>1. QED
      BY <2>2, <2>3 DEF OneReplyEach
  <2>5. \A c : HasResult(c)' => HasResult(c)
    BY <1>1, <2>2 DEF HasResult
  <2>6. \A c : GivenUp(c)' => GivenUp(c)
    BY <1>1, <2>2 DEF GivenUp
  <2>7. QED
    BY <1>1, <1>2, <2>3, <2>4, <2>5, <2>6 DEF Settled
<1>6. QED
  BY <1>3, <1>4, <1>5 DEF Inv2

(* Every step of a turn settles what it should.                            *)
LEMMA TurnStepSettled ==
  ASSUME IInv, Inv2, NEW t \in Turns, TurnStep(t)
  PROVE  Inv2'
<1>0. /\ pc \in [Turns -> {"new", "core", "asking", "tools", "over"}]
      /\ todo \in [Turns -> SUBSET Calls] /\ start \in [Turns -> Nat]
      /\ \A u \in Turns : todo[u] # {} => pc[u] = "tools"
  BY DEF IInv, TypeOK
<1>1. ASSUME NEW first \in {"core", "asking"}, Post(t, first) PROVE Inv2'
  <2>1. IsMessage(User) /\ User.role = "user" /\ User.ids = {}
    BY Roles DEF User
  <2>2. /\ Push(t, User) /\ start' = [start EXCEPT ![t] = Len(messages')]
        /\ clean' => clean
        /\ UNCHANGED <<todo, used, told>>
        /\ pc' = [pc EXCEPT ![t] = first]
    BY <1>1 DEF Post, TurnStart
  <2>3. \A u \in Turns : u = t \/ (Active(u)' => Active(u))
    BY <1>0, <2>2 DEF Active
  <2>4. used' = used \cup User.ids /\ User.ids \cap used = {}
    BY <2>1, <2>2
  <2>5. \A u \in Turns : todo'[u] \subseteq todo[u] \cup User.ids
    BY <2>2
  <2>6. QED
    BY <2>1, <2>2, <2>3, <2>4, <2>5, MessageSettled
<1>2. ASSUME pc[t] \in {"core", "asking"},
             NEW v, v = messages \/ v = SubSeq(messages, 1, start[t]), Shown(View(v))
      PROVE  clean => \A c \in told' : c \notin told =>
               c \in used /\ ~ HasResult(c) /\ \A u \in Turns : c \notin todo[u]
  BY <1>2, ToldIsOver
<1>3. ASSUME UNCHANGED <<start, todo, clean>>, NEW next \in {"core", "asking", "over"},
             Active(t), pc' = [pc EXCEPT ![t] = next]
      PROVE  \A u \in Turns : todo'[u] \subseteq todo[u] /\ (Active(u)' => Active(u))
  BY <1>0, <1>3 DEF Active
<1>4. CASE CoreRoutes(t)
  <2>1. Active(t) /\ pc[t] \in {"core", "asking"} /\ pc' = [pc EXCEPT ![t] = "asking"]
        /\ UNCHANGED <<messages, start, todo, used, clean>>
        /\ Shown(View(SubSeq(messages, 1, start[t])))
    BY <1>4 DEF CoreRoutes, CoreView, Active
  <2>2. \A u \in Turns : todo'[u] \subseteq todo[u] /\ (Active(u)' => Active(u))
    BY <1>3, <2>1
  <2>3. clean => \A c \in told' : c \notin told =>
          c \in used /\ ~ HasResult(c) /\ \A u \in Turns : c \notin todo[u]
    BY <1>2, <2>1
  <2>4. QED
    BY <2>1, <2>2, <2>3, QuietSettled
<1>5. ASSUME pc[t] \in {"core", "asking"}, NEW next \in {"core", "asking", "over"},
             NEW v, v = messages \/ v = SubSeq(messages, 1, start[t]), Shown(View(v)),
             Push(t, Reply({})) \/ UNCHANGED messages, pc' = [pc EXCEPT ![t] = next],
             UNCHANGED <<start, todo, used, clean>>
      PROVE  Inv2'
  <2>1. Active(t)
    BY <1>5 DEF Active
  <2>2. \A u \in Turns : todo'[u] \subseteq todo[u] /\ (Active(u)' => Active(u))
    BY <1>3, <1>5, <2>1
  <2>3. clean => \A c \in told' : c \notin told =>
          c \in used /\ ~ HasResult(c) /\ \A u \in Turns : c \notin todo[u]
    BY <1>2, <1>5
  <2>4. CASE UNCHANGED messages
    BY <1>5, <2>2, <2>3, <2>4, QuietSettled
  <2>5. CASE Push(t, Reply({}))
    <3>1. IsMessage(Reply({})) /\ Reply({}).role = "assistant" /\ Reply({}).ids = {}
      BY Roles
    <3>2. /\ Reply({}).ids \cap used = {} /\ used' = used \cup Reply({}).ids
          /\ \A u \in Turns : todo'[u] \subseteq todo[u] \cup Reply({}).ids
      BY <1>5, <2>2, <3>1
    <3>3. Reply({}).role # "tool" /\ UNCHANGED start /\ (clean' => clean)
      BY <1>5, <3>1
    <3>4. QED
      BY <2>2, <2>3, <2>5, <3>1, <3>2, <3>3, MessageSettled
  <2>6. QED
    BY <1>5, <2>4, <2>5
<1>6. CASE CoreAnswers(t)
  BY <1>5, <1>6 DEF CoreAnswers, CoreView
<1>7. ASSUME NEW next \in {"core", "asking", "over"}, SpecialistAnswers(t, next)
      PROVE  Inv2'
  BY <1>5, <1>7 DEF SpecialistAnswers
<1>8. ASSUME NEW next \in {"core", "asking", "over"}, NextIteration(t, next)
      PROVE  Inv2'
  <2>1. Active(t) /\ pc' = [pc EXCEPT ![t] = next]
        /\ UNCHANGED <<messages, start, todo, used, told, clean>>
    BY <1>8 DEF NextIteration, Active
  <2>2. \A u \in Turns : todo'[u] \subseteq todo[u] /\ (Active(u)' => Active(u))
    BY <1>3, <2>1
  <2>3. QED
    BY <2>1, <2>2, QuietSettled
<1>9. ASSUME NEW C \in SUBSET Calls, SpecialistCalls(t, C)
      PROVE  Inv2'
  <2>1. IsMessage(Reply(C)) /\ Reply(C).role = "assistant" /\ Reply(C).ids = C
    BY Roles
  <2>2. /\ Push(t, Reply(C)) /\ Shown(View(messages)) /\ C \cap used = {}
        /\ used' = used \cup C /\ todo' = [todo EXCEPT ![t] = @ \cup C]
        /\ pc[t] = "asking" /\ pc' = [pc EXCEPT ![t] = "tools"] /\ UNCHANGED <<start, clean>>
    BY <1>9 DEF SpecialistCalls
  <2>3. \A u \in Turns : Active(u)' => Active(u)
    BY <1>0, <2>2 DEF Active
  <2>4. \A u \in Turns : todo'[u] \subseteq todo[u] \cup Reply(C).ids
    BY <1>0, <2>1, <2>2
  <2>5. clean => \A c \in told' : c \notin told =>
          c \in used /\ ~ HasResult(c) /\ \A u \in Turns : c \notin todo[u]
    BY <1>2, <2>2
  <2>6. /\ Reply(C).role # "tool" /\ UNCHANGED start /\ (clean' => clean)
        /\ Reply(C).ids \cap used = {} /\ used' = used \cup Reply(C).ids
    BY <2>1, <2>2
  <2>7. QED
    BY <2>1, <2>2, <2>3, <2>4, <2>5, <2>6, MessageSettled
<1>10. ASSUME NEW c \in Calls, Result(t, c) PROVE Inv2'
  BY <1>10, ResultAdds, ResultsSettled DEF IInv
<1>11. ASSUME NEW c \in Calls, NEW cut \in BOOLEAN, Lose(t, c, cut) PROVE Inv2'
  BY <1>11, LoseAdds, ResultsSettled DEF IInv
<1>12. CASE Cut(t)
  <2>1. \A u \in Turns : todo'[u] \subseteq todo[u] /\ (Active(u)' => Active(u))
    BY <1>0, <1>12 DEF Cut, Active
  <2>2. UNCHANGED <<messages, start, used, told, clean>>
    BY <1>12 DEF Cut
  <2>3. QED
    BY <2>1, <2>2, QuietSettled
<1>13. QED
  BY <1>1, <1>4, <1>6, <1>7, <1>8, <1>9, <1>10, <1>11, <1>12 DEF TurnStep

\* Every reachable state satisfies it: a call given up is never answered later.
THEOREM SettledHolds == Spec => []Inv2
<1>1. Init => Inv2
  BY DEF Init, Inv2, IdsAreUsed, StartsAtUser, OneReplyEach, Settled, Active, GivenUp, HasResult
<1>2. IInv /\ Inv2 /\ [Next]_vars => Inv2'
  <2> SUFFICES ASSUME IInv, Inv2, [Next]_vars PROVE Inv2'
    OBVIOUS
  <2>1. ASSUME NEW t \in Turns, TurnStep(t) PROVE Inv2'
    BY <2>1, TurnStepSettled
  <2>2. ASSUME NEW m, Reload(m) PROVE Inv2'
    <3>1. messages \in Seq(Message)
      BY DEF IInv, TypeOK
    <3>2. \A i \in 1 .. Len(m) : \E n \in 1 .. Len(messages) : m[i] = messages[n]
      BY <2>2, <3>1, RowsOfTheLog
    <3>3. QED
      BY <2>2, <3>2, ReloadSettled
  <2>3. CASE UNCHANGED vars
    <3>1. /\ UNCHANGED <<messages, start, used, clean>> /\ UNCHANGED told
          /\ \A u \in Turns : todo'[u] \subseteq todo[u] /\ (Active(u)' => Active(u))
      BY <2>3 DEF vars, Active
    <3>2. QED
      BY <3>1, QuietSettled
  <2>4. QED
    BY <2>1, <2>2, <2>3 DEF Next
<1>3. QED
  BY <1>1, <1>2, InvariantHolds, PTL DEF Spec

(* With one turn at a time and a log in order, a call that a model was     *)
(* told is interrupted never gets a result afterwards.                     *)
THEOREM InterruptedStaysOver == Spec => []InterruptedIsOver
<1>1. IInv /\ Inv2 => InterruptedIsOver
  <2> SUFFICES ASSUME IInv, Inv2, clean, NEW c \in told PROVE ToolResult(c) \notin ToSet(messages)
    BY DEF InterruptedIsOver
  <2>1. messages \in Seq(Message) /\ c \in Calls
    BY DEF IInv, TypeOK
  <2>2. ~ HasResult(c)
    BY <2>1 DEF Inv2, Settled, GivenUp
  <2>3. QED
    BY <2>1, <2>2 DEF HasResult, ToSet
<1>2. QED
  BY <1>1, InvariantHolds, SettledHolds, PTL

(* No model is ever sent a call without a result or a result without a     *)
(* call: neither a specialist nor Core, whatever was lost, repeated or     *)
(* reordered, and whichever turns overlap.                                 *)
THEOREM PairsAreSeen == Spec => []ModelsSeePairs
<1>1. TypeOK => ModelsSeePairs
  <2> SUFFICES ASSUME TypeOK PROVE ModelsSeePairs
    OBVIOUS
  <2>1. Transcript(messages)
    BY DEF TypeOK, Transcript
  <2>2. ASSUME NEW t \in Turns, pc[t] = "core" PROVE Transcript(SubSeq(messages, 1, start[t]))
    <3>1. messages \in Seq(Message) /\ start[t] \in 0 .. Len(messages)
      BY <2>2 DEF TypeOK, Active
    <3>2. /\ SubSeq(messages, 1, start[t]) \in Seq(Message)
          /\ Len(SubSeq(messages, 1, start[t])) = start[t]
          /\ \A i \in 1 .. start[t] : SubSeq(messages, 1, start[t])[i] = messages[i]
      BY <3>1
    <3>3. QED
      BY <2>1, <3>1, <3>2 DEF Transcript
  <2>3. QED
    BY <2>1, <2>2, ViewPairs DEF ModelsSeePairs, CoreView
<1>2. QED
  BY <1>1, TypeCorrect, PTL

(* The two passes change what they must and nothing else, on every         *)
(* transcript the session can have.                                        *)
THEOREM RepairStaysLocal == Spec => []RepairIsLocal
<1>1. TypeOK => RepairIsLocal
  BY ViewIsInPlace DEF TypeOK, Transcript, RepairIsLocal
<1>2. QED
  BY <1>1, TypeCorrect, PTL

-----------------------------------------------------------------------------
(* The greatest of some naturals up to n.                                  *)
LEMMA MaxOf ==
  ASSUME NEW n \in Nat, NEW S, S \subseteq 0 .. n, S # {}
  PROVE  Max(S) \in S /\ \A y \in S : Max(S) >= y
<1> DEFINE T == {n - x : x \in S}
<1>0. \A x \in S : x \in 0 .. n
  OBVIOUS
<1>1. T \subseteq Nat /\ T # {}
  <2>1. \A x \in S : n - x \in Nat
    BY <1>0
  <2>2. QED
    BY <2>1
<1>2. PICK t \in T : \A y \in T : t =< y
  <2> HIDE DEF T
  <2>1. QED
    BY <1>1, LeastElement
<1>3. PICK x \in S : t = n - x
  BY <1>2
<1>4. ASSUME NEW y \in S PROVE x >= y
  <2>1. n - y \in T
    OBVIOUS
  <2>2. n - x =< n - y
    BY <1>2, <1>3, <2>1
  <2>3. x \in 0 .. n /\ y \in 0 .. n
    BY <1>0
  <2>4. QED
    BY <2>2, <2>3
<1>5. QED
  BY <1>3, <1>4 DEF Max

(* The least of a non-empty set of naturals.                               *)
LEMMA MinOf ==
  ASSUME NEW S, S \subseteq Nat, S # {}
  PROVE  Min(S) \in S /\ \A y \in S : Min(S) =< y
  BY LeastElement DEF Min

(* Trimming cuts at both ends.                                             *)
LEMMA Trimmed ==
  ASSUME NEW s \in Seq(Unit)
  PROVE  /\ Trim(s) \in Seq(Unit)
         /\ s = <<>> => Trim(s) = <<>>
<1> DEFINE ink == {i \in DOMAIN s : s[i] \notin White}
<1>1. CASE ink = {}
  BY <1>1 DEF Trim
<1>2. CASE ink # {}
  <2>1. ink \subseteq Nat /\ ink \subseteq 0 .. Len(s) /\ Len(s) \in Nat
    OBVIOUS
  <2>2. Min(ink) \in ink /\ Max(ink) \in ink
    <3> HIDE DEF ink
    <3>1. QED
      BY <1>2, <2>1, MinOf, MaxOf
  <2>3. Min(ink) \in 1 .. Len(s) /\ Max(ink) \in 1 .. Len(s)
    BY <2>2
  <2>4. SubSeq(s, Min(ink), Max(ink)) \in Seq(Unit)
    <3> HIDE DEF ink
    <3>1. QED
      BY <2>3
  <2>5. Trim(s) = SubSeq(s, Min(ink), Max(ink))
    BY <1>2 DEF Trim
  <2>6. s # <<>>
    BY <2>3
  <2>7. QED
    BY <2>4, <2>5, <2>6
<1>3. QED
  BY <1>1, <1>2

-----------------------------------------------------------------------------
(* A push, unit by unit.                                                   *)
Pushes == [buffer : Seq(Unit \ Ends), anchor : Seq(Unit), stopped : BOOLEAN, out : Seq(Unit)]

(* What a push has emitted and still holds, what makes a segment the       *)
(* second coming of the anchor, and what becomes of the anchor otherwise.  *)
Held(s) == Len(s.out) + Len(s.buffer)

Restarts(s, g) ==
  /\ Len(Trim(StripMachineryLeak(g))) >= AnchorMinLen
  /\ Trim(StripMachineryLeak(g)) = s.anchor

Anchored(s, g) ==
  IF Len(Trim(StripMachineryLeak(g))) >= AnchorMinLen /\ s.anchor = <<>>
  THEN Trim(StripMachineryLeak(g)) ELSE s.anchor

(* What is left of a segment has no forbidden phrase.                      *)
LEMMA Stripped ==
  ASSUME NEW g \in Seq(Unit)
  PROVE  /\ StripMachineryLeak(g) \in Seq(Unit)
         /\ Len(StripMachineryLeak(g)) =< Len(g)
         /\ ~IsLeak(StripMachineryLeak(g))
         /\ StripMachineryLeak(g) \in {<<>>, g}
<1>1. ~IsLeak(<<>>)
  BY DEF IsLeak
<1>2. QED
  BY <1>1 DEF StripMachineryLeak

(* Consume, field by field.                                                *)
LEMMA Consumed ==
  ASSUME NEW s \in Pushes, NEW g \in Seq(Unit)
  PROVE  /\ Consume(s, g) \in Pushes
         /\ Consume(s, g).buffer = <<>>
         /\ Consume(s, g).stopped = (s.stopped \/ Restarts(s, g))
         /\ Consume(s, g).out = IF Restarts(s, g) THEN s.out
                                ELSE s.out \o StripMachineryLeak(g)
         /\ Consume(s, g).anchor = IF Restarts(s, g) THEN s.anchor ELSE Anchored(s, g)
<1> DEFINE c == StripMachineryLeak(g)
<1>1. c \in Seq(Unit) /\ Trim(c) \in Seq(Unit)
  <2>1. c \in Seq(Unit)
    BY Stripped
  <2>2. QED
    BY <2>1, Trimmed
<1>2. CASE Restarts(s, g)
  <2>1. Consume(s, g) = [s EXCEPT !.buffer = <<>>, !.stopped = TRUE]
    BY <1>2 DEF Consume, Restarts
  <2>2. [s EXCEPT !.buffer = <<>>, !.stopped = TRUE] \in Pushes
    <3> DEFINE e == <<>>
               t == [s EXCEPT !.buffer = e]
    <3>1. t \in Pushes
      <4>1. e \in Seq(Unit \ Ends)
        OBVIOUS
      <4> HIDE DEF e
      <4>2. QED
        BY <4>1 DEF Pushes
    <3>2. [s EXCEPT !.buffer = <<>>, !.stopped = TRUE] = [t EXCEPT !.stopped = TRUE]
      BY DEF Pushes
    <3> HIDE DEF t
    <3>3. [t EXCEPT !.stopped = TRUE] \in Pushes
      BY <3>1 DEF Pushes
    <3>4. QED
      BY <3>2, <3>3
  <2>3. /\ Consume(s, g).buffer = <<>> /\ Consume(s, g).stopped = TRUE
        /\ Consume(s, g).out = s.out /\ Consume(s, g).anchor = s.anchor
    BY <2>1 DEF Pushes
  <2>4. Consume(s, g) \in Pushes
    BY <2>1, <2>2
  <2>5. QED
    BY <1>2, <2>3, <2>4
<1>3. CASE ~Restarts(s, g)
  <2>1. Consume(s, g) = [s EXCEPT !.buffer = <<>>, !.out = @ \o c,
                                  !.anchor = Anchored(s, g)]
    BY <1>3 DEF Consume, Restarts, Anchored, Pushes
  <2>2. Anchored(s, g) \in Seq(Unit) /\ s.out \o c \in Seq(Unit)
    BY <1>1 DEF Anchored, Pushes
  <2>3. s.stopped \in BOOLEAN /\ <<>> \in Seq(Unit \ Ends)
    BY DEF Pushes
  <2> HIDE DEF c
  <2>4. QED
    BY <1>3, <2>1, <2>2, <2>3 DEF Pushes, c
<1>4. QED
  BY <1>2, <1>3

(* A unit adds at most itself to what is emitted or held.                  *)
LEMMA FeedTyped ==
  ASSUME NEW s \in Pushes, NEW u \in Unit
  PROVE  /\ Feed(s, u) \in Pushes
         /\ Held(Feed(s, u)) =< Held(s) + 1
<1>0. Len(s.out) \in Nat /\ Len(s.buffer) \in Nat
  BY DEF Pushes
<1> DEFINE a == Len(s.out)
           b == Len(s.buffer)
<1>00. Held(s) = a + b /\ a \in Nat /\ b \in Nat
  BY <1>0 DEF Held
<1> HIDE DEF a, b
<1>1. CASE s.stopped
  <2>1. Feed(s, u) = s
    BY <1>1 DEF Feed
  <2>2. Held(s) =< Held(s) + 1
    BY <1>00
  <2>3. QED
    BY <2>1, <2>2
<1>2. CASE ~s.stopped
  <2> DEFINE g == Append(s.buffer, u)
  <2>1. g \in Seq(Unit) /\ Len(g) = b + 1 /\ s.out \in Seq(Unit)
    <3>1. s.buffer \in Seq(Unit \ Ends) /\ s.out \in Seq(Unit)
      BY DEF Pushes
    <3>2. s.buffer \in Seq(Unit)
      <4> DEFINE t == s.buffer
      <4>1. t \in Seq(Unit \ Ends)
        BY <3>1
      <4> HIDE DEF t
      <4>2. t \in Seq(Unit)
        BY <4>1
      <4>3. QED
        BY <4>2 DEF t
    <3>3. QED
      BY <3>1, <3>2 DEF b
  <2>2. CASE u \in Ends
    <3>1. Feed(s, u) = Consume(s, g)
      BY <1>2, <2>2 DEF Feed
    <3>2. StripMachineryLeak(g) \in Seq(Unit) /\ Len(StripMachineryLeak(g)) =< Len(g)
      BY <2>1, Stripped
    <3>3. /\ Consume(s, g) \in Pushes /\ Consume(s, g).buffer = <<>>
          /\ Consume(s, g).out \in {s.out, s.out \o StripMachineryLeak(g)}
      BY <2>1, Consumed
    <3> DEFINE d == Len(StripMachineryLeak(g))
    <3>4. d \in Nat /\ d =< b + 1 /\ Len(s.out \o StripMachineryLeak(g)) = a + d
      <4> HIDE DEF g
      <4>1. QED
        BY <2>1, <3>2 DEF a
    <3>5. Len(Consume(s, g).out) \in {a, a + d}
      <4> HIDE DEF g, d
      <4>1. QED
        BY <3>3, <3>4 DEF a
    <3>6. Held(Consume(s, g)) = Len(Consume(s, g).out)
      <4>1. Len(Consume(s, g).buffer) = 0 /\ Len(Consume(s, g).out) \in Nat
        BY <3>3 DEF Pushes
      <4>2. QED
        BY <4>1 DEF Held
    <3>7. Held(Consume(s, g)) =< a + b + 1
      <4> HIDE DEF g, d
      <4>1. QED
        BY <1>00, <3>4, <3>5, <3>6
    <3>8. QED
      <4> HIDE DEF g, d
      <4>1. QED
        BY <1>00, <3>1, <3>3, <3>7
  <2>3. CASE u \notin Ends
    <3>1. Feed(s, u) = [s EXCEPT !.buffer = g]
      BY <1>2, <2>3 DEF Feed
    <3> HIDE DEF g
    <3>2. [s EXCEPT !.buffer = g] \in Pushes
      <4>1. u \in Unit \ Ends
        BY <2>3
      <4>2. g \in Seq(Unit \ Ends)
        BY <4>1 DEF Pushes, g
      <4>3. QED
        BY <4>2 DEF Pushes
    <3>3. Feed(s, u).buffer = g /\ Feed(s, u).out = s.out
      BY <3>1 DEF Pushes
    <3>4. Held(Feed(s, u)) = a + (b + 1)
      BY <2>1, <3>3 DEF Held, a
    <3>5. Held(Feed(s, u)) =< Held(s) + 1
      BY <1>00, <3>4
    <3>6. QED
      BY <3>1, <3>2, <3>5
  <2>4. QED
    BY <2>2, <2>3
<1>3. QED
  BY <1>1, <1>2

(* The fields of the sanitizer behind each unit of a chunk.                *)
LEMMA FedUnfolds ==
  ASSUME NEW n \in Nat, NEW chunk \in [1 .. n -> Unit], Sanitizer \in Pushes
  PROVE  /\ Len(chunk) = n
         /\ FedBy(chunk)[0] = Sanitizer
         /\ \A i \in 1 .. n : FedBy(chunk)[i] = Feed(FedBy(chunk)[i - 1], chunk[i])
         /\ \A i \in 0 .. n : FedBy(chunk)[i] \in Pushes
<1>1. Len(chunk) = n
  OBVIOUS
<1> DEFINE step == [i \in 1 .. n |-> [s \in Pushes |-> Feed(s, chunk[i])]]
           Def(g) == g = [i \in 0 .. n |-> IF i = 0 THEN Sanitizer ELSE Feed(g[i - 1], chunk[i])]
<1>2. step \in [1 .. n -> [Pushes -> Pushes]]
  BY FeedTyped
<1>3. PICK g \in [0 .. n -> Pushes] : Iterated(g, n, Sanitizer, step)
  <2> HIDE DEF step
  <2>1. QED
    BY <1>2, Iterates
<1>4. g[0] = Sanitizer
  BY <1>3 DEF Iterated
<1>5. ASSUME NEW i \in 1 .. n PROVE g[i] = Feed(g[i - 1], chunk[i])
  <2>1. g[i] = step[i][g[i - 1]]
    <3> HIDE DEF step
    <3>1. QED
      BY <1>3 DEF Iterated
  <2>2. g[i - 1] \in Pushes
    OBVIOUS
  <2>3. QED
    BY <2>1, <2>2
<1>6. Def(g)
  BY <1>4, <1>5
<1>7. FedBy(chunk) = CHOOSE f : Def(f)
  BY <1>1 DEF FedBy
<1>8. Def(FedBy(chunk))
  <2> HIDE DEF Def
  <2>1. QED
    BY <1>6, <1>7
<1>9. FedBy(chunk)[0] = Sanitizer
  BY <1>8
<1>10. ASSUME NEW i \in 1 .. n PROVE FedBy(chunk)[i] = Feed(FedBy(chunk)[i - 1], chunk[i])
  BY <1>8
<1>11. \A i \in 1 .. n : FedBy(chunk)[i - 1] \in Pushes => FedBy(chunk)[i] \in Pushes
  <2> TAKE i \in 1 .. n
  <2>1. chunk[i] \in Unit
    OBVIOUS
  <2>2. QED
    BY <1>10, <2>1, FeedTyped
<1>12. \A i \in 0 .. n : FedBy(chunk)[i] \in Pushes
  <2> HIDE DEF Def, step
  <2> DEFINE h == FedBy(chunk)
  <2>1. h[0] \in Pushes /\ \A i \in 1 .. n : h[i - 1] \in Pushes => h[i] \in Pushes
    BY <1>9, <1>11
  <2> HIDE DEF h
  <2>2. \A i \in 0 .. n : h[i] \in Pushes
    BY <2>1, IteratedTyped
  <2>3. QED
    BY <2>2 DEF h
<1>13. QED
  BY <1>1, <1>9, <1>10, <1>12

(* The arithmetic of the two limits.                                       *)
LEMMA SumBelow ==
  ASSUME NEW a \in Nat, NEW b \in Nat, NEW l \in Nat, NEW n \in Nat,
         NEW x \in Nat, NEW y \in Nat, a + b =< l + n, l < x, n =< y
  PROVE  a < x + y /\ \A d \in Nat : d =< b => a + d < x + y
  OBVIOUS

(* What a chunk leaves of the sanitizer.                                   *)
LEMMA ChunkTyped ==
  ASSUME NEW n \in 1 .. MaxChunk, NEW chunk \in [1 .. n -> Unit], SanitizerTypeOK
  PROVE  /\ Sanitizer \in Pushes
         /\ Fed(chunk) \in Pushes
         /\ PushChunk(chunk) \in Pushes
         /\ Len(PushChunk(chunk).buffer) < MaxSegmentBuffer
         /\ Len(PushChunk(chunk).out) < MaxSegmentBuffer + MaxChunk
<1>0. /\ n \in Nat /\ n =< MaxChunk /\ MaxChunk \in Nat
      /\ MaxSegmentBuffer \in Nat /\ MaxSegmentBuffer > 0
  BY SizesAssumption
<1>1. Sanitizer \in Pushes /\ Sanitizer.buffer = buffer /\ Sanitizer.out = <<>>
  BY DEF Sanitizer, Pushes, SanitizerTypeOK
<1>2. /\ Len(chunk) = n /\ FedBy(chunk)[0] = Sanitizer
      /\ \A i \in 1 .. n : FedBy(chunk)[i] = Feed(FedBy(chunk)[i - 1], chunk[i])
      /\ \A i \in 0 .. n : FedBy(chunk)[i] \in Pushes
  BY <1>0, <1>1, FedUnfolds
<1> DEFINE h == FedBy(chunk)
           P == {i \in 0 .. n : Held(h[i]) \in Nat /\ Held(h[i]) =< Len(buffer) + i}
           fed == Fed(chunk)
<1>3. Len(buffer) \in Nat /\ Len(buffer) < MaxSegmentBuffer
  BY DEF SanitizerTypeOK
<1>4. ASSUME NEW s \in Pushes PROVE Held(s) \in Nat /\ Len(s.out) \in Nat /\ Len(s.buffer) \in Nat
  BY DEF Held, Pushes
<1>5. Held(Sanitizer) = Len(buffer)
  <2>1. Len(Sanitizer.out) = 0 /\ Len(Sanitizer.buffer) = Len(buffer)
    BY <1>1
  <2>2. QED
    BY <1>3, <2>1 DEF Held
<1>6. 0 \in P
  BY <1>0, <1>2, <1>3, <1>5
<1>7. ASSUME NEW i \in 1 .. n, i - 1 \in P PROVE i \in P
  <2>1. chunk[i] \in Unit /\ h[i - 1] \in Pushes /\ h[i] = Feed(h[i - 1], chunk[i])
    BY <1>2
  <2>2. h[i] \in Pushes /\ Held(h[i]) =< Held(h[i - 1]) + 1
    <3> HIDE DEF h
    <3>1. QED
      BY <2>1, FeedTyped
  <2>3. Held(h[i]) \in Nat
    <3> HIDE DEF h
    <3>1. QED
      BY <1>4, <2>2
  <2>4. Held(h[i - 1]) \in Nat /\ Held(h[i - 1]) =< Len(buffer) + (i - 1)
    BY <1>7
  <2>5. Held(h[i]) =< Len(buffer) + i /\ i \in 0 .. n
    <3> HIDE DEF h
    <3>1. QED
      BY <1>3, <2>2, <2>3, <2>4
  <2>6. QED
    BY <2>3, <2>5
<1>8. 0 .. n \subseteq P
  <2> HIDE DEF P
  <2>1. QED
    BY <1>0, <1>6, <1>7, UpTo
<1>9. fed \in Pushes /\ Held(fed) =< Len(buffer) + n
  <2>1. n \in P
    BY <1>0, <1>8
  <2>2. fed = h[n]
    BY <1>2 DEF Fed
  <2>3. QED
    BY <1>2, <2>1, <2>2
<1> HIDE DEF h, P, fed
<1>10. /\ Held(fed) = Len(fed.out) + Len(fed.buffer)
       /\ Len(fed.out) \in Nat /\ Len(fed.buffer) \in Nat
  BY <1>4, <1>9 DEF Held
<1> DEFINE a == Len(fed.out)
           b == Len(fed.buffer)
<1>100. /\ a \in Nat /\ b \in Nat
        /\ a < MaxSegmentBuffer + MaxChunk
        /\ \A d \in Nat : d =< b => a + d < MaxSegmentBuffer + MaxChunk
  <2>1. a \in Nat /\ b \in Nat /\ a + b =< Len(buffer) + n
    BY <1>9, <1>10
  <2> HIDE DEF a, b
  <2>2. QED
    BY <1>0, <1>3, <2>1, SumBelow
<1>11. CASE Full(fed.buffer)
  <2>1. PushChunk(chunk) = Consume(fed, fed.buffer)
    BY <1>11 DEF PushChunk, fed
  <2> DEFINE g == fed.buffer
  <2>2. g \in Seq(Unit) /\ fed.out \in Seq(Unit)
    <3>1. g \in Seq(Unit \ Ends) /\ fed.out \in Seq(Unit)
      BY <1>9 DEF Pushes
    <3> HIDE DEF g
    <3>2. QED
      BY <3>1
  <2> HIDE DEF g
  <2>3. /\ Consume(fed, g) \in Pushes /\ Consume(fed, g).buffer = <<>>
        /\ Consume(fed, g).out \in {fed.out, fed.out \o StripMachineryLeak(g)}
    BY <1>9, <2>2, Consumed
  <2>4. StripMachineryLeak(g) \in Seq(Unit) /\ Len(StripMachineryLeak(g)) =< Len(g)
    BY <2>2, Stripped
  <2> DEFINE d == Len(StripMachineryLeak(g))
  <2>5. d \in Nat /\ Len(fed.out \o StripMachineryLeak(g)) = Len(fed.out) + d
    BY <2>2, <2>4
  <2>6. Len(Consume(fed, g).out) \in {Len(fed.out), Len(fed.out) + d}
    BY <2>3, <2>5
  <2>7. d =< Len(fed.buffer)
    BY <2>4 DEF g
  <2> HIDE DEF d
  <2>8. Len(Consume(fed, g).out) < MaxSegmentBuffer + MaxChunk
    BY <1>100, <2>5, <2>6, <2>7
  <2>9. Len(Consume(fed, g).buffer) < MaxSegmentBuffer
    BY <1>0, <2>3
  <2>10. PushChunk(chunk) = Consume(fed, g)
    BY <2>1 DEF g
  <2>11. QED
    BY <1>1, <1>9, <2>3, <2>8, <2>9, <2>10 DEF fed
<1>12. CASE ~Full(fed.buffer)
  <2>1. PushChunk(chunk) = fed
    BY <1>12 DEF PushChunk, fed
  <2>2. Len(fed.buffer) < MaxSegmentBuffer
    BY <1>0, <1>10, <1>12 DEF Full
  <2>3. Len(fed.out) < MaxSegmentBuffer + MaxChunk
    BY <1>100
  <2>4. QED
    BY <1>1, <1>9, <2>1, <2>2, <2>3 DEF fed
<1>13. QED
  BY <1>11, <1>12

(* The end of a step empties the buffer.                                   *)
LEMMA EndTyped ==
  ASSUME SanitizerTypeOK
  PROVE  /\ EndStep \in Pushes
         /\ EndStep.buffer = <<>>
         /\ Len(EndStep.out) < MaxSegmentBuffer + MaxChunk
<1>0. MaxChunk \in Nat /\ MaxSegmentBuffer \in Nat /\ MaxSegmentBuffer > 0
  BY SizesAssumption
<1>1. Sanitizer \in Pushes /\ Sanitizer.buffer = buffer /\ Sanitizer.out = <<>>
  BY DEF Sanitizer, Pushes, SanitizerTypeOK
<1>2. buffer \in Seq(Unit) /\ Len(buffer) \in Nat /\ Len(buffer) < MaxSegmentBuffer
  <2>1. buffer \in Seq(Unit \ Ends) /\ Len(buffer) < MaxSegmentBuffer
    BY DEF SanitizerTypeOK
  <2>2. QED
    BY <2>1
<1>3. CASE stopped \/ buffer = <<>>
  <2> DEFINE e == <<>>
  <2>1. EndStep = [Sanitizer EXCEPT !.buffer = e]
    BY <1>3 DEF EndStep
  <2>2. e \in Seq(Unit \ Ends)
    OBVIOUS
  <2> HIDE DEF e
  <2>3. /\ [Sanitizer EXCEPT !.buffer = e] \in Pushes
        /\ [Sanitizer EXCEPT !.buffer = e].buffer = e
        /\ [Sanitizer EXCEPT !.buffer = e].out = Sanitizer.out
    BY <1>1, <2>2 DEF Pushes
  <2>4. Len(EndStep.out) = 0
    BY <1>1, <2>1, <2>3
  <2>5. QED
    BY <1>0, <2>1, <2>3, <2>4 DEF e
<1>4. CASE ~(stopped \/ buffer = <<>>)
  <2>1. EndStep = Consume(Sanitizer, buffer)
    BY <1>4 DEF EndStep
  <2>2. /\ Consume(Sanitizer, buffer) \in Pushes /\ Consume(Sanitizer, buffer).buffer = <<>>
        /\ Consume(Sanitizer, buffer).out \in {<<>>, <<>> \o StripMachineryLeak(buffer)}
    BY <1>1, <1>2, Consumed
  <2>3. /\ StripMachineryLeak(buffer) \in Seq(Unit)
        /\ Len(StripMachineryLeak(buffer)) =< Len(buffer)
    BY <1>2, Stripped
  <2>4. <<>> \o StripMachineryLeak(buffer) = StripMachineryLeak(buffer)
    BY <2>3
  <2>5. Len(Consume(Sanitizer, buffer).out) \in {0, Len(StripMachineryLeak(buffer))}
    BY <2>2, <2>4
  <2>6. Len(Consume(Sanitizer, buffer).out) < MaxSegmentBuffer + MaxChunk
    <3>1. Len(StripMachineryLeak(buffer)) \in Nat
      BY <2>3
    <3>2. QED
      BY <1>0, <1>2, <2>3, <2>5, <3>1
  <2>7. QED
    BY <2>1, <2>2, <2>6
<1>5. QED
  BY <1>3, <1>4

(* There is always a step; a push keeps the type of what it adds to.       *)
SanitizerBase == SanitizerTypeOK /\ Len(raw) >= 1

LEMMA EmitTyped ==
  ASSUME SanitizerTypeOK, Len(raw) >= 1, NEW s \in Pushes, EmitText(s.out),
         Len(s.out) < MaxSegmentBuffer + MaxChunk
  PROVE  /\ text' \in Seq(Seq(Unit)) /\ Len(text') = Len(text)
         /\ \A k \in DOMAIN text' : Len(text'[k]) < MaxAssistantChars + MaxSegmentBuffer + MaxChunk
<1>0. MaxChunk \in Nat /\ MaxSegmentBuffer \in Nat /\ MaxAssistantChars \in Nat
  BY SizesAssumption
<1>1. /\ text \in Seq(Seq(Unit)) /\ Len(text) = Step /\ Step \in 1 .. Len(text)
      /\ \A k \in DOMAIN text : Len(text[k]) < MaxAssistantChars + MaxSegmentBuffer + MaxChunk
  BY DEF SanitizerTypeOK, Step
<1>2. s.out \in Seq(Unit) /\ text[Step] \in Seq(Unit)
  BY <1>1 DEF Pushes
<1> DEFINE t == text[Step] \o s.out
<1>3. t \in Seq(Unit) /\ Len(t) = Len(text[Step]) + Len(s.out)
  BY <1>2
<1>4. CASE Len(text[Step]) < MaxAssistantChars
  <2>1. text' = [text EXCEPT ![Step] = t]
    BY <1>4 DEF EmitText
  <2>2. Len(t) < MaxAssistantChars + MaxSegmentBuffer + MaxChunk
    <3> DEFINE a == Len(text[Step])
               b == Len(s.out)
    <3>1. a \in Nat /\ b \in Nat /\ a < MaxAssistantChars /\ b < MaxSegmentBuffer + MaxChunk
      BY <1>2, <1>4
    <3>2. Len(t) = a + b
      BY <1>3
    <3> HIDE DEF t, a, b
    <3>3. QED
      BY <1>0, <3>1, <3>2
  <2> HIDE DEF t
  <2>3. [text EXCEPT ![Step] = t] \in Seq(Seq(Unit)) /\ Len([text EXCEPT ![Step] = t]) = Len(text)
    BY <1>1, <1>3
  <2>4. \A k \in DOMAIN text : [text EXCEPT ![Step] = t][k] \in {t, text[k]}
    BY <1>1
  <2>5. DOMAIN [text EXCEPT ![Step] = t] = DOMAIN text
    BY <1>1
  <2>6. QED
    BY <1>1, <2>1, <2>2, <2>3, <2>4, <2>5
<1>5. CASE ~(Len(text[Step]) < MaxAssistantChars)
  <2>1. text' = text
    BY <1>5 DEF EmitText
  <2>2. QED
    BY <1>1, <2>1
<1>6. QED
  BY <1>4, <1>5

(* It holds at first ...                                                   *)
LEMMA SanitizerInitBase == SanitizerInit => SanitizerBase
<1> SUFFICES ASSUME SanitizerInit PROVE SanitizerBase
  OBVIOUS
<1>0. /\ MaxChunk \in Nat /\ MaxSegmentBuffer \in Nat /\ MaxAssistantChars \in Nat
      /\ MaxAssistantChars > 0 /\ MaxSegmentBuffer > 0
  BY SizesAssumption
<1>1. <<>> \in Seq(Unit) /\ <<>> \in Seq(Unit \ Ends) /\ Len(<<>>) = 0
  OBVIOUS
<1>2. << <<>> >> \in Seq(Seq(Unit)) /\ Len(<< <<>> >>) = 1 /\ << <<>> >>[1] = <<>>
  BY <1>1
<1>3. \A k \in DOMAIN text : Len(text[k]) = 0
  BY <1>2 DEF SanitizerInit
<1>4. 0 < MaxAssistantChars + MaxSegmentBuffer + MaxChunk
  BY <1>0
<1>5. \A k \in DOMAIN text : Len(text[k]) < MaxAssistantChars + MaxSegmentBuffer + MaxChunk
  BY <1>3, <1>4
<1>6. raw \in Seq(Seq(Unit)) /\ text \in Seq(Seq(Unit)) /\ Len(text) = Len(raw) /\ Len(raw) = 1
  BY <1>2 DEF SanitizerInit
<1>7. /\ buffer \in Seq(Unit \ Ends) /\ Len(buffer) < MaxSegmentBuffer /\ anchor \in Seq(Unit)
      /\ stopped \in BOOLEAN /\ cuts \subseteq Nat \X Nat
      /\ stage \in {"streaming", "answered", "over", "failed"}
  BY <1>0, <1>1 DEF SanitizerInit
<1>8. QED
  BY <1>5, <1>6, <1>7 DEF SanitizerBase, SanitizerTypeOK

(* A chunk makes the last step longer.                                     *)
LEMMA RawTyped ==
  ASSUME SanitizerBase, NEW n \in 1 .. MaxChunk, NEW chunk \in [1 .. n -> Unit],
         raw' = [raw EXCEPT ![Step] = @ \o chunk]
  PROVE  raw' \in Seq(Seq(Unit)) /\ Len(raw') = Len(raw) /\ Len(raw'[Step]) = Len(raw[Step]) + n
<1>1. n \in Nat /\ raw \in Seq(Seq(Unit)) /\ Step \in 1 .. Len(raw)
  BY SizesAssumption DEF SanitizerBase, SanitizerTypeOK, Step
<1>2. chunk \in Seq(Unit) /\ Len(chunk) = n /\ raw[Step] \in Seq(Unit)
  BY <1>1
<1> DEFINE r == raw[Step] \o chunk
<1>3. r \in Seq(Unit) /\ Len(r) = Len(raw[Step]) + n
  <2> DEFINE t == raw[Step]
  <2>1. t \in Seq(Unit) /\ chunk \in Seq(Unit) /\ Len(chunk) = n
    BY <1>2
  <2> HIDE DEF t
  <2>2. t \o chunk \in Seq(Unit) /\ Len(t \o chunk) = Len(t) + Len(chunk)
    BY <2>1
  <2>3. QED
    BY <2>1, <2>2 DEF t
<1>4. raw' = [raw EXCEPT ![Step] = r]
  OBVIOUS
<1> HIDE DEF r
<1>5. /\ [raw EXCEPT ![Step] = r] \in Seq(Seq(Unit))
      /\ Len([raw EXCEPT ![Step] = r]) = Len(raw)
      /\ [raw EXCEPT ![Step] = r][Step] = r
  BY <1>1, <1>3
<1>6. QED
  BY <1>3, <1>4, <1>5

(* ... and is kept.                                                        *)
LEMMA SanitizerStepBase == SanitizerBase /\ [SanitizerNext]_sanitizerVars => SanitizerBase'
<1> SUFFICES ASSUME SanitizerBase, [SanitizerNext]_sanitizerVars PROVE SanitizerBase'
  OBVIOUS
<1>0. SanitizerTypeOK /\ Len(raw) >= 1 /\ Len(text) = Len(raw) /\ Len(raw) \in Nat
  BY DEF SanitizerBase, SanitizerTypeOK
<1>1. ASSUME Chunk PROVE SanitizerBase'
  <2>1. PICK n \in 1 .. MaxChunk : \E chunk \in [1 .. n -> Unit] :
          /\ raw' = [raw EXCEPT ![Step] = @ \o chunk]
          /\ Becomes(PushChunk(chunk))
          /\ cuts' = IF Full(Fed(chunk).buffer) THEN cuts \cup {<<Step, Len(raw'[Step])>>}
                                                ELSE cuts
    BY <1>1 DEF Chunk
  <2>2. PICK chunk \in [1 .. n -> Unit] :
          /\ raw' = [raw EXCEPT ![Step] = @ \o chunk]
          /\ Becomes(PushChunk(chunk))
          /\ cuts' = IF Full(Fed(chunk).buffer) THEN cuts \cup {<<Step, Len(raw'[Step])>>}
                                                ELSE cuts
    BY <2>1
  <2>3. raw' \in Seq(Seq(Unit)) /\ Len(raw') = Len(raw) /\ Len(raw'[Step]) = Len(raw[Step]) + n
    BY <2>2, RawTyped
  <2> DEFINE s == PushChunk(chunk)
  <2>4. s \in Pushes /\ Len(s.buffer) < MaxSegmentBuffer /\ Len(s.out) < MaxSegmentBuffer + MaxChunk
    BY <1>0, ChunkTyped
  <2>5. buffer' = s.buffer /\ anchor' = s.anchor /\ stopped' = s.stopped /\ EmitText(s.out)
    BY <2>2 DEF Becomes
  <2> HIDE DEF s
  <2>6. /\ text' \in Seq(Seq(Unit)) /\ Len(text') = Len(text)
        /\ \A k \in DOMAIN text' : Len(text'[k]) < MaxAssistantChars + MaxSegmentBuffer + MaxChunk
    BY <1>0, <2>4, <2>5, EmitTyped
  <2>7. Len(raw[Step]) + n \in Nat /\ Step \in Nat
    BY <1>0, SizesAssumption DEF Step, SanitizerTypeOK
  <2>8. cuts' \subseteq Nat \X Nat
    <3>1. cuts \subseteq Nat \X Nat
      BY <1>0 DEF SanitizerTypeOK
    <3>2. cuts' \subseteq cuts \cup {<<Step, Len(raw'[Step])>>}
      BY <2>2
    <3> DEFINE m == Len(raw'[Step])
    <3>3. m \in Nat /\ Step \in Nat
      BY <2>3, <2>7
    <3> HIDE DEF m
    <3>4. QED
      BY <3>1, <3>2, <3>3 DEF m
  <2>9. /\ buffer' \in Seq(Unit \ Ends) /\ Len(buffer') < MaxSegmentBuffer
        /\ anchor' \in Seq(Unit) /\ stopped' \in BOOLEAN
    BY <2>4, <2>5 DEF Pushes
  <2>10. stage' \in {"streaming", "answered", "over", "failed"}
    BY <1>0, <1>1 DEF Chunk, SanitizerTypeOK
  <2>11. Len(text') = Len(raw') /\ Len(raw') >= 1
    BY <1>0, <2>3, <2>6
  <2>12. QED
    BY <2>3, <2>6, <2>8, <2>9, <2>10, <2>11 DEF SanitizerBase, SanitizerTypeOK
<1>2. ASSUME StreamEnds PROVE SanitizerBase'
  <2>1. EndStep \in Pushes /\ EndStep.buffer = <<>> /\ Len(EndStep.out) < MaxSegmentBuffer + MaxChunk
    BY <1>0, EndTyped
  <2>2. /\ buffer' = EndStep.buffer /\ anchor' = EndStep.anchor /\ stopped' = EndStep.stopped
        /\ EmitText(EndStep.out) /\ raw' = raw /\ cuts' = cuts /\ stage' = "answered"
    BY <1>2 DEF StreamEnds, Becomes
  <2>3. /\ text' \in Seq(Seq(Unit)) /\ Len(text') = Len(text)
        /\ \A k \in DOMAIN text' : Len(text'[k]) < MaxAssistantChars + MaxSegmentBuffer + MaxChunk
    BY <1>0, <2>1, <2>2, EmitTyped
  <2>4. Len(buffer') < MaxSegmentBuffer
    <3>1. Len(EndStep.buffer) = 0 /\ MaxSegmentBuffer \in Nat \ {0}
      BY <2>1, SizesAssumption
    <3>2. QED
      BY <2>2, <3>1
  <2>5. buffer' \in Seq(Unit \ Ends) /\ anchor' \in Seq(Unit) /\ stopped' \in BOOLEAN
    BY <2>1, <2>2 DEF Pushes
  <2>6. QED
    BY <1>0, <2>2, <2>3, <2>4, <2>5 DEF SanitizerBase, SanitizerTypeOK
<1>3. ASSUME NextStep PROVE SanitizerBase'
  <2>1. /\ raw' = Append(raw, <<>>) /\ text' = Append(text, <<>>) /\ stage' = "streaming"
        /\ cuts' = cuts /\ buffer' = buffer /\ anchor' = anchor /\ stopped' = stopped
    BY <1>3 DEF NextStep
  <2> DEFINE e == <<>>
  <2>2. e \in Seq(Unit) /\ Len(e) = 0
    OBVIOUS
  <2>3. /\ text \in Seq(Seq(Unit)) /\ raw \in Seq(Seq(Unit))
        /\ \A k \in DOMAIN text : Len(text[k]) < MaxAssistantChars + MaxSegmentBuffer + MaxChunk
    BY <1>0 DEF SanitizerTypeOK
  <2> HIDE DEF e
  <2>4. /\ Append(raw, e) \in Seq(Seq(Unit)) /\ Append(text, e) \in Seq(Seq(Unit))
        /\ Len(Append(raw, e)) = Len(raw) + 1 /\ Len(Append(text, e)) = Len(text) + 1
    BY <2>2, <2>3
  <2>5. \A k \in DOMAIN Append(text, e) :
          (k \in DOMAIN text /\ Append(text, e)[k] = text[k]) \/ Append(text, e)[k] = e
    BY <2>2, <2>3
  <2>6. 0 < MaxAssistantChars + MaxSegmentBuffer + MaxChunk
    BY SizesAssumption
  <2>7. \A k \in DOMAIN Append(text, e) :
          Len(Append(text, e)[k]) < MaxAssistantChars + MaxSegmentBuffer + MaxChunk
    BY <2>2, <2>3, <2>5, <2>6
  <2>8. raw' = Append(raw, e) /\ text' = Append(text, e)
    BY <2>1 DEF e
  <2>9. Len(raw') = Len(text') /\ Len(raw') >= 1
    BY <1>0, <2>4, <2>8
  <2>10. QED
    BY <1>0, <2>1, <2>4, <2>7, <2>8, <2>9 DEF SanitizerBase, SanitizerTypeOK
<1>4. ASSUME StreamFails \/ TurnOver \/ UNCHANGED sanitizerVars PROVE SanitizerBase'
  <2>1. /\ raw' = raw /\ cuts' = cuts /\ text' = text /\ buffer' = buffer /\ anchor' = anchor
        /\ stopped' = stopped /\ stage' \in {stage, "failed", "over"}
    BY <1>4 DEF StreamFails, TurnOver, sanitizerVars
  <2>2. QED
    BY <1>0, <2>1 DEF SanitizerBase, SanitizerTypeOK
<1>5. QED
  BY <1>1, <1>2, <1>3, <1>4 DEF SanitizerNext

(* The sanitizer holds less than a full buffer and never the end of a      *)
(* segment, and no step streams much more than MAX_ASSISTANT_CHARS (push,  *)
(* endStep and emitText).                                                  *)
THEOREM SanitizerTypes == SanitizerSpec => []SanitizerTypeOK
<1>1. SanitizerInit => SanitizerBase
  BY SanitizerInitBase
<1>2. SanitizerBase /\ [SanitizerNext]_sanitizerVars => SanitizerBase'
  BY SanitizerStepBase
<1>3. SanitizerBase => SanitizerTypeOK
  BY DEF SanitizerBase
<1>4. QED
  BY <1>1, <1>2, <1>3, PTL DEF SanitizerSpec

-----------------------------------------------------------------------------
(* Text that ends in the end of a segment can be followed by anything:     *)
(* no phrase is cut there.                                                 *)
EndsSegment(t) == t = <<>> \/ t[Len(t)] \in Ends

Sound(t) == ~IsLeak(t) /\ EndsSegment(t)

(* Behind the end of a segment, text without a leak makes none.            *)
LEMMA NoLeakJoined ==
  ASSUME NEW a \in Seq(Unit), NEW b \in Seq(Unit), Sound(a), ~IsLeak(b)
  PROVE  ~IsLeak(a \o b) /\ (EndsSegment(b) => EndsSegment(a \o b))
<1> DEFINE c == a \o b
<1>1. c \in Seq(Unit) /\ Len(c) = Len(a) + Len(b) /\ Len(a) \in Nat /\ Len(b) \in Nat
  OBVIOUS
<1>2. ASSUME NEW i \in 1 .. Len(c) - 1, c[i] = "another", c[i + 1] = "tool" PROVE FALSE
  <2>1. CASE i < Len(a)
    <3>1. c[i] = a[i] /\ c[i + 1] = a[i + 1] /\ i \in 1 .. Len(a) - 1
      BY <1>1, <2>1
    <3>2. QED
      BY <1>2, <3>1 DEF Sound, IsLeak
  <2>2. CASE i = Len(a)
    <3>1. a # <<>> /\ c[i] = a[Len(a)]
      BY <1>1, <2>2
    <3>2. a[Len(a)] \in Ends
      BY <3>1 DEF Sound, EndsSegment
    <3>3. QED
      BY <1>2, <3>1, <3>2 DEF Ends
  <2>3. CASE i > Len(a)
    <3> DEFINE j == i - Len(a)
    <3>1. c[i] = b[j] /\ c[i + 1] = b[j + 1] /\ j \in 1 .. Len(b) - 1
      BY <1>1, <2>3
    <3> HIDE DEF c, j
    <3>2. QED
      BY <1>2, <3>1 DEF IsLeak
  <2>4. QED
    BY <1>1, <2>1, <2>2, <2>3
<1>3. ~IsLeak(c)
  <2> HIDE DEF c
  <2>1. QED
    BY <1>2 DEF IsLeak
<1>4. ASSUME EndsSegment(b) PROVE EndsSegment(c)
  <2>1. CASE b = <<>>
    <3>1. c = a
      BY <2>1
    <3>2. QED
      BY <3>1 DEF Sound
  <2>2. CASE b # <<>>
    <3>1. Len(b) > 0 /\ c[Len(c)] = b[Len(b)]
      BY <1>1, <2>2
    <3>2. QED
      BY <1>4, <2>2, <3>1 DEF EndsSegment
  <2>3. QED
    BY <2>1, <2>2
<1>5. QED
  BY <1>3, <1>4

(* What is emitted behind a unit has no leak and ends where a segment      *)
(* does,                                                                   *)
LEMMA FeedSound ==
  ASSUME NEW s \in Pushes, NEW u \in Unit, Sound(s.out)
  PROVE  Sound(Feed(s, u).out)
<1>1. CASE s.stopped
  BY <1>1 DEF Feed
<1>2. CASE ~s.stopped /\ u \notin Ends
  <2>1. Feed(s, u) = [s EXCEPT !.buffer = Append(s.buffer, u)]
    BY <1>2 DEF Feed
  <2>2. Feed(s, u).out = s.out
    BY <2>1 DEF Pushes
  <2>3. QED
    BY <2>2
<1>3. CASE ~s.stopped /\ u \in Ends
  <2> DEFINE g == Append(s.buffer, u)
  <2>1. g \in Seq(Unit) /\ g[Len(g)] \in Ends
    <3> DEFINE t == s.buffer
    <3>1. t \in Seq(Unit \ Ends)
      BY DEF Pushes
    <3> HIDE DEF t
    <3>2. t \in Seq(Unit)
      BY <3>1
    <3>3. QED
      BY <1>3, <3>2 DEF t
  <2>2. Feed(s, u) = Consume(s, g)
    BY <1>3 DEF Feed
  <2> HIDE DEF g
  <2>3. Consume(s, g).out \in {s.out, s.out \o StripMachineryLeak(g)}
    BY <2>1, Consumed
  <2> DEFINE c == StripMachineryLeak(g)
  <2>4. c \in Seq(Unit) /\ ~IsLeak(c) /\ EndsSegment(c)
    BY <2>1, Stripped DEF EndsSegment
  <2>5. s.out \in Seq(Unit)
    BY DEF Pushes
  <2> HIDE DEF c
  <2>6. Sound(s.out \o c)
    BY <2>4, <2>5, NoLeakJoined DEF Sound
  <2>7. QED
    BY <2>2, <2>3, <2>6 DEF c
<1>4. QED
  BY <1>1, <1>2, <1>3

(* and so behind a chunk.                                                  *)
LEMMA FedSound ==
  ASSUME NEW n \in 1 .. MaxChunk, NEW chunk \in [1 .. n -> Unit], SanitizerTypeOK
  PROVE  Sound(Fed(chunk).out)
<1>0. n \in Nat
  BY SizesAssumption
<1>1. Sanitizer \in Pushes /\ Sanitizer.out = <<>>
  BY ChunkTyped DEF Sanitizer
<1>2. /\ Len(chunk) = n /\ FedBy(chunk)[0] = Sanitizer
      /\ \A i \in 1 .. n : FedBy(chunk)[i] = Feed(FedBy(chunk)[i - 1], chunk[i])
      /\ \A i \in 0 .. n : FedBy(chunk)[i] \in Pushes
  BY <1>0, <1>1, FedUnfolds
<1> DEFINE h == FedBy(chunk)
           P == {i \in 0 .. n : Sound(h[i].out)}
<1>3. 0 \in P
  BY <1>0, <1>1, <1>2 DEF Sound, EndsSegment, IsLeak
<1>4. ASSUME NEW i \in 1 .. n, i - 1 \in P PROVE i \in P
  <2>1. chunk[i] \in Unit /\ h[i - 1] \in Pushes /\ h[i] = Feed(h[i - 1], chunk[i])
    BY <1>2
  <2>2. Sound(h[i - 1].out)
    BY <1>4
  <2> HIDE DEF h
  <2>3. Sound(h[i].out)
    BY <2>1, <2>2, FeedSound
  <2>4. QED
    BY <2>3
<1>5. 0 .. n \subseteq P
  <2> HIDE DEF P
  <2>1. QED
    BY <1>0, <1>3, <1>4, UpTo
<1>6. n \in P
  BY <1>0, <1>5
<1>7. QED
  BY <1>2, <1>6 DEF Fed

(* A step no buffer of which was flushed has no leak; while it streams, it  *)
(* ends where a segment ends.                                              *)
StepFlushed(k) == \E cut \in cuts : cut[1] = k

(* A step of which no full buffer was flushed has no leak and, while it is *)
(* written, ends where a segment does.                                     *)
SoundSteps ==
  \A k \in DOMAIN text :
    \/ StepFlushed(k)
    \/ ~IsLeak(text[k]) /\ (k = Step /\ stage = "streaming" => EndsSegment(text[k]))

(* Emitting such text keeps this.                                          *)
LEMMA EmitSound ==
  ASSUME SanitizerBase, SoundSteps, NEW s \in Pushes, EmitText(s.out), stage = "streaming",
         ~IsLeak(s.out), cuts' = cuts, raw' = raw \/ Len(raw') = Len(raw),
         stage' = "streaming" => stage = "streaming" /\ EndsSegment(s.out)
  PROVE  SoundSteps'
<1>1. /\ text \in Seq(Seq(Unit)) /\ Len(text) = Step /\ Step \in 1 .. Len(text)
      /\ s.out \in Seq(Unit) /\ text[Step] \in Seq(Unit)
  BY DEF SanitizerBase, SanitizerTypeOK, Step, Pushes
<1>2. Step' = Step
  BY DEF Step
<1>3. DOMAIN text' = DOMAIN text /\ \A k \in DOMAIN text : k # Step => text'[k] = text[k]
  BY <1>1 DEF EmitText
<1>4. text'[Step] \in {text[Step], text[Step] \o s.out}
  BY <1>1 DEF EmitText
<1>5. ASSUME NEW k \in DOMAIN text, k # Step PROVE StepFlushed(k) \/ ~IsLeak(text'[k])
  BY <1>3, <1>5 DEF SoundSteps
<1>6. \/ StepFlushed(Step)
      \/ ~IsLeak(text'[Step]) /\ (stage' = "streaming" => EndsSegment(text'[Step]))
  <2>1. SUFFICES ASSUME ~StepFlushed(Step)
                 PROVE ~IsLeak(text'[Step]) /\ (stage' = "streaming" => EndsSegment(text'[Step]))
    OBVIOUS
  <2>2. Sound(text[Step])
    BY <1>1, <2>1 DEF SoundSteps, Sound
  <2>3. ~IsLeak(text[Step] \o s.out) /\ (EndsSegment(s.out) => EndsSegment(text[Step] \o s.out))
    BY <1>1, <2>2, NoLeakJoined
  <2>4. QED
    BY <1>4, <2>2, <2>3 DEF Sound
<1>7. ASSUME NEW k \in DOMAIN text'
      PROVE (\E cut \in cuts' : cut[1] = k)
            \/ (~IsLeak(text'[k]) /\ (k = Step' /\ stage' = "streaming" => EndsSegment(text'[k])))
  BY <1>2, <1>3, <1>5, <1>6 DEF StepFlushed
<1>8. QED
  BY <1>7 DEF SoundSteps, StepFlushed

(* So does every step of the sanitizer.                                    *)
LEMMA SoundStepsStep ==
  SanitizerBase /\ SoundSteps /\ [SanitizerNext]_sanitizerVars => SoundSteps'
<1> SUFFICES ASSUME SanitizerBase, SoundSteps, [SanitizerNext]_sanitizerVars PROVE SoundSteps'
  OBVIOUS
<1>0. /\ SanitizerTypeOK /\ Len(raw) >= 1 /\ Len(text) = Len(raw) /\ Len(raw) \in Nat
      /\ text \in Seq(Seq(Unit)) /\ raw \in Seq(Seq(Unit))
  BY DEF SanitizerBase, SanitizerTypeOK
<1>1. ASSUME Chunk PROVE SoundSteps'
  <2>1. PICK n \in 1 .. MaxChunk : \E chunk \in [1 .. n -> Unit] :
          /\ raw' = [raw EXCEPT ![Step] = @ \o chunk]
          /\ Becomes(PushChunk(chunk))
          /\ cuts' = IF Full(Fed(chunk).buffer) THEN cuts \cup {<<Step, Len(raw'[Step])>>}
                                                ELSE cuts
    BY <1>1 DEF Chunk
  <2>2. PICK chunk \in [1 .. n -> Unit] :
          /\ raw' = [raw EXCEPT ![Step] = @ \o chunk]
          /\ Becomes(PushChunk(chunk))
          /\ cuts' = IF Full(Fed(chunk).buffer) THEN cuts \cup {<<Step, Len(raw'[Step])>>}
                                                ELSE cuts
    BY <2>1
  <2>3. Len(raw') = Len(raw) /\ stage = "streaming" /\ stage' = "streaming"
    BY <1>1, <2>2, RawTyped DEF Chunk
  <2>4. CASE Full(Fed(chunk).buffer)
    <3>1. cuts' = cuts \cup {<<Step, Len(raw'[Step])>>}
      BY <2>2, <2>4
    <3>2. /\ DOMAIN text' = DOMAIN text /\ \A k \in DOMAIN text : k # Step => text'[k] = text[k]
      BY <1>0, <2>2 DEF Becomes, EmitText, Step
    <3>3. Step' = Step
      BY <2>3 DEF Step
    <3>4. \E cut \in cuts' : cut[1] = Step
      <4> DEFINE p == Len(raw'[Step])
      <4>1. <<Step, p>> \in cuts'
        BY <3>1
      <4> HIDE DEF p
      <4>2. <<Step, p>>[1] = Step
        OBVIOUS
      <4>3. QED
        BY <4>1, <4>2
    <3>5. ASSUME NEW k \in DOMAIN text'
          PROVE \/ \E cut \in cuts' : cut[1] = k
                \/ ~IsLeak(text'[k]) /\ (k = Step' /\ stage' = "streaming" => EndsSegment(text'[k]))
      <4>1. CASE k = Step
        BY <3>4, <4>1
      <4>2. CASE k # Step
        <5>1. text'[k] = text[k] /\ k \in DOMAIN text
          BY <3>2, <3>5, <4>2
        <5>2. CASE StepFlushed(k)
          BY <3>1, <5>2 DEF StepFlushed
        <5>3. CASE ~StepFlushed(k)
          BY <3>3, <4>2, <5>1, <5>3 DEF SoundSteps
        <5>4. QED
          BY <5>2, <5>3
      <4>3. QED
        BY <4>1, <4>2
    <3>6. QED
      BY <3>5 DEF SoundSteps, StepFlushed
  <2>5. CASE ~Full(Fed(chunk).buffer)
    <3> DEFINE s == Fed(chunk)
    <3>1. Becomes(s) /\ cuts' = cuts
      BY <2>2, <2>5 DEF PushChunk
    <3>2. s \in Pushes /\ Sound(s.out)
      BY <1>0, ChunkTyped, FedSound
    <3> HIDE DEF s
    <3>3. EmitText(s.out)
      BY <3>1 DEF Becomes
    <3>4. QED
      BY <2>3, <3>1, <3>2, <3>3, EmitSound DEF Sound
  <2>6. QED
    BY <2>4, <2>5
<1>2. ASSUME StreamEnds PROVE SoundSteps'
  <2> DEFINE s == EndStep
  <2>1. /\ EmitText(s.out) /\ raw' = raw /\ cuts' = cuts /\ stage = "streaming"
        /\ stage' = "answered"
    BY <1>2 DEF StreamEnds, Becomes
  <2>2. s \in Pushes
    BY <1>0, EndTyped
  <2>3. ~IsLeak(s.out)
    <3>0. Sanitizer \in Pushes /\ Sanitizer.out = <<>> /\ ~IsLeak(<<>>)
      BY <1>0 DEF Sanitizer, Pushes, SanitizerTypeOK, IsLeak
    <3>1. CASE stopped \/ buffer = <<>>
      <4>1. EndStep = [Sanitizer EXCEPT !.buffer = <<>>]
        BY <3>1 DEF EndStep
      <4>2. EndStep.out = Sanitizer.out
        BY <3>0, <4>1 DEF Pushes
      <4>3. QED
        BY <3>0, <4>2
    <3>2. CASE ~(stopped \/ buffer = <<>>)
      <4>1. EndStep = Consume(Sanitizer, buffer)
        BY <3>2 DEF EndStep
      <4>2. buffer \in Seq(Unit)
        <5>1. buffer \in Seq(Unit \ Ends)
          BY <1>0 DEF SanitizerTypeOK
        <5>2. QED
          BY <5>1
      <4>3. Consume(Sanitizer, buffer).out \in {<<>>, <<>> \o StripMachineryLeak(buffer)}
        BY <3>0, <4>2, Consumed
      <4>4. /\ StripMachineryLeak(buffer) \in Seq(Unit) /\ ~IsLeak(StripMachineryLeak(buffer))
        BY <4>2, Stripped
      <4>5. <<>> \o StripMachineryLeak(buffer) = StripMachineryLeak(buffer)
        BY <4>4
      <4>6. QED
        BY <3>0, <4>1, <4>3, <4>4, <4>5
    <3>3. QED
      BY <3>1, <3>2
  <2> HIDE DEF s
  <2>4. QED
    BY <2>1, <2>2, <2>3, EmitSound
<1>3. ASSUME NextStep PROVE SoundSteps'
  <2>1. /\ raw' = Append(raw, <<>>) /\ text' = Append(text, <<>>) /\ cuts' = cuts
    BY <1>3 DEF NextStep
  <2>2. Step' = Step + 1 /\ Step = Len(text) /\ Step \in Nat
    BY <1>0, <2>1 DEF Step
  <2>3. ~IsLeak(<<>>) /\ EndsSegment(<<>>)
    BY DEF IsLeak, EndsSegment
  <2>4. ASSUME NEW k \in DOMAIN text'
        PROVE \/ \E cut \in cuts' : cut[1] = k
              \/ ~IsLeak(text'[k]) /\ (k = Step' /\ stage' = "streaming" => EndsSegment(text'[k]))
    <3> DEFINE e == <<>>
    <3>1. e \in Seq(Unit)
      OBVIOUS
    <3>2. text' = Append(text, e)
      BY <2>1
    <3> HIDE DEF e
    <3>3. (k \in DOMAIN text /\ text'[k] = text[k] /\ k # Step') \/ text'[k] = e
      BY <1>0, <2>2, <2>4, <3>1, <3>2
    <3>4. CASE text'[k] = e
      BY <2>3, <3>4 DEF e
    <3>5. CASE k \in DOMAIN text /\ text'[k] = text[k] /\ k # Step'
      BY <2>1, <3>5 DEF SoundSteps, StepFlushed
    <3>6. QED
      BY <3>3, <3>4, <3>5
  <2>5. QED
    BY <2>4 DEF SoundSteps, StepFlushed
<1>4. ASSUME StreamFails \/ TurnOver \/ UNCHANGED sanitizerVars PROVE SoundSteps'
  <2>1. /\ raw' = raw /\ cuts' = cuts /\ text' = text
        /\ stage' = "streaming" => stage = "streaming"
    BY <1>4 DEF StreamFails, TurnOver, sanitizerVars
  <2>2. Step' = Step
    BY <2>1 DEF Step
  <2>3. QED
    BY <2>1, <2>2 DEF SoundSteps, StepFlushed
<1>5. QED
  BY <1>1, <1>2, <1>3, <1>4 DEF SanitizerNext

(* No forbidden phrase reaches the user, wherever the chunks are cut: what *)
(* is streamed grows by whole segments, and no phrase reaches over the end *)
(* of one, except where a full buffer was flushed (stripMachineryLeak      *)
(* behind push and endStep).                                               *)
THEOREM LeaksAreDropped == SanitizerSpec => []NoLeakStreamed
<1>1. SanitizerInit => SoundSteps
  <2> SUFFICES ASSUME SanitizerInit PROVE SoundSteps
    OBVIOUS
  <2>1. text = << <<>> >>
    BY DEF SanitizerInit
  <2>2. \A k \in DOMAIN text : text[k] = <<>>
    BY <2>1
  <2>3. ~IsLeak(<<>>) /\ EndsSegment(<<>>)
    BY DEF IsLeak, EndsSegment
  <2>4. QED
    BY <2>2, <2>3 DEF SoundSteps
<1>2. SoundSteps => NoLeakStreamed
  BY DEF SoundSteps, StepFlushed, NoLeakStreamed
<1>3. QED
  BY <1>1, <1>2, SanitizerInitBase, SanitizerStepBase, SoundStepsStep, PTL DEF SanitizerSpec

-----------------------------------------------------------------------------
(* The sanitized text by definition does not change for the segments that  *)
(* are there already: w is what was written, S the segments in it.         *)
Scoped(w, S) ==
  /\ w \in Seq(Seq(Unit)) /\ Len(w) >= 1
  /\ S \subseteq Nat \X Nat
  /\ \A a \in S : a[1] \in DOMAIN w /\ a[2] \in DOMAIN w[a[1]]

(* v and T carry w and S on: nothing is rewritten, new segments are behind *)
(* the old ones.                                                           *)
Continues(w, S, v, T) ==
  /\ Scoped(w, S) /\ Scoped(v, T) /\ S \subseteq T
  /\ Len(w) =< Len(v)
  /\ \A k \in DOMAIN w : /\ Len(w[k]) =< Len(v[k])
                         /\ \A i \in 1 .. Len(w[k]) : v[k][i] = w[k][i]
  /\ \A a \in S, b \in T \ S : Before(a, b)

(* Before is a strict total order.                                         *)
LEMMA Order ==
  ASSUME NEW a \in Nat \X Nat, NEW b \in Nat \X Nat
  PROVE  /\ Before(a, b) \/ Before(b, a) \/ a = b
         /\ ~(Before(a, b) /\ Before(b, a)) /\ ~Before(a, a)
         /\ \A c \in Nat \X Nat : Before(a, b) /\ Before(b, c) => Before(a, c)
  BY DEF Before

(* Where the last end before a position is.                                *)
LEMMA EndBeforeIn ==
  ASSUME NEW S, NEW k, NEW p \in Nat, p >= 1
  PROVE  /\ EndBefore(S, k, p) \in 0 .. p - 1
         /\ \A e \in EndBefore(S, k, p) + 1 .. p - 1 : <<k, e>> \notin S
         /\ EndBefore(S, k, p) = 0 \/ <<k, EndBefore(S, k, p)>> \in S
<1> DEFINE E == {0} \cup {e \in 1 .. p - 1 : <<k, e>> \in S}
<1>1. E \subseteq 0 .. p - 1 /\ E # {} /\ p - 1 \in Nat
  OBVIOUS
<1>2. Max(E) \in E /\ \A y \in E : Max(E) >= y
  <2> HIDE DEF E
  <2>1. QED
    BY <1>1, MaxOf
<1>3. EndBefore(S, k, p) = Max(E)
  BY DEF EndBefore
<1> DEFINE m == Max(E)
<1>4. m \in 0 .. p - 1 /\ (m = 0 \/ <<k, m>> \in S)
  BY <1>2
<1>5. ASSUME NEW e \in m + 1 .. p - 1, <<k, e>> \in S PROVE FALSE
  <2>1. e \in E
    BY <1>4, <1>5
  <2>2. m >= e
    BY <1>2, <2>1
  <2> HIDE DEF m
  <2>3. QED
    BY <1>4, <2>2
<1>6. QED
  BY <1>3, <1>4, <1>5

(* The end before a position, when the ends before it are the same.        *)
LEMMA EndBeforeIs ==
  ASSUME NEW S, NEW T, NEW k, NEW p, \A e \in 1 .. p - 1 : <<k, e>> \in S <=> <<k, e>> \in T
  PROVE  EndBefore(S, k, p) = EndBefore(T, k, p)
<1>1. {e \in 1 .. p - 1 : <<k, e>> \in S} = {e \in 1 .. p - 1 : <<k, e>> \in T}
  OBVIOUS
<1>2. QED
  BY <1>1 DEF EndBefore

(* The same for two positions with no end between them.                    *)
LEMMA EndBeforeSame ==
  ASSUME NEW S, NEW T, NEW k, NEW p \in Nat, NEW q \in Nat, p =< q,
         \A e \in 1 .. p - 1 : <<k, e>> \in S <=> <<k, e>> \in T,
         \A e \in p .. q - 1 : <<k, e>> \notin T
  PROVE  EndBefore(S, k, p) = EndBefore(T, k, q)
<1>1. {e \in 1 .. p - 1 : <<k, e>> \in S} = {e \in 1 .. q - 1 : <<k, e>> \in T}
  OBVIOUS
<1>2. QED
  BY <1>1 DEF EndBefore

(* What two sequences have in common.                                      *)
LEMMA SubSeqSame ==
  ASSUME NEW s \in Seq(Unit), NEW t \in Seq(Unit), NEW i \in Nat, i >= 1,
         NEW j \in 0 .. Len(s), j =< Len(t), \A x \in 1 .. j : t[x] = s[x]
  PROVE  SubSeq(t, i, j) = SubSeq(s, i, j)
<1> DEFINE a == SubSeq(t, i, j)
           b == SubSeq(s, i, j)
           n == IF i =< j THEN j - i + 1 ELSE 0
<1>1. a \in Seq(Unit) /\ Len(a) = n /\ \A x \in 1 .. n : a[x] = t[i + x - 1]
  OBVIOUS
<1>2. b \in Seq(Unit) /\ Len(b) = n /\ \A x \in 1 .. n : b[x] = s[i + x - 1]
  OBVIOUS
<1>3. \A x \in 1 .. n : i + x - 1 \in 1 .. j
  OBVIOUS
<1>4. a = b
  <2> HIDE DEF a, b, n
  <2>1. \A x \in 1 .. n : a[x] = b[x]
    BY <1>1, <1>2, <1>3
  <2>2. QED
    BY <1>1, <1>2, <2>1
<1>5. QED
  BY <1>4

(* A segment is text,                                                      *)
LEMMA WordsTyped ==
  ASSUME NEW w, NEW S, Scoped(w, S), NEW a \in S
  PROVE  Words(w, S, a) \in Seq(Unit)
<1>1. /\ a[1] \in DOMAIN w /\ a[2] \in 1 .. Len(w[a[1]]) /\ w[a[1]] \in Seq(Unit)
      /\ a[2] \in Nat /\ a[2] >= 1
  BY DEF Scoped
<1>2. EndBefore(S, a[1], a[2]) \in 0 .. a[2] - 1
  BY <1>1, EndBeforeIn
<1> DEFINE t == w[a[1]]
           e == EndBefore(S, a[1], a[2])
           p == a[2]
<1>3. t \in Seq(Unit) /\ e \in 0 .. p - 1 /\ p \in 1 .. Len(t)
  BY <1>1, <1>2
<1> HIDE DEF t, e, p
<1>4. SubSeq(t, e + 1, p) \in Seq(Unit)
  BY <1>3
<1>5. QED
  BY <1>4 DEF Words, t, e, p

(* and remains what it is when more is written;                            *)
LEMMA WordsSame ==
  ASSUME NEW w, NEW S, NEW v, NEW T, Continues(w, S, v, T), NEW a \in S
  PROVE  Words(v, T, a) = Words(w, S, a)
<1>1. /\ Scoped(w, S) /\ Scoped(v, T) /\ S \subseteq T /\ Len(w) =< Len(v)
      /\ \A k \in DOMAIN w : /\ Len(w[k]) =< Len(v[k])
                             /\ \A i \in 1 .. Len(w[k]) : v[k][i] = w[k][i]
      /\ \A b \in T \ S : Before(a, b)
  BY DEF Continues
<1> DEFINE k == a[1]
           p == a[2]
           s == w[k]
           t == v[k]
<1>2. /\ k \in DOMAIN w /\ k \in DOMAIN v /\ k \in Nat /\ s \in Seq(Unit) /\ t \in Seq(Unit)
      /\ p \in 1 .. Len(s) /\ p \in Nat /\ p >= 1 /\ a = <<k, p>>
  <2>1. w \in Seq(Seq(Unit)) /\ v \in Seq(Seq(Unit)) /\ a \in Nat \X Nat
    BY <1>1 DEF Scoped
  <2>2. k \in DOMAIN w /\ p \in DOMAIN w[k]
    BY <1>1 DEF Scoped
  <2>3. a = <<k, p>> /\ k \in Nat /\ p \in Nat
    BY <2>1
  <2>4. s \in Seq(Unit) /\ p \in 1 .. Len(s) /\ p >= 1
    BY <2>1, <2>2
  <2>5. k \in DOMAIN v
    BY <1>1, <2>1, <2>2
  <2>6. t \in Seq(Unit)
    BY <2>1, <2>5
  <2>7. QED
    BY <2>2, <2>3, <2>4, <2>5, <2>6
<1>3. Len(s) =< Len(t) /\ \A i \in 1 .. Len(s) : t[i] = s[i]
  BY <1>1, <1>2
<1>4. ASSUME NEW e \in 1 .. p - 1 PROVE <<k, e>> \in S <=> <<k, e>> \in T
  <2>1. ASSUME <<k, e>> \in T \ S PROVE FALSE
    <3>1. Before(a, <<k, e>>)
      BY <1>1, <2>1
    <3> HIDE DEF k, p
    <3>2. QED
      BY <1>2, <3>1 DEF Before
  <2>2. QED
    BY <1>1, <2>1
<1>5. EndBefore(S, k, p) = EndBefore(T, k, p)
  <2> HIDE DEF k, p
  <2>1. QED
    BY <1>4, EndBeforeIs
<1> DEFINE e == EndBefore(S, k, p)
<1>6. e \in 0 .. p - 1
  <2> HIDE DEF k, p
  <2>1. QED
    BY <1>2, EndBeforeIn
<1>7. SubSeq(t, e + 1, p) = SubSeq(s, e + 1, p)
  <2> HIDE DEF s, t, e, p
  <2>1. e + 1 \in Nat /\ e + 1 >= 1 /\ p \in 0 .. Len(s) /\ p =< Len(t) /\ \A x \in 1 .. p : t[x] = s[x]
    BY <1>2, <1>3, <1>6
  <2>2. QED
    BY <1>2, <2>1, SubSeqSame
<1>8. QED
  BY <1>5, <1>7 DEF Words

(* so does what is said of it.                                             *)
LEMMA VerdictsSame ==
  ASSUME NEW w, NEW S, NEW v, NEW T, Continues(w, S, v, T)
  PROVE  /\ \A a \in S : Substantial(v, T, a) <=> Substantial(w, S, a)
         /\ \A a \in S : FirstSubstantial(v, T, a) <=> FirstSubstantial(w, S, a)
         /\ \A a \in S : Restart(v, T, a) <=> Restart(w, S, a)
         /\ \A a \in S : Survives(v, T, a) <=> Survives(w, S, a)
<1>1. /\ S \subseteq T /\ S \subseteq Nat \X Nat /\ T \subseteq Nat \X Nat
      /\ \A a \in S, b \in T \ S : Before(a, b)
  BY DEF Continues, Scoped
<1>2. \A a \in S : Words(v, T, a) = Words(w, S, a)
  BY WordsSame
<1>3. ASSUME NEW a \in S PROVE Substantial(v, T, a) <=> Substantial(w, S, a)
  BY <1>2 DEF Substantial
<1>4. ASSUME NEW a \in S, NEW b \in T, Before(b, a) PROVE b \in S
  BY <1>1, <1>4, Order
<1>5. ASSUME NEW a \in S PROVE FirstSubstantial(v, T, a) <=> FirstSubstantial(w, S, a)
  <2>1. (\E b \in T : Before(b, a) /\ Substantial(v, T, b))
        <=> (\E b \in S : Before(b, a) /\ Substantial(w, S, b))
    BY <1>1, <1>3, <1>4
  <2>2. QED
    BY <1>1, <1>3, <2>1 DEF FirstSubstantial
<1>6. ASSUME NEW r \in S PROVE Restart(v, T, r) <=> Restart(w, S, r)
  <2>1. ASSUME NEW a \in T, FirstSubstantial(v, T, a), Before(a, r),
               Trim(Words(v, T, a)) = Trim(Words(v, T, r))
        PROVE  \E b \in S : /\ FirstSubstantial(w, S, b) /\ Before(b, r)
                            /\ Trim(Words(w, S, b)) = Trim(Words(w, S, r))
    <3>1. a \in S
      BY <1>4, <2>1
    <3>2. QED
      BY <1>2, <1>5, <2>1, <3>1
  <2>2. ASSUME NEW a \in S, FirstSubstantial(w, S, a), Before(a, r),
               Trim(Words(w, S, a)) = Trim(Words(w, S, r))
        PROVE  \E b \in T : /\ FirstSubstantial(v, T, b) /\ Before(b, r)
                            /\ Trim(Words(v, T, b)) = Trim(Words(v, T, r))
    BY <1>1, <1>2, <1>5, <2>2
  <2>3. QED
    BY <1>3, <2>1, <2>2 DEF Restart
<1>7. ASSUME NEW a \in S PROVE Survives(v, T, a) <=> Survives(w, S, a)
  <2>1. (\E r \in T : Restart(v, T, r) /\ (r = a \/ Before(r, a)))
        <=> (\E r \in S : Restart(w, S, r) /\ (r = a \/ Before(r, a)))
    BY <1>1, <1>4, <1>6
  <2>2. QED
    BY <1>2, <2>1 DEF Survives
<1>8. QED
  BY <1>3, <1>5, <1>6, <1>7

(* The text that survives, position by position.                           *)
LEMMA SurvivingUnfolds ==
  ASSUME NEW w, NEW S, Scoped(w, S), NEW k \in DOMAIN w
  PROVE  /\ Surviving(w, S, k)[0] = <<>>
         /\ \A p \in 1 .. Len(w[k]) : Surviving(w, S, k)[p] =
              IF <<k, p>> \in S /\ Survives(w, S, <<k, p>>)
              THEN Surviving(w, S, k)[p - 1] \o Words(w, S, <<k, p>>)
              ELSE Surviving(w, S, k)[p - 1]
         /\ \A p \in 0 .. Len(w[k]) : Surviving(w, S, k)[p] \in Seq(Unit)
<1> DEFINE N == Len(w[k])
           Left(p, o) == IF <<k, p>> \in S /\ Survives(w, S, <<k, p>>)
                         THEN o \o Words(w, S, <<k, p>>) ELSE o
           step == [p \in 1 .. N |-> [o \in Seq(Unit) |-> Left(p, o)]]
           Def(g) == g = [p \in 0 .. N |->
                            IF p = 0 THEN <<>> ELSE Left(p, g[p - 1])]
           h == Surviving(w, S, k)
<1>1. N \in Nat
  BY DEF Scoped
<1>2. ASSUME NEW p \in 1 .. N, NEW o \in Seq(Unit) PROVE Left(p, o) \in Seq(Unit)
  <2>1. CASE <<k, p>> \in S
    <3> DEFINE t == Words(w, S, <<k, p>>)
    <3>1. t \in Seq(Unit)
      BY <2>1, WordsTyped
    <3> HIDE DEF t
    <3>2. o \o t \in Seq(Unit)
      BY <3>1
    <3>3. QED
      BY <3>2 DEF t
  <2>2. CASE <<k, p>> \notin S
    BY <2>2
  <2>3. QED
    BY <2>1, <2>2
<1>3. step \in [1 .. N -> [Seq(Unit) -> Seq(Unit)]] /\ <<>> \in Seq(Unit)
  <2> HIDE DEF N, Left
  <2>1. QED
    BY <1>2
<1>4. PICK g \in [0 .. N -> Seq(Unit)] : Iterated(g, N, <<>>, step)
  <2> HIDE DEF N, step
  <2>1. QED
    BY <1>1, <1>3, Iterates
<1>5. g[0] = <<>>
  BY <1>4 DEF Iterated
<1>6. ASSUME NEW p \in 1 .. N PROVE g[p] = Left(p, g[p - 1])
  <2>1. g[p] = step[p][g[p - 1]] /\ g[p - 1] \in Seq(Unit)
    <3> HIDE DEF N, step
    <3>1. QED
      BY <1>1, <1>4 DEF Iterated
  <2> HIDE DEF N, Left
  <2>2. QED
    BY <2>1
<1>7. Def(g)
  <2> HIDE DEF N, Left
  <2>1. QED
    BY <1>5, <1>6
<1>8. h = CHOOSE f : Def(f)
  BY DEF Surviving
<1>9. Def(h)
  <2> HIDE DEF Def, h
  <2>1. QED
    BY <1>7, <1>8
<1>10. h[0] = <<>>
  <2> HIDE DEF N, h, Left
  <2>1. 0 \in 0 .. N
    BY <1>1
  <2>2. QED
    BY <1>9, <2>1
<1>11. ASSUME NEW p \in 1 .. N PROVE h[p] = Left(p, h[p - 1])
  <2> HIDE DEF N, h, Left
  <2>1. p \in 0 .. N /\ p # 0
    BY <1>1
  <2>2. QED
    BY <1>9, <2>1
<1>12. \A p \in 0 .. N : h[p] \in Seq(Unit)
  <2>1. h[0] \in Seq(Unit) /\ \A p \in 1 .. N : h[p - 1] \in Seq(Unit) => h[p] \in Seq(Unit)
    <3> HIDE DEF N, h, Left, Def
    <3>1. QED
      BY <1>2, <1>3, <1>10, <1>11
  <2> HIDE DEF N, h, Left, Def
  <2>2. QED
    BY <1>1, <2>1, IteratedTyped
<1>13. QED
  BY <1>10, <1>11, <1>12

(* It depends on the segments up to the position only,                     *)
LEMMA SurvivingSame ==
  ASSUME NEW w, NEW S, Scoped(w, S), NEW v, NEW T, Scoped(v, T),
         NEW k \in DOMAIN w, k \in DOMAIN v, NEW m \in Nat, m =< Len(w[k]), m =< Len(v[k]),
         \A p \in 1 .. m : <<k, p>> \in S <=> <<k, p>> \in T,
         \A p \in 1 .. m : <<k, p>> \in S =>
            /\ Words(v, T, <<k, p>>) = Words(w, S, <<k, p>>)
            /\ Survives(v, T, <<k, p>>) <=> Survives(w, S, <<k, p>>)
  PROVE  \A p \in 0 .. m : Surviving(v, T, k)[p] = Surviving(w, S, k)[p]
<1> DEFINE f == Surviving(w, S, k)
           g == Surviving(v, T, k)
           P == {p \in 0 .. m : g[p] = f[p]}
<1>1. /\ f[0] = <<>>
      /\ \A p \in 1 .. Len(w[k]) : f[p] =
              IF <<k, p>> \in S /\ Survives(w, S, <<k, p>>)
              THEN f[p - 1] \o Words(w, S, <<k, p>>) ELSE f[p - 1]
  BY SurvivingUnfolds
<1>2. /\ g[0] = <<>>
      /\ \A p \in 1 .. Len(v[k]) : g[p] =
              IF <<k, p>> \in T /\ Survives(v, T, <<k, p>>)
              THEN g[p - 1] \o Words(v, T, <<k, p>>) ELSE g[p - 1]
  BY SurvivingUnfolds
<1>3. Len(w[k]) \in Nat /\ Len(v[k]) \in Nat
  BY DEF Scoped
<1> HIDE DEF f, g
<1>4. 0 \in P
  BY <1>1, <1>2
<1>5. ASSUME NEW p \in 1 .. m, p - 1 \in P PROVE p \in P
  <2>1. p \in 1 .. Len(w[k]) /\ p \in 1 .. Len(v[k]) /\ p \in 0 .. m
    BY <1>3
  <2>2. g[p - 1] = f[p - 1]
    BY <1>5
  <2>3. g[p] = f[p]
    <3>1. f[p] = IF <<k, p>> \in S /\ Survives(w, S, <<k, p>>)
                 THEN f[p - 1] \o Words(w, S, <<k, p>>) ELSE f[p - 1]
      BY <1>1, <2>1
    <3>2. g[p] = IF <<k, p>> \in T /\ Survives(v, T, <<k, p>>)
                 THEN g[p - 1] \o Words(v, T, <<k, p>>) ELSE g[p - 1]
      BY <1>2, <2>1
    <3>3. QED
      BY <2>2, <3>1, <3>2
  <2>4. QED
    BY <2>1, <2>3
<1>6. 0 .. m \subseteq P
  <2> HIDE DEF P
  <2>1. QED
    BY <1>4, <1>5, UpTo
<1>7. QED
  BY <1>6 DEF f, g

(* so it remains what it is when more is written.                          *)
LEMMA OldSurviving ==
  ASSUME NEW w, NEW S, NEW v, NEW T, Continues(w, S, v, T), NEW k \in DOMAIN w,
         NEW m \in Nat, m =< Len(w[k]), \A p \in 1 .. m : <<k, p>> \in S <=> <<k, p>> \in T
  PROVE  \A p \in 0 .. m : Surviving(v, T, k)[p] = Surviving(w, S, k)[p]
<1>1. /\ Scoped(w, S) /\ Scoped(v, T) /\ k \in DOMAIN v /\ m =< Len(v[k])
  <2>1. Scoped(w, S) /\ Scoped(v, T) /\ Len(w) =< Len(v) /\ Len(w[k]) =< Len(v[k])
    BY DEF Continues
  <2>2. k \in DOMAIN v /\ Len(w[k]) \in Nat /\ Len(v[k]) \in Nat
    BY <2>1 DEF Scoped
  <2>3. QED
    BY <2>1, <2>2
<1>2. \A p \in 1 .. m : <<k, p>> \in S =>
            /\ Words(v, T, <<k, p>>) = Words(w, S, <<k, p>>)
            /\ Survives(v, T, <<k, p>>) <=> Survives(w, S, <<k, p>>)
  BY WordsSame, VerdictsSame
<1>3. QED
  BY <1>1, <1>2, SurvivingSame

(* No new segment in a step: no new text of it.                            *)
LEMMA ExpectedSame ==
  ASSUME NEW w, NEW S, NEW v, NEW T, Continues(w, S, v, T), NEW k \in DOMAIN w,
         \A p \in Nat : <<k, p>> \in T => <<k, p>> \in S
  PROVE  Expected(v, T, k) = Expected(w, S, k)
<1> DEFINE m == Len(w[k])
           n == Len(v[k])
           f == Surviving(w, S, k)
           g == Surviving(v, T, k)
<1>1. /\ Scoped(w, S) /\ Scoped(v, T) /\ k \in DOMAIN v /\ S \subseteq T
      /\ m \in Nat /\ n \in Nat /\ m =< n
  <2>1. Scoped(w, S) /\ Scoped(v, T) /\ S \subseteq T /\ Len(w) =< Len(v) /\ m =< n
    BY DEF Continues
  <2>2. w \in Seq(Seq(Unit)) /\ v \in Seq(Seq(Unit))
    BY <2>1 DEF Scoped
  <2> HIDE DEF f, g
  <2>3. k \in DOMAIN v
    BY <2>1, <2>2
  <2>4. m \in Nat /\ n \in Nat
    BY <2>2, <2>3
  <2>5. QED
    BY <2>1, <2>3, <2>4
<1>2. \A p \in 1 .. m : <<k, p>> \in S <=> <<k, p>> \in T
  BY <1>1
<1>4. \A p \in 0 .. m : g[p] = f[p]
  <2>1. m =< Len(w[k])
    BY <1>1
  <2>2. QED
    BY <1>1, <1>2, <2>1, OldSurviving
<1>5. \A p \in 1 .. n : g[p] =
              IF <<k, p>> \in T /\ Survives(v, T, <<k, p>>)
              THEN g[p - 1] \o Words(v, T, <<k, p>>) ELSE g[p - 1]
  BY <1>1, SurvivingUnfolds
<1> DEFINE P == {p \in 0 .. n : p >= m => g[p] = f[m]}
<1>6. 0 \in P
  <2> HIDE DEF f, g, m, n
  <2>1. QED
    BY <1>1, <1>4
<1>7. ASSUME NEW p \in 1 .. n, p - 1 \in P PROVE p \in P
  <2>1. SUFFICES ASSUME p >= m PROVE g[p] = f[m]
    OBVIOUS
  <2>2. CASE p = m
    <3> HIDE DEF f, g, m, n
    <3>1. QED
      BY <1>1, <1>4, <2>2
  <2>3. CASE p # m
    <3>1. p - 1 >= m /\ g[p - 1] = f[m]
      <4> HIDE DEF f, g, m, n
      <4>1. QED
        BY <1>1, <1>7, <2>1, <2>3
    <3>2. <<k, p>> \notin T
      <4>1. p \in Nat
        BY <1>1
      <4>2. ASSUME <<k, p>> \in S PROVE FALSE
        <5>1. p \in DOMAIN w[k]
          BY <1>1, <4>2 DEF Scoped
        <5>2. p =< m
          BY <1>1, <5>1 DEF Scoped
        <5> HIDE DEF m, n
        <5>3. QED
          BY <1>1, <2>1, <2>3, <5>2
      <4>3. QED
        BY <4>1, <4>2
    <3>3. QED
      <4> HIDE DEF f, g, m, n
      <4>1. QED
        BY <1>5, <3>1, <3>2
  <2>4. QED
    BY <2>2, <2>3
<1>8. 0 .. n \subseteq P
  <2> HIDE DEF P, f, g, m, n
  <2>1. QED
    BY <1>1, <1>6, <1>7, UpTo
<1>9. n \in P
  <2> HIDE DEF P, f, g, m, n
  <2>1. QED
    BY <1>1, <1>8
<1>10. g[n] = f[m]
  <2> HIDE DEF f, g, m, n
  <2>1. QED
    BY <1>1, <1>9
<1>11. QED
  BY <1>10 DEF Expected

(* A segment that ends what is written of a step: its text, if it survives. *)
Here(w) == <<Len(w), Len(w[Len(w)])>>

(* A segment ends where the text does.                                     *)
EndAdded(w, S, T) == Len(w[Len(w)]) >= 1 /\ Here(w) \notin S /\ T = S \cup {Here(w)}

(* The sanitized text then grows by that segment, if it survives.          *)
LEMMA ExpectedAdds ==
  ASSUME NEW w, NEW S, NEW T, Continues(w, S, w, T), EndAdded(w, S, T)
  PROVE  /\ Expected(w, S, Len(w)) \in Seq(Unit)
         /\ Expected(w, T, Len(w)) = IF Survives(w, T, Here(w))
                                     THEN Expected(w, S, Len(w)) \o Words(w, T, Here(w))
                                     ELSE Expected(w, S, Len(w))
<1> DEFINE k == Len(w)
<1>0. /\ Len(w[k]) >= 1 /\ T = S \cup {<<k, Len(w[k])>>} /\ <<k, Len(w[k])>> \notin S
      /\ Here(w) = <<k, Len(w[k])>>
  BY DEF EndAdded, Here
<1>00. k \in DOMAIN w
  BY DEF Continues, Scoped
<1> HIDE DEF k
<1> DEFINE n == Len(w[k])
           f == Surviving(w, S, k)
           g == Surviving(w, T, k)
<1>1. /\ Scoped(w, S) /\ Scoped(w, T) /\ n \in Nat /\ n >= 1 /\ n - 1 \in Nat
      /\ n - 1 =< n /\ n - 1 \in 0 .. n - 1 /\ n \in 1 .. n
  BY <1>0, <1>00 DEF Continues, Scoped
<1>2. \A p \in 1 .. n - 1 : <<k, p>> \in S <=> <<k, p>> \in T
  <2> HIDE DEF n
  <2>1. \A p \in 1 .. n - 1 : <<k, p>> # <<k, n>>
    BY <1>1
  <2>2. QED
    BY <1>0, <2>1 DEF n
<1>4. \A p \in 0 .. n - 1 : g[p] = f[p]
  <2> DEFINE m == n - 1
  <2>1. m \in Nat /\ m =< Len(w[k]) /\ \A p \in 1 .. m : <<k, p>> \in S <=> <<k, p>> \in T
    BY <1>1, <1>2
  <2> HIDE DEF m
  <2>2. \A p \in 0 .. m : Surviving(w, T, k)[p] = Surviving(w, S, k)[p]
    BY <1>00, <2>1, OldSurviving
  <2>3. QED
    BY <2>2 DEF m
<1>5. g[n] = IF <<k, n>> \in T /\ Survives(w, T, <<k, n>>)
             THEN g[n - 1] \o Words(w, T, <<k, n>>) ELSE g[n - 1]
  BY <1>00, <1>1, SurvivingUnfolds
<1>6. f[n] = IF <<k, n>> \in S /\ Survives(w, S, <<k, n>>)
             THEN f[n - 1] \o Words(w, S, <<k, n>>) ELSE f[n - 1]
  BY <1>00, <1>1, SurvivingUnfolds
<1>7. f[n] = f[n - 1] /\ g[n - 1] = f[n - 1] /\ <<k, n>> \in T
  BY <1>0, <1>1, <1>4, <1>6
<1>8. f[n] \in Seq(Unit)
  <2>1. n \in 0 .. n
    BY <1>1
  <2>2. QED
    BY <1>00, <1>1, <2>1, SurvivingUnfolds
<1>9. QED
  <2> HIDE DEF f, g
  <2>1. g[n] = IF Survives(w, T, <<k, n>>) THEN f[n] \o Words(w, T, <<k, n>>) ELSE f[n]
    BY <1>5, <1>7
  <2>2. QED
    BY <1>0, <1>8, <2>1 DEF Expected, f, g, k

-----------------------------------------------------------------------------
(* What the sanitizer's fields say of what was written: whether the first  *)
(* substantial segment came back, which one it is, and what has no end yet. *)
Verdict(w, S, stop, anch) ==
  /\ stop \in BOOLEAN
  /\ stop <=> \E r \in S : Restart(w, S, r)
  /\ \/ anch = <<>> /\ ~\E a \in S : Substantial(w, S, a)
     \/ \E a \in S : FirstSubstantial(w, S, a) /\ anch = Trim(Words(w, S, a))

(* The text behind the last end, which the buffer holds.                   *)
Rest(w, S) == SubSeq(w[Len(w)], EndBefore(S, Len(w), Len(w[Len(w)]) + 1) + 1, Len(w[Len(w)]))

(* The verdict stays while no segment is added.                            *)
LEMMA VerdictKept ==
  ASSUME NEW w, NEW S, NEW v, Continues(w, S, v, S), NEW stop, NEW anch, Verdict(w, S, stop, anch)
  PROVE  Verdict(v, S, stop, anch)
<1>1. /\ \A a \in S : Substantial(v, S, a) <=> Substantial(w, S, a)
      /\ \A a \in S : FirstSubstantial(v, S, a) <=> FirstSubstantial(w, S, a)
      /\ \A a \in S : Restart(v, S, a) <=> Restart(w, S, a)
  BY VerdictsSame
<1>2. \A a \in S : Words(v, S, a) = Words(w, S, a)
  BY WordsSame
<1>3. QED
  BY <1>1, <1>2 DEF Verdict

(* One unit more.                                                          *)
LongerBy(w, u, v) == v = [w EXCEPT ![Len(w)] = Append(w[Len(w)], u)]

(* It belongs to the rest.                                                 *)
LEMMA Grow ==
  ASSUME NEW w, NEW S, Scoped(w, S), NEW u \in Unit, NEW v, LongerBy(w, u, v)
  PROVE  /\ Continues(w, S, v, S) /\ Scoped(v, S) /\ Len(v) = Len(w)
         /\ v[Len(v)] = Append(w[Len(w)], u)
         /\ Rest(w, S) \in Seq(Unit) /\ Rest(v, S) = Append(Rest(w, S), u)
<1> DEFINE K == Len(w)
           t == w[K]
           n == Len(t)
           x == Append(t, u)
<1>1. /\ w \in Seq(Seq(Unit)) /\ K \in Nat /\ K \in DOMAIN w /\ t \in Seq(Unit) /\ n \in Nat
      /\ x \in Seq(Unit) /\ Len(x) = n + 1 /\ x[n + 1] = u /\ \A i \in 1 .. n : x[i] = t[i]
  BY DEF Scoped
<1>2. /\ v \in Seq(Seq(Unit)) /\ Len(v) = K /\ v[K] = x /\ DOMAIN v = DOMAIN w
      /\ \A k \in DOMAIN w : k # K => v[k] = w[k]
  <2> HIDE DEF x
  <2>1. v = [w EXCEPT ![K] = x]
    BY DEF x, LongerBy
  <2>2. QED
    BY <1>1, <2>1
<1>3. ASSUME NEW k \in DOMAIN w
      PROVE Len(w[k]) =< Len(v[k]) /\ \A i \in 1 .. Len(w[k]) : v[k][i] = w[k][i]
  <2>1. CASE k = K
    <3> HIDE DEF x
    <3>1. QED
      BY <1>1, <1>2, <2>1
  <2>2. CASE k # K
    <3>1. v[k] = w[k] /\ Len(w[k]) \in Nat
      BY <1>1, <1>2, <2>2
    <3>2. QED
      BY <3>1
  <2>3. QED
    BY <2>1, <2>2
<1>4. ASSUME NEW a \in S PROVE a[1] \in DOMAIN v /\ a[2] \in DOMAIN v[a[1]]
  <2>1. a[1] \in DOMAIN w /\ a[2] \in DOMAIN w[a[1]]
    BY DEF Scoped
  <2>2. Len(w[a[1]]) =< Len(v[a[1]]) /\ w[a[1]] \in Seq(Unit) /\ v[a[1]] \in Seq(Unit)
    BY <1>1, <1>2, <1>3, <2>1
  <2>3. QED
    BY <1>2, <2>1, <2>2
<1>5. Scoped(v, S)
  BY <1>2, <1>4 DEF Scoped
<1>6. Continues(w, S, v, S)
  BY <1>1, <1>2, <1>3, <1>5 DEF Continues
<1>7. <<K, n + 1>> \notin S
  <2>1. SUFFICES ASSUME <<K, n + 1>> \in S PROVE FALSE
    OBVIOUS
  <2>2. n + 1 \in DOMAIN t
    BY <2>1 DEF Scoped
  <2>3. QED
    BY <1>1, <2>2
<1> DEFINE e == EndBefore(S, K, n + 1)
           f == EndBefore(S, K, n + 2)
<1>8. e = f
  <2>1. \A i \in n + 1 .. (n + 2) - 1 : <<K, i>> \notin S
    BY <1>1, <1>7
  <2>2. n + 1 \in Nat /\ n + 2 \in Nat /\ n + 1 =< n + 2
    BY <1>1
  <2> HIDE DEF K, n
  <2>3. QED
    BY <2>1, <2>2, EndBeforeSame
<1>9. e \in 0 .. n
  <2>1. n + 1 \in Nat /\ n + 1 >= 1 /\ (n + 1) - 1 = n
    BY <1>1
  <2> HIDE DEF K, n
  <2>2. e \in 0 .. (n + 1) - 1
    BY <2>1, EndBeforeIn
  <2>3. QED
    BY <2>1, <2>2
<1>10. Rest(w, S) = SubSeq(t, e + 1, n)
  BY DEF Rest
<1>11. Rest(v, S) = SubSeq(x, e + 1, n + 1)
  <2>1. Rest(v, S) = SubSeq(x, EndBefore(S, K, Len(x) + 1) + 1, Len(x))
    BY <1>2 DEF Rest
  <2>2. Len(x) + 1 = n + 2
    BY <1>1
  <2>3. QED
    <3> HIDE DEF x, n, K
    <3>1. QED
      BY <1>1, <1>8, <2>1, <2>2
<1>12. SubSeq(t, e + 1, n) \in Seq(Unit) /\ SubSeq(x, e + 1, n + 1) = Append(SubSeq(t, e + 1, n), u)
  <2> HIDE DEF e, n, t, x
  <2>0. n = Len(t)
    BY DEF n
  <2> DEFINE y == SubSeq(t, e + 1, n)
             z == SubSeq(x, e + 1, n + 1)
             d == n - e
  <2>01. d \in Nat /\ n + 1 - e = d + 1 /\ e \in Nat /\ e + d = n
    BY <1>1, <1>9
  <2>1. y \in Seq(Unit) /\ Len(y) = d /\ \A i \in 1 .. d : y[i] = t[e + i]
    BY <1>1, <1>9, <2>0
  <2>2. z \in Seq(Unit) /\ Len(z) = n + 1 - e /\ \A i \in 1 .. n + 1 - e : z[i] = x[e + i]
    BY <1>1, <1>9
  <2>3. z = Append(y, u)
    <3> HIDE DEF y, z, d
    <3>1. Append(y, u) \in Seq(Unit) /\ Len(Append(y, u)) = d + 1
      BY <2>01, <2>1
    <3>2. Len(z) = d + 1 /\ \A i \in 1 .. d + 1 : z[i] = x[e + i]
      BY <2>01, <2>2
    <3>3. ASSUME NEW i \in 1 .. d + 1 PROVE z[i] = Append(y, u)[i]
      <4>1. CASE i = d + 1
        <5>1. z[i] = x[e + i] /\ e + i = n + 1
          BY <2>01, <3>2, <4>1
        <5>2. Append(y, u)[i] = u
          BY <2>01, <2>1, <4>1
        <5>3. QED
          BY <1>1, <5>1, <5>2
      <4>2. CASE i # d + 1
        <5>1. i \in 1 .. d /\ e + i \in 1 .. n
          BY <2>01, <4>2
        <5>2. Append(y, u)[i] = y[i]
          BY <2>01, <2>1, <5>1
        <5>3. QED
          BY <1>1, <2>1, <3>2, <5>1, <5>2
      <4>3. QED
        BY <4>1, <4>2
    <3>4. QED
      BY <2>2, <3>1, <3>2, <3>3
  <2>4. QED
    BY <2>1, <2>3 DEF y, z
<1>13. QED
  BY <1>2, <1>5, <1>6, <1>10, <1>11, <1>12

(* A segment ends at the end of what is written.                           *)
LEMMA AddContinues ==
  ASSUME NEW w, NEW S, Scoped(w, S),
         NEW T, EndAdded(w, S, T)
  PROVE  /\ Continues(w, S, w, T)
         /\ \A a \in S : Before(a, Here(w))
         /\ Rest(w, S) \in Seq(Unit) /\ Words(w, T, Here(w)) = Rest(w, S)
         /\ Rest(w, T) = <<>>
<1> DEFINE K == Len(w)
           t == w[K]
           n == Len(t)
           new == <<K, n>>
<1>0. n >= 1 /\ new \notin S /\ T = S \cup {new} /\ Here(w) = new
  BY DEF EndAdded, Here
<1>1. /\ w \in Seq(Seq(Unit)) /\ K \in Nat /\ K \in DOMAIN w /\ t \in Seq(Unit)
      /\ n \in Nat /\ n >= 1 /\ n \in DOMAIN t /\ S \subseteq Nat \X Nat
  BY <1>0 DEF Scoped
<1>2. new \in Nat \X Nat /\ new[1] = K /\ new[2] = n
  <2> HIDE DEF K, n
  <2>1. QED
    BY <1>1
<1>3. Scoped(w, T)
  BY <1>0, <1>1, <1>2 DEF Scoped
<1>4. ASSUME NEW a \in S PROVE Before(a, new)
  <2>0. a # new
    BY <1>0
  <2>1. /\ a \in Nat \X Nat /\ a[1] \in DOMAIN w /\ a[2] \in DOMAIN w[a[1]] /\ a # new
        /\ a = <<a[1], a[2]>>
    <3> HIDE DEF new
    <3>1. a \in Nat \X Nat /\ a[1] \in DOMAIN w /\ a[2] \in DOMAIN w[a[1]]
      BY DEF Scoped
    <3>2. a = <<a[1], a[2]>>
      BY <3>1
    <3>3. QED
      BY <2>0, <3>1, <3>2
  <2>2. CASE a[1] = K
    <3>1. a[2] \in DOMAIN t
      BY <2>1, <2>2
    <3>2. a[2] =< n /\ a[2] # n
      <4>1. a[2] # n
        <5> HIDE DEF K, n
        <5>1. QED
          BY <2>1, <2>2
      <4>2. QED
        BY <1>1, <3>1, <4>1
    <3> HIDE DEF K, n, new
    <3>3. QED
      BY <1>1, <1>2, <2>1, <2>2, <3>2 DEF Before
  <2>3. CASE a[1] # K
    <3>1. a[1] < K
      BY <1>1, <2>1, <2>3
    <3> HIDE DEF K, n, new
    <3>2. QED
      BY <1>2, <3>1 DEF Before
  <2>4. QED
    BY <2>2, <2>3
<1>5. Continues(w, S, w, T)
  <2>1. \A a \in S, b \in T \ S : Before(a, b)
    BY <1>0, <1>4
  <2>2. \A k \in DOMAIN w : Len(w[k]) \in Nat
    BY <1>1
  <2>3. QED
    BY <1>0, <1>1, <1>3, <2>1, <2>2 DEF Continues
<1> DEFINE e == EndBefore(S, K, n + 1)
<1>6. EndBefore(T, K, n) = e
  <2>1. \A i \in 1 .. n - 1 : <<K, i>> \in T <=> <<K, i>> \in S
    <3> HIDE DEF K, n
    <3>1. \A i \in 1 .. n - 1 : <<K, i>> # <<K, n>>
      BY <1>1
    <3>2. QED
      BY <1>0, <3>1
  <2>2. \A i \in n .. (n + 1) - 1 : <<K, i>> \notin S
    <3>1. <<K, n>> \notin S
      BY <1>0
    <3> HIDE DEF K, n
    <3>2. \A i \in n .. (n + 1) - 1 : i = n
      BY <1>1
    <3>3. QED
      BY <3>1, <3>2
  <2>3. {i \in 1 .. n - 1 : <<K, i>> \in T} = {i \in 1 .. (n + 1) - 1 : <<K, i>> \in S}
    <3> HIDE DEF K, n
    <3>1. QED
      BY <1>1, <2>1, <2>2
  <2>4. QED
    BY <2>3 DEF EndBefore
<1>7. e \in 0 .. n
  <2>1. n + 1 \in Nat /\ n + 1 >= 1 /\ (n + 1) - 1 = n
    BY <1>1
  <2> HIDE DEF K, n
  <2>2. e \in 0 .. (n + 1) - 1
    BY <2>1, EndBeforeIn
  <2>3. QED
    BY <2>1, <2>2
<1>8. EndBefore(T, K, n + 1) = n
  <2>1. n + 1 \in Nat /\ n + 1 >= 1 /\ (n + 1) - 1 = n /\ <<K, n>> \in T
    BY <1>0, <1>1
  <2> HIDE DEF K, n
  <2>2. /\ EndBefore(T, K, n + 1) \in 0 .. (n + 1) - 1
        /\ \A i \in EndBefore(T, K, n + 1) + 1 .. (n + 1) - 1 : <<K, i>> \notin T
    BY <2>1, EndBeforeIn
  <2> DEFINE m == EndBefore(T, K, n + 1)
  <2>3. m \in 0 .. n /\ \A i \in m + 1 .. n : <<K, i>> \notin T
    BY <2>1, <2>2
  <2> HIDE DEF m
  <2>4. m = n
    BY <1>1, <2>1, <2>3
  <2>5. QED
    BY <2>4 DEF m
<1>9. SubSeq(t, e + 1, n) \in Seq(Unit) /\ SubSeq(t, n + 1, n) = <<>>
  <2>0. n = Len(t)
    OBVIOUS
  <2> HIDE DEF K, t, n, e
  <2>1. QED
    BY <1>1, <1>7, <2>0
<1>10. Words(w, T, Here(w)) = SubSeq(t, e + 1, n)
  <2>1. Here(w) = new
    BY <1>0
  <2>2. Words(w, T, new) = SubSeq(w[K], EndBefore(T, K, n) + 1, n)
    <3> HIDE DEF K, n
    <3>1. QED
      BY <1>2 DEF Words
  <2>3. QED
    BY <1>6, <2>1, <2>2
<1>11. Rest(w, T) = SubSeq(t, n + 1, n) /\ Rest(w, S) = SubSeq(t, e + 1, n)
  BY <1>8 DEF Rest
<1>12. QED
  BY <1>0, <1>4, <1>5, <1>9, <1>10, <1>11

(* Joining texts is associative.                                           *)
LEMMA Associative ==
  ASSUME NEW x \in Seq(Unit), NEW y \in Seq(Unit), NEW z \in Seq(Unit)
  PROVE  (x \o y) \o z = x \o (y \o z)
  OBVIOUS

(* The verdict on a new segment when none has come back yet: the sanitizer *)
(* and the definition agree.                                               *)
LEMMA NewVerdict ==
  ASSUME NEW w, NEW S, NEW T, Continues(w, S, w, T), NEW new, new \notin S,
         T = S \cup {new}, \A a \in S : Before(a, new),
         NEW s \in Pushes, ~s.stopped, Verdict(w, S, FALSE, s.anchor)
  PROVE  /\ Restart(w, T, new) <=> Restarts(s, Words(w, T, new))
         /\ Verdict(w, T, Restarts(s, Words(w, T, new)),
                    IF Restarts(s, Words(w, T, new)) THEN s.anchor
                    ELSE Anchored(s, Words(w, T, new)))
         /\ Survives(w, T, new) <=>
              ~IsLeak(Words(w, T, new)) /\ ~Restarts(s, Words(w, T, new))
<1> DEFINE g == Words(w, T, new)
           norm == Trim(StripMachineryLeak(g))
           long == Len(norm) >= AnchorMinLen
<1>1. /\ Scoped(w, T) /\ new \in T /\ g \in Seq(Unit) /\ S \subseteq T
      /\ T \subseteq Nat \X Nat
  <2>1. Scoped(w, T) /\ new \in T
    BY DEF Continues
  <2>2. QED
    BY <2>1, WordsTyped DEF Scoped
<1>2. AnchorMinLen \in Nat /\ AnchorMinLen >= 1
  BY SizesAssumption
<1>3. Len(Trim(<<>>)) = 0
  <2>1. Trim(<<>>) = <<>>
    <3> DEFINE e == <<>>
    <3>1. e \in Seq(Unit) /\ e = <<>>
      OBVIOUS
    <3> HIDE DEF e
    <3>2. Trim(e) = <<>>
      BY <3>1, Trimmed
    <3>3. QED
      BY <3>1, <3>2
  <2>2. QED
    BY <2>1
<1>4. Substantial(w, T, new) <=> long
  <2>1. CASE IsLeak(g)
    <3>1. norm = Trim(<<>>)
      BY <2>1 DEF StripMachineryLeak
    <3>2. ~long
      BY <1>2, <1>3, <3>1
    <3>3. QED
      BY <2>1, <3>2 DEF Substantial
  <2>2. CASE ~IsLeak(g)
    BY <2>2 DEF Substantial, StripMachineryLeak
  <2>3. QED
    BY <2>1, <2>2
<1>5. ASSUME long PROVE ~IsLeak(g) /\ norm = Trim(g) /\ norm # <<>>
  <2>1. ~IsLeak(g)
    BY <1>4, <1>5 DEF Substantial
  <2>2. norm = Trim(g)
    BY <2>1 DEF StripMachineryLeak
  <2>3. norm # <<>>
    <3>1. Len(<<>>) = 0
      OBVIOUS
    <3> HIDE DEF norm
    <3>2. QED
      BY <1>2, <1>5, <3>1
  <2>4. QED
    BY <2>1, <2>2, <2>3
<1>6. /\ \A a \in S : Words(w, T, a) = Words(w, S, a)
      /\ \A a \in S : Substantial(w, T, a) <=> Substantial(w, S, a)
      /\ \A a \in S : FirstSubstantial(w, T, a) <=> FirstSubstantial(w, S, a)
      /\ \A a \in S : Restart(w, T, a) <=> Restart(w, S, a)
  BY WordsSame, VerdictsSame
<1>7. \A r \in S : ~Restart(w, T, r)
  BY <1>6 DEF Verdict
<1>8. Restarts(s, g) <=> long /\ norm = s.anchor
  BY DEF Restarts
<1>9. ~Before(new, new)
  BY <1>1, Order
<1> HIDE DEF g, norm, long
<1>10. CASE s.anchor = <<>> /\ ~\E a \in S : Substantial(w, S, a)
  <2>1. ~Restarts(s, g)
    BY <1>5, <1>8, <1>10
  <2>2. ~Restart(w, T, new)
    <3>1. SUFFICES ASSUME Restart(w, T, new) PROVE FALSE
      OBVIOUS
    <3>2. PICK a \in T : FirstSubstantial(w, T, a) /\ Before(a, new)
      BY <3>1 DEF Restart
    <3>3. a \in S
      BY <1>9, <3>2
    <3>4. QED
      BY <1>6, <1>10, <3>2, <3>3 DEF FirstSubstantial
  <2>20. Survives(w, T, new) <=> ~IsLeak(g)
    BY <1>1, <1>7, <2>2 DEF Survives, g
  <2>21. Restarts(s, g) = FALSE
    BY <2>1 DEF Restarts
  <2>22. ~\E r \in T : Restart(w, T, r)
    BY <1>7, <2>2
  <2>3. Anchored(s, g) = IF long THEN norm ELSE <<>>
    BY <1>10 DEF Anchored, long, norm
  <2>4. CASE long
    <3>1. FirstSubstantial(w, T, new)
      <4>1. ASSUME NEW b \in T, Before(b, new), Substantial(w, T, b) PROVE FALSE
        <5>1. b \in S
          BY <1>9, <4>1
        <5>2. QED
          BY <1>6, <1>10, <4>1, <5>1
      <4>2. QED
        BY <1>1, <1>4, <2>4, <4>1 DEF FirstSubstantial
    <3>2. Anchored(s, g) = Trim(Words(w, T, new))
      BY <1>5, <2>3, <2>4 DEF g
    <3>3. QED
      <4>1. Verdict(w, T, FALSE, Anchored(s, g))
        BY <1>1, <2>22, <3>1, <3>2 DEF Verdict
      <4>2. QED
        BY <2>2, <2>20, <2>21, <4>1 DEF g
  <2>5. CASE ~long
    <3>1. \A a \in T : ~Substantial(w, T, a)
      BY <1>4, <1>6, <1>10, <2>5
    <3>2. Anchored(s, g) = <<>>
      BY <2>3, <2>5
    <3>3. QED
      <4>1. Verdict(w, T, FALSE, Anchored(s, g))
        BY <1>1, <2>22, <3>1, <3>2 DEF Verdict
      <4>2. QED
        BY <2>2, <2>20, <2>21, <4>1 DEF g
  <2>6. QED
    BY <2>4, <2>5
<1>11. CASE \E a \in S : FirstSubstantial(w, S, a) /\ s.anchor = Trim(Words(w, S, a))
  <2>1. PICK a \in S : FirstSubstantial(w, S, a) /\ s.anchor = Trim(Words(w, S, a))
    BY <1>11
  <2>2. FirstSubstantial(w, T, a) /\ s.anchor = Trim(Words(w, T, a)) /\ Before(a, new) /\ a \in T
    BY <1>1, <1>6, <2>1
  <2>3. s.anchor # <<>>
    <3>1. Len(s.anchor) >= AnchorMinLen
      BY <2>2 DEF FirstSubstantial, Substantial
    <3>2. Len(<<>>) = 0
      OBVIOUS
    <3>3. QED
      BY <1>2, <3>1, <3>2
  <2>4. ASSUME NEW b \in T, FirstSubstantial(w, T, b) PROVE b = a
    <3>1. Before(a, b) \/ Before(b, a) \/ a = b
      BY <1>1, <2>2, Order
    <3>2. QED
      BY <2>2, <2>4, <3>1 DEF FirstSubstantial
  <2>5. Restart(w, T, new) <=> long /\ Trim(Words(w, T, a)) = Trim(g)
    BY <1>4, <2>2, <2>4 DEF Restart, g
  <2>6. Restart(w, T, new) <=> Restarts(s, g)
    BY <1>5, <1>8, <2>2, <2>5
  <2>7. Anchored(s, g) = s.anchor
    BY <2>3 DEF Anchored
  <2>8. Restarts(s, g) \in BOOLEAN
    BY DEF Restarts
  <2>9. Verdict(w, T, Restarts(s, g), s.anchor)
    BY <1>1, <1>7, <2>2, <2>6, <2>8 DEF Verdict
  <2>10. Survives(w, T, new) <=> ~IsLeak(g) /\ ~Restarts(s, g)
    BY <1>1, <1>7, <2>6 DEF Survives, g
  <2>11. QED
    BY <2>6, <2>7, <2>9, <2>10 DEF g
<1>12. QED
  BY <1>10, <1>11 DEF Verdict

(* What is left of the last step is base and what was put out behind it.   *)
Streams(w, S, base, out) == Expected(w, S, Len(w)) = base \o out

(* A segment is consumed: what it adds to the output is what it adds to    *)
(* the sanitized text.                                                     *)
LEMMA Add ==
  ASSUME NEW w, NEW S, Scoped(w, S), NEW T, EndAdded(w, S, T),
         NEW s \in Pushes, ~s.stopped, Verdict(w, S, FALSE, s.anchor),
         NEW base \in Seq(Unit), Streams(w, S, base, s.out)
  PROVE  /\ Consume(s, Rest(w, S)) \in Pushes /\ Consume(s, Rest(w, S)).buffer = <<>>
         /\ Verdict(w, T, Consume(s, Rest(w, S)).stopped, Consume(s, Rest(w, S)).anchor)
         /\ Streams(w, T, base, Consume(s, Rest(w, S)).out)
<1> DEFINE c == Consume(s, Rest(w, S))
           K == Len(w)
           new == Here(w)
           g == Rest(w, S)
<1>0. Expected(w, S, K) = base \o s.out
  BY DEF Streams
<1>1. /\ Continues(w, S, w, T) /\ \A a \in S : Before(a, new)
      /\ g \in Seq(Unit) /\ Words(w, T, new) = g
  BY AddContinues
<1>2. K \in DOMAIN w /\ new \notin S /\ T = S \cup {new}
  BY DEF Scoped, EndAdded
<1>3. /\ Expected(w, S, K) \in Seq(Unit)
      /\ Expected(w, T, K) = IF Survives(w, T, new) THEN Expected(w, S, K) \o Words(w, T, new)
                             ELSE Expected(w, S, K)
  BY <1>1, ExpectedAdds
<1>4. /\ c \in Pushes /\ c.buffer = <<>> /\ c.stopped = (s.stopped \/ Restarts(s, g))
      /\ c.out = IF Restarts(s, g) THEN s.out ELSE s.out \o StripMachineryLeak(g)
      /\ c.anchor = IF Restarts(s, g) THEN s.anchor ELSE Anchored(s, g)
  BY <1>1, Consumed
<1> HIDE DEF new, g, c
<1>5. /\ Verdict(w, T, Restarts(s, g), IF Restarts(s, g) THEN s.anchor ELSE Anchored(s, g))
      /\ Survives(w, T, new) <=> ~IsLeak(g) /\ ~Restarts(s, g)
  BY <1>1, <1>2, NewVerdict
<1>6. c.stopped = Restarts(s, g)
  <2>1. Restarts(s, g) \in BOOLEAN
    BY DEF Restarts
  <2>2. QED
    BY <1>4, <2>1
<1>7. Verdict(w, T, c.stopped, c.anchor)
  BY <1>4, <1>5, <1>6
<1>8. s.out \in Seq(Unit) /\ s.out \o <<>> = s.out
  <2> DEFINE o == s.out
  <2>1. o \in Seq(Unit)
    BY DEF Pushes
  <2> HIDE DEF o
  <2>2. o \o <<>> = o
    BY <2>1
  <2>3. QED
    BY <2>1, <2>2 DEF o
<1>9. Expected(w, T, K) = base \o c.out
  <2>1. CASE Restarts(s, g)
    BY <1>0, <1>3, <1>4, <1>5, <2>1
  <2>2. CASE ~Restarts(s, g) /\ IsLeak(g)
    <3>1. c.out = s.out \o <<>>
      BY <1>4, <2>2 DEF StripMachineryLeak
    <3>2. QED
      BY <1>0, <1>3, <1>5, <1>8, <2>2, <3>1
  <2>3. CASE ~Restarts(s, g) /\ ~IsLeak(g)
    <3>1. c.out = s.out \o g
      BY <1>4, <2>3 DEF StripMachineryLeak
    <3>2. Expected(w, T, K) = (base \o s.out) \o g
      BY <1>0, <1>1, <1>3, <1>5, <2>3
    <3> DEFINE o == s.out
    <3>3. o \in Seq(Unit)
      BY <1>8
    <3> HIDE DEF o
    <3>4. (base \o o) \o g = base \o (o \o g)
      BY <1>1, <3>3, Associative
    <3>5. QED
      BY <3>1, <3>2, <3>4 DEF o
  <2>4. QED
    BY <2>1, <2>2, <2>3
<1>10. QED
  BY <1>4, <1>7, <1>9 DEF c, Streams

(* The other steps are not concerned.                                      *)
LEMMA AddOthers ==
  ASSUME NEW w, NEW S, Scoped(w, S), NEW T, EndAdded(w, S, T), NEW k \in DOMAIN w, k # Len(w)
  PROVE  Expected(w, T, k) = Expected(w, S, k)
<1>1. Continues(w, S, w, T)
  BY AddContinues
<1>2. \A p \in Nat : <<k, p>> \in T => <<k, p>> \in S
  BY DEF EndAdded, Here
<1>3. QED
  BY <1>1, <1>2, ExpectedSame

(* Behind a restart nothing survives.                                      *)
LEMMA AddStopped ==
  ASSUME NEW w, NEW S, Scoped(w, S), NEW T, EndAdded(w, S, T),
         NEW anch, Verdict(w, S, TRUE, anch)
  PROVE  /\ Verdict(w, T, TRUE, anch)
         /\ Expected(w, T, Len(w)) = Expected(w, S, Len(w))
<1> DEFINE K == Len(w)
           new == Here(w)
<1>1. Continues(w, S, w, T) /\ \A a \in S : Before(a, new)
  BY AddContinues
<1>2. K \in DOMAIN w /\ new \notin S /\ T = S \cup {new} /\ S \subseteq T
  BY DEF Scoped, EndAdded
<1>3. /\ Expected(w, S, K) \in Seq(Unit)
      /\ Expected(w, T, K) = IF Survives(w, T, new) THEN Expected(w, S, K) \o Words(w, T, new)
                             ELSE Expected(w, S, K)
  BY <1>1, ExpectedAdds
<1> HIDE DEF new
<1>4. /\ \A a \in S : Words(w, T, a) = Words(w, S, a)
      /\ \A a \in S : FirstSubstantial(w, T, a) <=> FirstSubstantial(w, S, a)
      /\ \A a \in S : Restart(w, T, a) <=> Restart(w, S, a)
  BY <1>1, WordsSame, VerdictsSame
<1>5. PICK r \in S : Restart(w, S, r)
  BY DEF Verdict
<1>6. Restart(w, T, r) /\ Before(r, new) /\ r \in T
  BY <1>1, <1>2, <1>4, <1>5
<1>7. ~Survives(w, T, new)
  BY <1>6 DEF Survives
<1>8. \E a \in S : FirstSubstantial(w, S, a) /\ anch = Trim(Words(w, S, a))
  BY <1>5 DEF Verdict, Restart
<1>9. \E a \in T : FirstSubstantial(w, T, a) /\ anch = Trim(Words(w, T, a))
  BY <1>2, <1>4, <1>8
<1>10. Verdict(w, T, TRUE, anch)
  BY <1>6, <1>9 DEF Verdict
<1>11. QED
  BY <1>3, <1>7, <1>10

-----------------------------------------------------------------------------
(* The sanitizer follows what is written, unit by unit.                    *)
Tracks(w, S, s) ==
  /\ Scoped(w, S) /\ s \in Pushes
  /\ Verdict(w, S, s.stopped, s.anchor)
  /\ s.buffer = IF s.stopped THEN <<>> ELSE Rest(w, S)

(* Nothing is held where a segment has just ended, and only there.         *)
LEMMA RestEmpty ==
  ASSUME NEW w, NEW S, Scoped(w, S)
  PROVE  Rest(w, S) = <<>> <=> Len(w[Len(w)]) = 0 \/ Here(w) \in S
<1> DEFINE K == Len(w)
           t == w[K]
           n == Len(t)
           e == EndBefore(S, K, n + 1)
<1>1. t \in Seq(Unit) /\ n \in Nat /\ n + 1 \in Nat /\ n + 1 >= 1 /\ (n + 1) - 1 = n
  BY DEF Scoped
<1>2. e \in 0 .. n /\ (\A i \in e + 1 .. n : <<K, i>> \notin S) /\ (e = 0 \/ <<K, e>> \in S)
  <2> HIDE DEF K, n
  <2>1. /\ e \in 0 .. (n + 1) - 1 /\ (\A i \in e + 1 .. (n + 1) - 1 : <<K, i>> \notin S)
        /\ (e = 0 \/ <<K, e>> \in S)
    BY <1>1, EndBeforeIn
  <2> HIDE DEF e
  <2>2. QED
    BY <1>1, <2>1
<1>3. Rest(w, S) = SubSeq(t, e + 1, n)
  BY DEF Rest
<1>4. SubSeq(t, e + 1, n) = <<>> <=> e = n
  <2>0. n = Len(t)
    OBVIOUS
  <2> HIDE DEF K, t, n, e
  <2>1. CASE e = n
    BY <1>1, <1>2, <2>0, <2>1
  <2>2. CASE e # n
    <3>0. e \in 0 .. n - 1
      BY <1>1, <1>2, <2>2
    <3>1. Len(SubSeq(t, e + 1, n)) = n - e
      BY <1>1, <2>0, <3>0
    <3>11. Len(SubSeq(t, e + 1, n)) # 0
      BY <1>1, <1>2, <2>2, <3>1
    <3>2. Len(<<>>) = 0
      OBVIOUS
    <3>3. QED
      BY <2>2, <3>11, <3>2
  <2>3. QED
    BY <2>1, <2>2
<1>5. e = n <=> n = 0 \/ <<K, n>> \in S
  <2> HIDE DEF K, n, e
  <2>1. QED
    BY <1>1, <1>2
<1>6. Here(w) = <<K, n>>
  BY DEF Here
<1>7. QED
  BY <1>3, <1>4, <1>5, <1>6

(* The segments behind a unit.                                             *)
EndsMarked(S, u, v, T) == T = IF u \in Ends THEN S \cup {Here(v)} ELSE S

(* A unit: the sanitizer goes on to track what was written.                *)
LEMMA FeedTracks ==
  ASSUME NEW w, NEW S, NEW s, Tracks(w, S, s), NEW u \in Unit,
         NEW base \in Seq(Unit), Streams(w, S, base, s.out),
         NEW v, LongerBy(w, u, v), NEW T, EndsMarked(S, u, v, T)
  PROVE  /\ Tracks(v, T, Feed(s, u)) /\ Len(v) = Len(w)
         /\ Streams(v, T, base, Feed(s, u).out)
         /\ \A k \in DOMAIN w : k # Len(w) => Expected(v, T, k) = Expected(w, S, k)
<1>1. Scoped(w, S) /\ s \in Pushes /\ Verdict(w, S, s.stopped, s.anchor)
  BY DEF Tracks
<1>2. /\ Continues(w, S, v, S) /\ Scoped(v, S) /\ Len(v) = Len(w)
      /\ v[Len(v)] = Append(w[Len(w)], u)
      /\ Rest(w, S) \in Seq(Unit) /\ Rest(v, S) = Append(Rest(w, S), u)
  BY <1>1, Grow
<1>3. Verdict(v, S, s.stopped, s.anchor)
  BY <1>1, <1>2, VerdictKept
<1>4. \A k \in DOMAIN w : Expected(v, S, k) = Expected(w, S, k)
  BY <1>2, ExpectedSame
<1>5. /\ Len(w) \in DOMAIN w /\ w[Len(w)] \in Seq(Unit) /\ Len(w[Len(w)]) \in Nat
      /\ Len(v[Len(v)]) = Len(w[Len(w)]) + 1 /\ DOMAIN v = DOMAIN w
  BY <1>1, <1>2 DEF Scoped
<1>6. Streams(v, S, base, s.out)
  BY <1>2, <1>4, <1>5 DEF Streams
<1>7. Here(v) \notin S
  <2> DEFINE n == Len(w[Len(w)])
  <2>1. Here(v) = <<Len(w), n + 1>>
    BY <1>2, <1>5 DEF Here
  <2>2. SUFFICES ASSUME <<Len(w), n + 1>> \in S PROVE FALSE
    BY <2>1
  <2>3. n + 1 \in DOMAIN w[Len(w)]
    BY <1>1, <2>2 DEF Scoped
  <2>4. QED
    BY <1>5, <2>3
<1>8. u \in Ends => EndAdded(v, S, T)
  BY <1>5, <1>7 DEF EndAdded, EndsMarked
<1>9. ASSUME u \in Ends, NEW k \in DOMAIN w, k # Len(w)
      PROVE  Expected(v, T, k) = Expected(w, S, k)
  <2>1. Expected(v, T, k) = Expected(v, S, k)
    BY <1>2, <1>5, <1>8, <1>9, AddOthers
  <2>2. QED
    BY <1>4, <2>1
<1>10. CASE s.stopped
  <2>1. Feed(s, u) = s /\ s.stopped = TRUE /\ s.buffer = <<>>
    BY <1>1, <1>10 DEF Feed, Tracks, Pushes
  <2>2. CASE u \in Ends
    <3>1. Verdict(v, S, TRUE, s.anchor)
      BY <1>3, <2>1
    <3>2. Verdict(v, T, TRUE, s.anchor) /\ Expected(v, T, Len(v)) = Expected(v, S, Len(v))
      BY <1>2, <1>8, <2>2, <3>1, AddStopped
    <3>3. Scoped(v, T)
      BY <1>2, <1>8, <2>2, AddContinues DEF Continues
    <3>4. Tracks(v, T, s)
      BY <1>1, <2>1, <3>2, <3>3 DEF Tracks
    <3>5. QED
      BY <1>2, <1>6, <1>9, <2>1, <2>2, <3>2, <3>4 DEF Streams
  <2>3. CASE u \notin Ends
    <3>1. T = S
      BY <2>3 DEF EndsMarked
    <3>2. Tracks(v, S, s)
      BY <1>1, <1>2, <1>3, <2>1 DEF Tracks
    <3>3. QED
      BY <1>2, <1>4, <1>6, <2>1, <3>1, <3>2
  <2>4. QED
    BY <2>2, <2>3
<1>11. CASE ~s.stopped
  <2>1. s.stopped = FALSE /\ s.buffer = Rest(w, S)
    BY <1>1, <1>11 DEF Tracks, Pushes
  <2>2. CASE u \in Ends
    <3> DEFINE c == Consume(s, Rest(v, S))
    <3>1. Feed(s, u) = c
      BY <1>2, <1>11, <2>1, <2>2 DEF Feed
    <3>2. Verdict(v, S, FALSE, s.anchor)
      BY <1>3, <2>1
    <3>3. /\ Scoped(v, S) /\ EndAdded(v, S, T) /\ s \in Pushes /\ ~s.stopped
          /\ Streams(v, S, base, s.out)
      BY <1>1, <1>2, <1>6, <1>8, <1>11, <2>2
    <3>4. /\ c \in Pushes /\ c.buffer = <<>> /\ Verdict(v, T, c.stopped, c.anchor)
          /\ Streams(v, T, base, c.out)
      BY <3>2, <3>3, Add
    <3> HIDE DEF c
    <3>5. Scoped(v, T) /\ Rest(v, T) = <<>>
      BY <1>2, <1>8, <2>2, AddContinues DEF Continues
    <3>6. Tracks(v, T, c)
      BY <3>4, <3>5 DEF Tracks
    <3>7. QED
      BY <1>2, <1>9, <2>2, <3>1, <3>4, <3>6
  <2>3. CASE u \notin Ends
    <3> DEFINE c == Feed(s, u)
    <3>1. c = [s EXCEPT !.buffer = Append(s.buffer, u)]
      BY <1>11, <2>3 DEF Feed
    <3>2. c.buffer = Append(s.buffer, u) /\ c.stopped = s.stopped /\ c.anchor = s.anchor /\ c.out = s.out
      BY <1>1, <3>1 DEF Pushes
    <3>3. c \in Pushes
      BY <1>1, FeedTyped
    <3> HIDE DEF c
    <3>4. T = S
      BY <2>3 DEF EndsMarked
    <3>5. Tracks(v, S, c)
      BY <1>2, <1>3, <2>1, <3>2, <3>3 DEF Tracks
    <3>6. QED
      BY <1>2, <1>4, <1>6, <3>2, <3>4, <3>5 DEF c
  <2>4. QED
    BY <2>2, <2>3
<1>12. QED
  BY <1>10, <1>11

(* The segments of w: those that end by themselves, and those of c.        *)
Marked(w, c) ==
  {a \in Nat \X Nat : /\ a[1] \in DOMAIN w /\ a[2] \in DOMAIN w[a[1]]
                      /\ w[a[1]][a[2]] \in Ends \/ a \in c}

(* The flushes lie inside the text.                                        *)
Inside(w, c) == \A a \in c : a[1] \in DOMAIN w /\ a[2] =< Len(w[a[1]])

(* Segments lie inside the text.                                           *)
LEMMA MarkedScoped ==
  ASSUME NEW w \in Seq(Seq(Unit)), Len(w) >= 1, NEW c
  PROVE  Scoped(w, Marked(w, c))
  BY DEF Scoped, Marked

(* A unit marks one segment more if it is an end, and none otherwise.      *)
LEMMA MarkedGrows ==
  ASSUME NEW w \in Seq(Seq(Unit)), Len(w) >= 1, NEW c \in SUBSET (Nat \X Nat), Inside(w, c),
         NEW u \in Unit, NEW v, LongerBy(w, u, v)
  PROVE  EndsMarked(Marked(w, c), u, v, Marked(v, c)) /\ Inside(v, c) /\ v \in Seq(Seq(Unit))
<1> DEFINE K == Len(w)
           t == w[K]
           n == Len(t)
           x == Append(t, u)
<1>1. /\ K \in Nat /\ K \in DOMAIN w /\ t \in Seq(Unit) /\ n \in Nat
      /\ x \in Seq(Unit) /\ Len(x) = n + 1 /\ x[n + 1] = u /\ \A i \in 1 .. n : x[i] = t[i]
  OBVIOUS
<1>2. /\ v \in Seq(Seq(Unit)) /\ Len(v) = K /\ v[K] = x /\ DOMAIN v = DOMAIN w
      /\ \A k \in DOMAIN w : k # K => v[k] = w[k]
  <2> HIDE DEF x
  <2>1. v = [w EXCEPT ![K] = x]
    BY DEF x, LongerBy
  <2>2. QED
    BY <1>1, <2>1
<1>3. Here(v) = <<K, n + 1>> /\ Here(v) \in Nat \X Nat /\ Here(v)[1] = K /\ Here(v)[2] = n + 1
  BY <1>1, <1>2 DEF Here
<1>4. Here(v) \notin c
  <2>1. SUFFICES ASSUME Here(v) \in c PROVE FALSE
    OBVIOUS
  <2>2. n + 1 =< Len(w[K])
    BY <1>3, <2>1 DEF Inside
  <2>3. QED
    BY <1>1, <2>2
<1>5. ASSUME NEW a \in Nat \X Nat, a # Here(v) PROVE a \in Marked(v, c) <=> a \in Marked(w, c)
  <2>1. CASE a[1] # K
    BY <1>2, <2>1 DEF Marked
  <2>2. CASE a[1] = K
    <3>1. a = <<K, a[2]>> /\ a[2] \in Nat
      BY <2>2
    <3>2. a[2] # n + 1
      BY <1>3, <1>5, <3>1
    <3> DEFINE p == a[2]
    <3>3. p \in DOMAIN x <=> p \in DOMAIN t
      <4> HIDE DEF x, t, n
      <4>1. DOMAIN x = 1 .. n + 1
        BY <1>1
      <4>2. DOMAIN t = 1 .. n
        BY <1>1 DEF n
      <4>3. QED
        BY <1>1, <3>1, <3>2, <4>1, <4>2
    <3>4. p \in DOMAIN t => x[p] = t[p]
      BY <1>1
    <3>5. v[a[1]] = x /\ w[a[1]] = t
      BY <1>2, <2>2
    <3> HIDE DEF x, t, n
    <3>6. QED
      BY <1>2, <3>3, <3>4, <3>5 DEF Marked
  <2>3. QED
    BY <2>1, <2>2
<1>6. Here(v) \in Marked(v, c) <=> u \in Ends
  <2>1. n + 1 \in DOMAIN x
    BY <1>1
  <2> HIDE DEF x, n
  <2>2. QED
    BY <1>1, <1>2, <1>3, <1>4, <2>1 DEF Marked
<1>7. Here(v) \notin Marked(w, c)
  <2>1. n + 1 \notin DOMAIN t
    BY <1>1
  <2> HIDE DEF x, n
  <2>2. QED
    BY <1>3, <2>1 DEF Marked
<1>8. Marked(v, c) \subseteq Nat \X Nat /\ Marked(w, c) \subseteq Nat \X Nat
  BY DEF Marked
<1>9. EndsMarked(Marked(w, c), u, v, Marked(v, c))
  <2> DEFINE M == Marked(v, c)
             L == Marked(w, c)
             h == Here(v)
  <2>0. h \in Nat \X Nat
    BY <1>3
  <2>1. M \subseteq Nat \X Nat /\ L \subseteq Nat \X Nat
    BY <1>8
  <2>2. \A a \in Nat \X Nat : a # h => (a \in M <=> a \in L)
    BY <1>5
  <2>3. (h \in M <=> u \in Ends) /\ h \notin L
    BY <1>6, <1>7
  <2> HIDE DEF M, L, h
  <2>4. M = IF u \in Ends THEN L \cup {h} ELSE L
    <3>1. \A a : a \in M <=> a \in L \/ (a = h /\ u \in Ends)
      BY <2>0, <2>1, <2>2, <2>3
    <3>2. QED
      BY <3>1
  <2>5. QED
    BY <2>4 DEF M, L, h, EndsMarked
<1>10. Inside(v, c)
  <2>1. ASSUME NEW a \in c PROVE a[1] \in DOMAIN v /\ a[2] =< Len(v[a[1]])
    <3>1. a[1] \in DOMAIN w /\ a[2] =< Len(w[a[1]]) /\ a[2] \in Nat
      BY DEF Inside
    <3>2. Len(w[a[1]]) \in Nat /\ Len(v[a[1]]) \in Nat /\ Len(w[a[1]]) =< Len(v[a[1]])
      <4>1. CASE a[1] = K
        <5>1. w[a[1]] = t /\ v[a[1]] = x
          BY <1>2, <4>1
        <5> HIDE DEF x, t
        <5>2. QED
          BY <1>1, <5>1 DEF n
      <4>2. CASE a[1] # K
        <5>1. v[a[1]] = w[a[1]]
          BY <1>2, <3>1, <4>2
        <5>2. Len(w[a[1]]) \in Nat
          BY <3>1
        <5>3. QED
          BY <5>1, <5>2
      <4>3. QED
        BY <4>1, <4>2
    <3>3. QED
      BY <1>2, <3>1, <3>2
  <2>2. QED
    BY <2>1 DEF Inside
<1>11. QED
  BY <1>2, <1>9, <1>10

(* What is written behind the first i units of a chunk.                    *)
Prefixed(w, chunk, i) == [w EXCEPT ![Len(w)] = w[Len(w)] \o SubSeq(chunk, 1, i)]

(* The text with a chunk, unit by unit.                                    *)
LEMMA PrefixedBy ==
  ASSUME NEW w \in Seq(Seq(Unit)), Len(w) >= 1, NEW n \in Nat, NEW chunk \in [1 .. n -> Unit]
  PROVE  /\ Prefixed(w, chunk, 0) = w
         /\ Prefixed(w, chunk, n) = [w EXCEPT ![Len(w)] = w[Len(w)] \o chunk]
         /\ \A i \in 0 .. n : /\ Prefixed(w, chunk, i) \in Seq(Seq(Unit))
                              /\ Len(Prefixed(w, chunk, i)) = Len(w)
         /\ \A i \in 1 .. n : LongerBy(Prefixed(w, chunk, i - 1), chunk[i], Prefixed(w, chunk, i))
<1> DEFINE K == Len(w)
           t == w[K]
           c(i) == SubSeq(chunk, 1, i)
<1>1. K \in DOMAIN w /\ t \in Seq(Unit) /\ chunk \in Seq(Unit) /\ Len(chunk) = n
  OBVIOUS
<1>2. ASSUME NEW i \in 0 .. n PROVE c(i) \in Seq(Unit) /\ Len(c(i)) = i /\ \A j \in 1 .. i : c(i)[j] = chunk[j]
  BY <1>1
<1>3. c(0) = <<>> /\ c(n) = chunk
  BY <1>1
<1>4. t \o <<>> = t
  BY <1>1
<1>5. Prefixed(w, chunk, 0) = w
  <2>1. Prefixed(w, chunk, 0) = [w EXCEPT ![K] = t]
    BY <1>3, <1>4 DEF Prefixed
  <2>2. QED
    BY <1>1, <2>1
<1>6. Prefixed(w, chunk, n) = [w EXCEPT ![Len(w)] = w[Len(w)] \o chunk]
  BY <1>3 DEF Prefixed
<1>7. ASSUME NEW i \in 0 .. n
      PROVE  /\ Prefixed(w, chunk, i) \in Seq(Seq(Unit)) /\ Len(Prefixed(w, chunk, i)) = K
             /\ Prefixed(w, chunk, i)[K] = t \o c(i)
             /\ Prefixed(w, chunk, i) = [w EXCEPT ![K] = t \o c(i)]
  <2> DEFINE y == t \o c(i)
  <2>1. Prefixed(w, chunk, i) = [w EXCEPT ![K] = y]
    BY DEF Prefixed
  <2>2. y \in Seq(Unit)
    BY <1>1, <1>2
  <2> HIDE DEF y
  <2>3. Prefixed(w, chunk, i) \in Seq(Seq(Unit)) /\ Len(Prefixed(w, chunk, i)) = K /\ Prefixed(w, chunk, i)[K] = y
    BY <1>1, <2>1, <2>2
  <2>4. QED
    BY <2>1, <2>3 DEF y
<1>8. ASSUME NEW i \in 1 .. n
      PROVE  LongerBy(Prefixed(w, chunk, i - 1), chunk[i], Prefixed(w, chunk, i))
  <2>1. i - 1 \in 0 .. n /\ i \in 0 .. n /\ chunk[i] \in Unit
    OBVIOUS
  <2> DEFINE a == c(i - 1)
             b == c(i)
             u == chunk[i]
  <2>2. a \in Seq(Unit) /\ Len(a) = i - 1 /\ \A j \in 1 .. i - 1 : a[j] = chunk[j]
    BY <1>2, <2>1
  <2>3. b \in Seq(Unit) /\ Len(b) = i /\ \A j \in 1 .. i : b[j] = chunk[j]
    BY <1>2, <2>1
  <2>4. b = Append(a, u)
    <3> HIDE DEF a, b
    <3>1. Append(a, u) \in Seq(Unit) /\ Len(Append(a, u)) = i
      BY <2>1, <2>2
    <3>2. ASSUME NEW j \in 1 .. i PROVE b[j] = Append(a, u)[j]
      <4>1. CASE j = i
        BY <2>2, <2>3, <4>1
      <4>2. CASE j # i
        <5>1. j \in 1 .. i - 1
          BY <4>2
        <5>2. QED
          BY <2>1, <2>2, <2>3, <5>1
      <4>3. QED
        BY <4>1, <4>2
    <3>3. QED
      BY <2>3, <3>1, <3>2
  <2> HIDE DEF a, b
  <2>5. t \o b = Append(t \o a, u)
    BY <1>1, <2>1, <2>2, <2>4
  <2>6. /\ Prefixed(w, chunk, i - 1) = [w EXCEPT ![K] = t \o a]
        /\ Prefixed(w, chunk, i) = [w EXCEPT ![K] = t \o b]
        /\ Prefixed(w, chunk, i - 1)[K] = t \o a /\ Len(Prefixed(w, chunk, i - 1)) = K
    BY <1>7, <2>1 DEF a, b
  <2>7. [w EXCEPT ![K] = t \o b] = [[w EXCEPT ![K] = t \o a] EXCEPT ![K] = t \o b]
    BY <1>1
  <2>8. QED
    BY <2>5, <2>6, <2>7 DEF LongerBy
<1>9. QED
  BY <1>5, <1>6, <1>7, <1>8

(* A chunk more, and what it makes.                                        *)
LongerByChunk(w, chunk, v) == v = [w EXCEPT ![Len(w)] = w[Len(w)] \o chunk]

ChunkTaken(w, c, chunk, v) ==
  /\ v \in Seq(Seq(Unit)) /\ Len(v) = Len(w) /\ Inside(v, c)
  /\ Tracks(v, Marked(v, c), Fed(chunk))
  /\ Expected(w, Marked(w, c), Len(w)) \in Seq(Unit)
  /\ Streams(v, Marked(v, c), Expected(w, Marked(w, c), Len(w)), Fed(chunk).out)
  /\ \A k \in DOMAIN w : k # Len(w) =>
       Expected(v, Marked(v, c), k) = Expected(w, Marked(w, c), k)

(* A chunk: the sanitizer keeps track, and puts out exactly what the chunk *)
(* adds to the sanitized text.                                             *)
LEMMA ChunkTracks ==
  ASSUME NEW w \in Seq(Seq(Unit)), Len(w) >= 1, NEW c \in SUBSET (Nat \X Nat), Inside(w, c),
         Tracks(w, Marked(w, c), Sanitizer), SanitizerTypeOK,
         NEW n \in 1 .. MaxChunk, NEW chunk \in [1 .. n -> Unit],
         NEW v, LongerByChunk(w, chunk, v)
  PROVE  ChunkTaken(w, c, chunk, v)
<1> DEFINE W(i) == Prefixed(w, chunk, i)
           S(i) == Marked(W(i), c)
           base == Expected(w, Marked(w, c), Len(w))
           h == FedBy(chunk)
           Good(i) == /\ Inside(W(i), c) /\ Tracks(W(i), S(i), h[i])
                      /\ Streams(W(i), S(i), base, h[i].out)
                      /\ \A k \in DOMAIN w : k # Len(w) =>
                           Expected(W(i), S(i), k) = Expected(w, Marked(w, c), k)
           P == {i \in 0 .. n : Good(i)}
<1>0. n \in Nat
  BY SizesAssumption
<1>1. /\ W(0) = w /\ W(n) = v
      /\ \A i \in 0 .. n : W(i) \in Seq(Seq(Unit)) /\ Len(W(i)) = Len(w)
      /\ \A i \in 1 .. n : LongerBy(W(i - 1), chunk[i], W(i))
  <2>1. /\ Prefixed(w, chunk, 0) = w
        /\ Prefixed(w, chunk, n) = [w EXCEPT ![Len(w)] = w[Len(w)] \o chunk]
    BY <1>0, PrefixedBy
  <2>2. \A i \in 0 .. n : /\ Prefixed(w, chunk, i) \in Seq(Seq(Unit))
                          /\ Len(Prefixed(w, chunk, i)) = Len(w)
    BY <1>0, PrefixedBy
  <2>3. \A i \in 1 .. n : LongerBy(Prefixed(w, chunk, i - 1), chunk[i], Prefixed(w, chunk, i))
    BY <1>0, PrefixedBy
  <2>4. QED
    BY <2>1, <2>2, <2>3 DEF LongerByChunk
<1>2. Sanitizer \in Pushes /\ Sanitizer.out = <<>>
  BY ChunkTyped DEF Sanitizer
<1>3. /\ Len(chunk) = n /\ h[0] = Sanitizer
      /\ \A i \in 1 .. n : h[i] = Feed(h[i - 1], chunk[i])
  BY <1>0, <1>2, FedUnfolds
<1>4. base \in Seq(Unit)
  <2>1. Scoped(w, Marked(w, c)) /\ Len(w) \in DOMAIN w /\ Len(w[Len(w)]) \in 0 .. Len(w[Len(w)])
    BY MarkedScoped
  <2>2. QED
    BY <2>1, SurvivingUnfolds DEF Expected
<1>5. 0 \in P
  <2>1. base \o <<>> = base
    <3> HIDE DEF base
    <3>1. QED
      BY <1>4
  <2>2. Streams(w, Marked(w, c), base, Sanitizer.out)
    BY <1>2, <2>1 DEF Streams
  <2>3. Good(0)
    BY <1>1, <1>3, <2>2
  <2>4. 0 \in 0 .. n
    BY <1>0
  <2>5. QED
    BY <2>3, <2>4
<1>6. ASSUME NEW i \in 1 .. n, i - 1 \in P PROVE i \in P
  <2>1. Good(i - 1) /\ i - 1 \in 0 .. n /\ i \in 0 .. n /\ chunk[i] \in Unit
    BY <1>0, <1>6
  <2> DEFINE y == W(i - 1)
             z == W(i)
             u == chunk[i]
             s == h[i - 1]
  <2>2. /\ y \in Seq(Seq(Unit)) /\ Len(y) = Len(w) /\ Len(y) >= 1 /\ Inside(y, c)
        /\ LongerBy(y, u, z) /\ u \in Unit /\ DOMAIN y = DOMAIN w
    BY <1>1, <2>1
  <2>3. /\ Tracks(y, Marked(y, c), s) /\ Streams(y, Marked(y, c), base, s.out)
        /\ \A k \in DOMAIN w : k # Len(w) => Expected(y, Marked(y, c), k) = Expected(w, Marked(w, c), k)
    BY <2>1
  <2>4. h[i] = Feed(s, u)
    BY <1>3
  <2> HIDE DEF W, S, Good, base, h
  <2>41. z = W(i) /\ S(i) = Marked(z, c)
    BY DEF S
  <2> HIDE DEF y, z, u, s
  <2>5. EndsMarked(Marked(y, c), u, z, Marked(z, c)) /\ Inside(z, c)
    BY <2>2, MarkedGrows
  <2> DEFINE A == Marked(y, c)
             B == Marked(z, c)
  <2>6. /\ Tracks(z, B, Feed(s, u)) /\ Len(z) = Len(y)
        /\ Streams(z, B, base, Feed(s, u).out)
        /\ \A k \in DOMAIN y : k # Len(y) => Expected(z, B, k) = Expected(y, A, k)
    <3>1. Tracks(y, A, s) /\ Streams(y, A, base, s.out) /\ EndsMarked(A, u, z, B)
      BY <2>3, <2>5
    <3> HIDE DEF A, B
    <3>2. QED
      BY <1>4, <2>2, <3>1, FeedTracks
  <2>7. Good(i)
    BY <2>2, <2>3, <2>4, <2>41, <2>5, <2>6 DEF Good
  <2>8. QED
    BY <2>1, <2>7 DEF Good
<1>7. 0 .. n \subseteq P
  <2> HIDE DEF P
  <2>1. QED
    BY <1>0, <1>5, <1>6, UpTo
<1>8. Good(n)
  <2>1. n \in P
    BY <1>0, <1>7
  <2> HIDE DEF Good
  <2>2. QED
    BY <2>1
<1>9. Fed(chunk) = h[n]
  BY <1>3 DEF Fed
<1>10. v \in Seq(Seq(Unit)) /\ Len(v) = Len(w)
  <2>1. n \in 0 .. n
    BY <1>0
  <2> HIDE DEF W
  <2>2. QED
    BY <1>1, <2>1
<1>11. /\ v \in Seq(Seq(Unit)) /\ Len(v) = Len(w) /\ Inside(v, c)
       /\ Tracks(v, Marked(v, c), Fed(chunk))
       /\ base \in Seq(Unit) /\ Streams(v, Marked(v, c), base, Fed(chunk).out)
       /\ \A k \in DOMAIN w : k # Len(w) =>
            Expected(v, Marked(v, c), k) = Expected(w, Marked(w, c), k)
  BY <1>1, <1>4, <1>8, <1>9, <1>10
<1>12. QED
  BY <1>11 DEF ChunkTaken

-----------------------------------------------------------------------------
(* The streamed text follows the sanitized text, up to where it is capped. *)
Streamed(t, e) ==
  IsPrefix(t, e) /\ (Len(t) < MaxAssistantChars => t = e)

(* What is streamed goes on with the sanitized text, until it reaches the  *)
(* cap.                                                                    *)
LEMMA StreamedOn ==
  ASSUME NEW t \in Seq(Unit), NEW e \in Seq(Unit), NEW o \in Seq(Unit), Streamed(t, e)
  PROVE  Streamed(IF Len(t) < MaxAssistantChars THEN t \o o ELSE t, e \o o)
<1>1. CASE Len(t) < MaxAssistantChars
  <2> DEFINE x == t \o o
  <2>1. t = e /\ x \in Seq(Unit)
    BY <1>1 DEF Streamed
  <2>2. x = e \o o
    BY <2>1
  <2> HIDE DEF x
  <2>3. IsPrefix(x, x)
    BY <2>1 DEF IsPrefix
  <2>4. QED
    BY <1>1, <2>2, <2>3 DEF Streamed, x
<1>2. CASE ~(Len(t) < MaxAssistantChars)
  <2> DEFINE x == e \o o
  <2>1. /\ Len(t) \in Nat /\ Len(e) \in Nat /\ Len(t) =< Len(e) /\ x \in Seq(Unit)
        /\ SubSeq(t, 1, Len(t)) = SubSeq(e, 1, Len(t))
    BY DEF Streamed, IsPrefix
  <2>2. Len(x) = Len(e) + Len(o) /\ Len(o) \in Nat /\ \A i \in 1 .. Len(e) : x[i] = e[i]
    OBVIOUS
  <2> HIDE DEF x
  <2> DEFINE m == Len(t)
  <2>3. /\ 1 \in Nat /\ 1 >= 1 /\ m \in 0 .. Len(e) /\ m =< Len(x) /\ \A i \in 1 .. m : x[i] = e[i]
    BY <2>1, <2>2
  <2> HIDE DEF m
  <2>4. SubSeq(x, 1, m) = SubSeq(e, 1, m)
    BY <2>1, <2>3, SubSeqSame
  <2>5. IsPrefix(t, x)
    BY <2>1, <2>3, <2>4 DEF IsPrefix, m
  <2>6. QED
    BY <1>2, <2>5 DEF Streamed, x
<1>3. QED
  BY <1>1, <1>2

(* The ends of the steps that are no longer written.                       *)
Closed == {<<k, Len(raw[k])>> : k \in {j \in DOMAIN raw : ~StreamOpen(j)}}

(* The segments, by what ended them.                                       *)
LEMMA SegmentsAre ==
  ASSUME NEW w \in Seq(Seq(Unit)), NEW c, NEW D, D \subseteq DOMAIN w
  PROVE  UNION {{k} \X {p \in DOMAIN w[k] : \/ w[k][p] \in Ends \/ <<k, p>> \in c
                                            \/ p = Len(w[k]) /\ k \in D} : k \in DOMAIN w}
         = Marked(w, c \cup {<<k, Len(w[k])>> : k \in D})
<1> DEFINE E(k) == {p \in DOMAIN w[k] : \/ w[k][p] \in Ends \/ <<k, p>> \in c
                                        \/ p = Len(w[k]) /\ k \in D}
           U == UNION {{k} \X E(k) : k \in DOMAIN w}
           d == c \cup {<<k, Len(w[k])>> : k \in D}
           M == Marked(w, d)
<1>1. ASSUME NEW a \in U PROVE a \in M
  <2>1. PICK k \in DOMAIN w : a \in {k} \X E(k)
    OBVIOUS
  <2>2. PICK p \in E(k) : a = <<k, p>>
    <3> HIDE DEF E
    <3>1. QED
      BY <2>1
  <2>3. k \in Nat /\ p \in Nat /\ a[1] = k /\ a[2] = p /\ a \in Nat \X Nat /\ p \in DOMAIN w[k]
    BY <2>2
  <2>4. w[k][p] \in Ends \/ a \in d
    BY <2>2
  <2> HIDE DEF d, E
  <2>5. QED
    BY <2>3, <2>4 DEF Marked
<1>2. ASSUME NEW a \in M PROVE a \in U
  <2>1. /\ a \in Nat \X Nat /\ a[1] \in DOMAIN w /\ a[2] \in DOMAIN w[a[1]]
        /\ w[a[1]][a[2]] \in Ends \/ a \in d
    BY DEF Marked
  <2>2. a = <<a[1], a[2]>>
    BY <2>1
  <2>3. a \in d => a \in c \/ (a[2] = Len(w[a[1]]) /\ a[1] \in D)
    OBVIOUS
  <2>4. a[2] \in E(a[1])
    BY <2>1, <2>2, <2>3
  <2>5. a \in {a[1]} \X E(a[1])
    BY <2>2, <2>4
  <2>6. QED
    BY <2>1, <2>5
<1>3. U = M
  <2> HIDE DEF U, M
  <2>1. QED
    BY <1>1, <1>2
<1>4. QED
  BY <1>3

(* The same, for a state and a chunk at hand.                              *)
ChunkGiven(w, c, n, chunk, v) ==
  /\ w \in Seq(Seq(Unit)) /\ Len(w) >= 1 /\ c \in SUBSET (Nat \X Nat) /\ Inside(w, c)
  /\ Tracks(w, Marked(w, c), Sanitizer) /\ SanitizerTypeOK
  /\ n \in 1 .. MaxChunk /\ chunk \in [1 .. n -> Unit] /\ LongerByChunk(w, chunk, v)

(* The chunk of that state is taken so.                                    *)
LEMMA ChunkGivenTaken ==
  ASSUME NEW w, NEW c, NEW n, NEW chunk, NEW v, ChunkGiven(w, c, n, chunk, v)
  PROVE  ChunkTaken(w, c, chunk, v)
<1>1. /\ w \in Seq(Seq(Unit)) /\ Len(w) >= 1 /\ c \in SUBSET (Nat \X Nat) /\ Inside(w, c)
      /\ Tracks(w, Marked(w, c), Sanitizer) /\ SanitizerTypeOK
      /\ n \in 1 .. MaxChunk /\ chunk \in [1 .. n -> Unit] /\ LongerByChunk(w, chunk, v)
  BY DEF ChunkGiven
<1>2. QED
  BY <1>1, ChunkTracks

(* Marking the end of the text adds a segment, unless there is no text.    *)
LEMMA MarkedHere ==
  ASSUME NEW w \in Seq(Seq(Unit)), Len(w) >= 1, NEW c
  PROVE  Marked(w, c \cup {Here(w)}) =
           IF Len(w[Len(w)]) = 0 THEN Marked(w, c) ELSE Marked(w, c) \cup {Here(w)}
<1> DEFINE K == Len(w)
           n == Len(w[K])
           h == Here(w)
<1>1. /\ K \in DOMAIN w /\ n \in Nat /\ DOMAIN w[K] = 1 .. n /\ K \in Nat
      /\ h = <<K, n>> /\ h[1] = K /\ h[2] = n /\ h \in Nat \X Nat
  BY DEF Here
<1> HIDE DEF h
<1>2. CASE n = 0
  <2>1. ASSUME NEW a \in Nat \X Nat, a[1] \in DOMAIN w, a[2] \in DOMAIN w[a[1]] PROVE a # h
    BY <1>1, <1>2, <2>1
  <2>2. Marked(w, c \cup {h}) = Marked(w, c)
    BY <2>1 DEF Marked
  <2>3. QED
    BY <1>2, <2>2 DEF h
<1>3. CASE n # 0
  <2>1. n \in DOMAIN w[K]
    BY <1>1, <1>3
  <2>2. h \in Marked(w, c \cup {h})
    BY <1>1, <2>1 DEF Marked
  <2>3. Marked(w, c \cup {h}) = Marked(w, c) \cup {h}
    BY <2>2 DEF Marked
  <2>4. QED
    BY <1>3, <2>3 DEF h
<1>4. QED
  BY <1>2, <1>3

(* The segments of a state: ended by themselves, flushed or closed.        *)
LEMMA SegmentsNow == SanitizerBase => Segments = Marked(raw, cuts \cup Closed)
<1> SUFFICES ASSUME SanitizerBase PROVE Segments = Marked(raw, cuts \cup Closed)
  OBVIOUS
<1> DEFINE D == {j \in DOMAIN raw : ~StreamOpen(j)}
           F(k) == {p \in DOMAIN raw[k] : \/ raw[k][p] \in Ends \/ <<k, p>> \in cuts
                                          \/ p = Len(raw[k]) /\ k \in D}
<1>1. raw \in Seq(Seq(Unit)) /\ D \subseteq DOMAIN raw
  BY DEF SanitizerBase, SanitizerTypeOK
<1>2. ASSUME NEW k \in DOMAIN raw PROVE EndsOf(k) = F(k)
  <2>1. k \in D <=> ~StreamOpen(k)
    OBVIOUS
  <2> HIDE DEF D
  <2>2. QED
    BY <2>1 DEF EndsOf
<1>3. Segments = UNION {{k} \X F(k) : k \in DOMAIN raw}
  <2> HIDE DEF F
  <2>1. QED
    BY <1>2 DEF Segments
<1>4. Closed = {<<k, Len(raw[k])>> : k \in D}
  BY DEF Closed
<1> HIDE DEF D
<1>5. UNION {{k} \X F(k) : k \in DOMAIN raw} = Marked(raw, cuts \cup {<<k, Len(raw[k])>> : k \in D})
  BY <1>1, SegmentsAre
<1>6. QED
  BY <1>3, <1>4, <1>5

(* ... and of the next.                                                    *)
LEMMA SegmentsNext == SanitizerBase' => (Segments = Marked(raw, cuts \cup Closed))'
  BY SegmentsNow, PTL

(* The strengthening: the fields of the sanitizer follow from what was     *)
(* written, and what was streamed is the sanitized text of that.           *)
Tracked ==
  /\ Inside(raw, cuts)
  /\ Tracks(raw, Segments, Sanitizer)
  /\ \A k \in DOMAIN text : Streamed(text[k], Expected(raw, Segments, k))

(* The last step goes on, its segments become T and the sanitizer s.       *)
GoesOn(s, T) ==
  /\ Inside(raw', cuts') /\ Len(raw') = Len(raw)
  /\ s \in Pushes /\ Becomes(s)
  /\ Segments' = T /\ Scoped(raw', T)
  /\ Verdict(raw', T, s.stopped, s.anchor)
  /\ s.buffer = IF s.stopped THEN <<>> ELSE Rest(raw', T)
  /\ Streams(raw', T, Expected(raw, Segments, Step), s.out)
  /\ \A k \in DOMAIN raw : k # Step => Expected(raw', T, k) = Expected(raw, Segments, k)

(* What goes on that way is tracked.                                       *)
LEMMA Finish ==
  ASSUME SanitizerBase, SanitizerBase', Tracked, NEW s, NEW T, GoesOn(s, T)
  PROVE  Tracked'
<1>0. /\ Inside(raw', cuts') /\ Len(raw') = Len(raw)
      /\ s \in Pushes /\ Becomes(s)
      /\ Segments' = T /\ Scoped(raw', T)
      /\ Verdict(raw', T, s.stopped, s.anchor)
      /\ s.buffer = IF s.stopped THEN <<>> ELSE Rest(raw', T)
      /\ Streams(raw', T, Expected(raw, Segments, Step), s.out)
      /\ \A k \in DOMAIN raw : k # Step => Expected(raw', T, k) = Expected(raw, Segments, k)
  BY DEF GoesOn
<1>1. /\ buffer' = s.buffer /\ anchor' = s.anchor /\ stopped' = s.stopped /\ EmitText(s.out)
      /\ s.out \in Seq(Unit)
  BY <1>0 DEF Becomes, Pushes
<1>2. /\ Sanitizer' = [buffer |-> buffer', anchor |-> anchor', stopped |-> stopped', out |-> <<>>]
  BY DEF Sanitizer
<1> DEFINE z == [buffer |-> buffer', anchor |-> anchor', stopped |-> stopped', out |-> <<>>]
<1>3. z \in Pushes /\ z.buffer = s.buffer /\ z.anchor = s.anchor /\ z.stopped = s.stopped
  BY <1>0, <1>1 DEF Pushes
<1> HIDE DEF z
<1>4. Tracks(raw', T, z)
  BY <1>0, <1>3 DEF Tracks
<1>5. Tracks(raw', Segments', Sanitizer')
  BY <1>0, <1>2, <1>4 DEF z
<1>6. /\ text \in Seq(Seq(Unit)) /\ Len(text) = Step /\ Step \in 1 .. Len(text)
      /\ text[Step] \in Seq(Unit) /\ Step = Len(raw) /\ DOMAIN text = DOMAIN raw
  BY DEF SanitizerBase, SanitizerTypeOK, Step
<1> DEFINE base == Expected(raw, Segments, Step)
<1>7. base \in Seq(Unit)
  <2>1. Scoped(raw, Segments) /\ Step \in DOMAIN raw
    BY <1>6 DEF Tracked, Tracks
  <2>2. Len(raw[Step]) \in 0 .. Len(raw[Step])
    BY <2>1 DEF Scoped
  <2>3. QED
    BY <2>1, <2>2, SurvivingUnfolds DEF Expected
<1>8. Streamed(text[Step], base)
  BY <1>6 DEF Tracked
<1> HIDE DEF base
<1>9. Streamed(IF Len(text[Step]) < MaxAssistantChars THEN text[Step] \o s.out ELSE text[Step], base \o s.out)
  BY <1>1, <1>6, <1>7, <1>8, StreamedOn
<1>10. /\ DOMAIN text' = DOMAIN text /\ \A k \in DOMAIN text : k # Step => text'[k] = text[k]
       /\ text'[Step] = IF Len(text[Step]) < MaxAssistantChars THEN text[Step] \o s.out ELSE text[Step]
  BY <1>0, <1>1, <1>6 DEF EmitText
<1>11. Expected(raw', T, Step) = base \o s.out
  BY <1>0, <1>6 DEF Streams, base
<1>12. Streamed(text'[Step], Expected(raw', T, Step))
  BY <1>9, <1>10, <1>11
<1>13. ASSUME NEW k \in DOMAIN text' PROVE Streamed(text'[k], Expected(raw', Segments', k))
  <2>1. CASE k = Step
    BY <1>0, <1>12, <2>1
  <2>2. CASE k # Step
    <3>1. k \in DOMAIN text /\ k \in DOMAIN raw /\ text'[k] = text[k]
      BY <1>0, <1>6, <1>10, <2>2
    <3>2. Expected(raw', T, k) = Expected(raw, Segments, k)
      BY <1>0, <2>2, <3>1
    <3>3. QED
      BY <1>0, <3>1, <3>2 DEF Tracked
  <2>3. QED
    BY <2>1, <2>2
<1>14. QED
  BY <1>0, <1>5, <1>13 DEF Tracked

(* Closed steps end inside the text.                                       *)
LEMMA ClosedInside ==
  ASSUME SanitizerBase, Inside(raw, cuts)
  PROVE  Inside(raw, cuts \cup Closed) /\ cuts \cup Closed \in SUBSET (Nat \X Nat)
<1>1. raw \in Seq(Seq(Unit)) /\ cuts \subseteq Nat \X Nat
  BY DEF SanitizerBase, SanitizerTypeOK
<1>2. ASSUME NEW a \in Closed
      PROVE  a \in Nat \X Nat /\ a[1] \in DOMAIN raw /\ a[2] =< Len(raw[a[1]])
  <2>1. PICK k \in DOMAIN raw : a = <<k, Len(raw[k])>>
    BY DEF Closed
  <2>2. k \in Nat /\ Len(raw[k]) \in Nat
    BY <1>1
  <2>3. QED
    BY <2>1, <2>2
<1>3. QED
  BY <1>1, <1>2 DEF Inside

(* Chunk keeps what is tracked: unit by unit, then the flush of a full     *)
(* buffer.                                                                 *)
LEMMA ChunkTracked ==
  ASSUME SanitizerBase, SanitizerBase', Tracked, Chunk
  PROVE  Tracked'
<1>0. SanitizerTypeOK /\ raw \in Seq(Seq(Unit)) /\ Len(raw) >= 1 /\ Step = Len(raw)
  BY DEF SanitizerBase, SanitizerTypeOK, Step
<1>1. PICK n \in 1 .. MaxChunk : \E chunk \in [1 .. n -> Unit] :
        /\ raw' = [raw EXCEPT ![Step] = @ \o chunk]
        /\ Becomes(PushChunk(chunk))
        /\ cuts' = IF Full(Fed(chunk).buffer) THEN cuts \cup {<<Step, Len(raw'[Step])>>}
                                              ELSE cuts
  BY DEF Chunk
<1>2. PICK chunk \in [1 .. n -> Unit] :
        /\ raw' = [raw EXCEPT ![Step] = @ \o chunk]
        /\ Becomes(PushChunk(chunk))
        /\ cuts' = IF Full(Fed(chunk).buffer) THEN cuts \cup {<<Step, Len(raw'[Step])>>}
                                              ELSE cuts
  BY <1>1
<1>3. PICK v : v = raw'
  OBVIOUS
<1>4. LongerByChunk(raw, chunk, v)
  BY <1>0, <1>2, <1>3 DEF LongerByChunk
<1>5. stage = "streaming" /\ stage' = "streaming"
  BY DEF Chunk
<1> DEFINE c == cuts \cup Closed
           fed == Fed(chunk)
           T0 == Marked(v, c)
           base == Expected(raw, Segments, Step)
<1>6. c \in SUBSET (Nat \X Nat) /\ Inside(raw, c)
  BY ClosedInside DEF Tracked
<1>7. Segments = Marked(raw, c)
  BY SegmentsNow
<1>8. Tracks(raw, Marked(raw, c), Sanitizer)
  BY <1>7 DEF Tracked
<1> HIDE DEF c
<1>9. /\ v \in Seq(Seq(Unit)) /\ Len(v) = Len(raw) /\ Inside(v, c)
      /\ Tracks(v, T0, fed)
      /\ base \in Seq(Unit) /\ Streams(v, T0, base, fed.out)
      /\ \A k \in DOMAIN raw : k # Step => Expected(v, T0, k) = Expected(raw, Segments, k)
  <2>1. ChunkGiven(raw, c, n, chunk, v)
    BY <1>0, <1>4, <1>6, <1>8 DEF ChunkGiven
  <2>2. ChunkTaken(raw, c, chunk, v)
    BY <2>1, ChunkGivenTaken
  <2>3. QED
    BY <1>0, <1>7, <2>2 DEF ChunkTaken
<1>10. Closed' = Closed
  <2>1. Step' = Step /\ DOMAIN raw' = DOMAIN raw
    BY <1>0, <1>3, <1>9 DEF Step
  <2>2. \A k \in DOMAIN raw : k # Step => raw'[k] = raw[k]
    BY <1>0, <1>2
  <2>3. \A k : StreamOpen(k)' <=> StreamOpen(k)
    BY <1>5, <2>1 DEF StreamOpen
  <2>4. \A k \in DOMAIN raw : ~StreamOpen(k) => k # Step
    BY <1>5 DEF StreamOpen
  <2>5. Closed' = {<<k, Len(raw'[k])>> : k \in {j \in DOMAIN raw' : ~StreamOpen(j)'}}
    BY DEF Closed
  <2>6. {j \in DOMAIN raw' : ~StreamOpen(j)'} = {j \in DOMAIN raw : ~StreamOpen(j)}
    BY <2>1, <2>3
  <2> DEFINE D == {j \in DOMAIN raw : ~StreamOpen(j)}
  <2>7. \A k \in D : Len(raw'[k]) = Len(raw[k])
    BY <2>2, <2>4
  <2>8. {<<k, Len(raw'[k])>> : k \in D} = {<<k, Len(raw[k])>> : k \in D}
    <3> HIDE DEF D
    <3>1. QED
      BY <2>7
  <2>9. QED
    BY <2>5, <2>6, <2>8 DEF Closed
<1>11. Segments' = Marked(v, cuts' \cup Closed)
  BY <1>3, <1>10, SegmentsNext
<1>12. fed \in Pushes /\ Scoped(v, T0) /\ Verdict(v, T0, fed.stopped, fed.anchor)
       /\ fed.buffer = IF fed.stopped THEN <<>> ELSE Rest(v, T0)
  BY <1>9 DEF Tracks
<1>13. CASE ~Full(fed.buffer)
  <2>1. Becomes(fed) /\ cuts' = cuts
    BY <1>2, <1>13 DEF PushChunk
  <2>2. Segments' = T0
    BY <1>11, <2>1 DEF c
  <2>3. Inside(raw', cuts')
    BY <1>3, <1>9, <2>1 DEF Inside, c
  <2> HIDE DEF fed, T0
  <2>4. GoesOn(fed, T0)
    BY <1>3, <1>9, <1>12, <2>1, <2>2, <2>3 DEF GoesOn, base
  <2>5. QED
    BY <2>4, Finish
<1>14. CASE Full(fed.buffer)
  <2> DEFINE s == Consume(fed, Rest(v, T0))
             T == Segments'
  <2>1. fed.buffer # <<>>
    <3>1. Len(<<>>) = 0 /\ MaxSegmentBuffer \in Nat \ {0}
      BY SizesAssumption
    <3>2. QED
      BY <1>14, <3>1 DEF Full
  <2>2. ~fed.stopped /\ fed.buffer = Rest(v, T0)
    BY <1>12, <2>1
  <2>3. PushChunk(chunk) = s /\ Becomes(s)
    BY <1>2, <1>14, <2>2 DEF PushChunk
  <2>4. Len(v[Len(v)]) # 0 /\ Here(v) \notin T0
    BY <1>12, <2>1, <2>2, RestEmpty
  <2>5. cuts' = cuts \cup {Here(v)}
    BY <1>0, <1>2, <1>3, <1>9, <1>14 DEF Here
  <2>6. Segments' = Marked(v, c \cup {Here(v)})
    <3>1. cuts' \cup Closed = c \cup {Here(v)}
      BY <2>5 DEF c
    <3>2. QED
      BY <1>11, <3>1
  <2>7. Segments' = T0 \cup {Here(v)}
    BY <1>0, <1>9, <2>4, <2>6, MarkedHere
  <2>8. Len(v[Len(v)]) \in Nat /\ Len(v) \in DOMAIN v
    BY <1>0, <1>9
  <2>9. EndAdded(v, T0, T)
    BY <2>4, <2>7, <2>8 DEF EndAdded
  <2>10. Verdict(v, T0, FALSE, fed.anchor)
    <3>1. fed.stopped = FALSE
      BY <1>12, <2>2 DEF Pushes
    <3>2. QED
      BY <1>12, <3>1
  <2>11. Inside(raw', cuts')
    <3>1. Here(v)[1] \in DOMAIN v /\ Here(v)[2] =< Len(v[Here(v)[1]])
      BY <2>8 DEF Here
    <3>2. QED
      BY <1>3, <1>9, <2>5, <3>1 DEF Inside, c
  <2> HIDE DEF fed, T0, T, base
  <2>12. /\ s \in Pushes /\ s.buffer = <<>> /\ Verdict(v, T, s.stopped, s.anchor)
         /\ Streams(v, T, base, s.out)
    BY <1>9, <1>12, <2>2, <2>9, <2>10, Add
  <2>13. Scoped(v, T) /\ Rest(v, T) = <<>>
    BY <1>12, <2>9, AddContinues DEF Continues
  <2>14. ASSUME NEW k \in DOMAIN raw, k # Step
         PROVE  Expected(v, T, k) = Expected(raw, Segments, k)
    <3>1. k \in DOMAIN v /\ k # Len(v)
      BY <1>0, <1>9, <2>14
    <3>2. Expected(v, T, k) = Expected(v, T0, k)
      BY <1>12, <2>9, <3>1, AddOthers
    <3>3. QED
      BY <1>9, <2>14, <3>2
  <2> HIDE DEF s
  <2>15. s.buffer = IF s.stopped THEN <<>> ELSE Rest(v, T)
    BY <2>12, <2>13
  <2>16. Segments' = T
    BY DEF T
  <2>17. GoesOn(s, T)
    BY <1>3, <1>9, <2>3, <2>11, <2>12, <2>13, <2>14, <2>15, <2>16 DEF GoesOn, base
  <2>18. QED
    BY <2>17, Finish
<1>15. QED
  BY <1>13, <1>14

(* StreamEnds keeps it: what is left of the step is its last segment.      *)
LEMMA EndTracked ==
  ASSUME SanitizerBase, SanitizerBase', Tracked, StreamEnds
  PROVE  Tracked'
<1>0. SanitizerTypeOK /\ raw \in Seq(Seq(Unit)) /\ Len(raw) >= 1 /\ Step = Len(raw) /\ Step \in DOMAIN raw
  BY DEF SanitizerBase, SanitizerTypeOK, Step
<1>1. raw' = raw /\ cuts' = cuts /\ stage = "streaming" /\ stage' = "answered" /\ Becomes(EndStep)
  BY DEF StreamEnds
<1> DEFINE c == cuts \cup Closed
           base == Expected(raw, Segments, Step)
           h == Here(raw)
           T == Segments'
<1>2. Segments = Marked(raw, c)
  BY SegmentsNow
<1>3. Closed' = Closed \cup {h}
  <2>1. \A k \in DOMAIN raw : ~StreamOpen(k)'
    BY <1>1 DEF StreamOpen
  <2>2. Closed' = {<<k, Len(raw[k])>> : k \in {j \in DOMAIN raw : ~StreamOpen(j)'}}
    BY <1>1 DEF Closed
  <2>3. \A k \in DOMAIN raw : ~StreamOpen(k) <=> k # Step
    BY <1>1 DEF StreamOpen
  <2>4. {j \in DOMAIN raw : ~StreamOpen(j)'} = {j \in DOMAIN raw : ~StreamOpen(j)} \cup {Step}
    BY <1>0, <2>1, <2>3
  <2> DEFINE D == {j \in DOMAIN raw : ~StreamOpen(j)}
  <2>5. {<<k, Len(raw[k])>> : k \in D \cup {Step}} = {<<k, Len(raw[k])>> : k \in D} \cup {<<Step, Len(raw[Step])>>}
    <3> HIDE DEF D
    <3>1. QED
      OBVIOUS
  <2>6. h = <<Step, Len(raw[Step])>>
    BY <1>0 DEF Here
  <2>7. QED
    BY <2>2, <2>4, <2>5, <2>6 DEF Closed
<1>4. T = Marked(raw, c \cup {h})
  <2>1. Segments' = Marked(raw, cuts' \cup Closed')
    BY <1>1, SegmentsNext
  <2>2. cuts' \cup Closed' = c \cup {h}
    BY <1>1, <1>3
  <2>3. QED
    BY <2>1, <2>2
<1>5. T = IF Len(raw[Len(raw)]) = 0 THEN Segments ELSE Segments \cup {h}
  <2> HIDE DEF c
  <2>1. QED
    BY <1>0, <1>2, <1>4, MarkedHere
<1>6. /\ Scoped(raw, Segments) /\ Sanitizer \in Pushes /\ Verdict(raw, Segments, stopped, anchor)
      /\ buffer = IF stopped THEN <<>> ELSE Rest(raw, Segments)
      /\ Sanitizer.stopped = stopped /\ Sanitizer.anchor = anchor /\ Sanitizer.buffer = buffer
      /\ Sanitizer.out = <<>> /\ stopped \in BOOLEAN
  BY <1>0 DEF Tracked, Tracks, Sanitizer, SanitizerTypeOK
<1>7. base \in Seq(Unit) /\ Streams(raw, Segments, base, <<>>)
  <2>1. Len(raw[Step]) \in 0 .. Len(raw[Step])
    BY <1>0
  <2>2. base \in Seq(Unit)
    BY <1>0, <1>6, <2>1, SurvivingUnfolds DEF Expected
  <2> HIDE DEF base
  <2>3. base \o <<>> = base
    BY <2>2
  <2>4. QED
    BY <1>0, <2>2, <2>3 DEF Streams, base
<1>8. Inside(raw', cuts')
  BY <1>1 DEF Tracked
<1>9. ASSUME stopped \/ buffer = <<>>
      PROVE  /\ EndStep \in Pushes /\ EndStep.buffer = <<>> /\ EndStep.anchor = anchor
             /\ EndStep.stopped = stopped /\ EndStep.out = <<>>
  <2> DEFINE e == <<>>
  <2>1. EndStep = [Sanitizer EXCEPT !.buffer = e]
    BY <1>9 DEF EndStep
  <2>2. e \in Seq(Unit \ Ends)
    OBVIOUS
  <2> HIDE DEF e
  <2>3. /\ [Sanitizer EXCEPT !.buffer = e] \in Pushes
        /\ [Sanitizer EXCEPT !.buffer = e].buffer = e
        /\ [Sanitizer EXCEPT !.buffer = e].out = Sanitizer.out
        /\ [Sanitizer EXCEPT !.buffer = e].anchor = Sanitizer.anchor
        /\ [Sanitizer EXCEPT !.buffer = e].stopped = Sanitizer.stopped
    BY <1>6, <2>2 DEF Pushes
  <2>4. QED
    BY <1>6, <2>1, <2>3 DEF e
<1>10. PICK v : v = raw'
  OBVIOUS
<1>11. v = raw /\ Len(raw') = Len(raw)
  BY <1>1, <1>10
<1>12. CASE T = Segments
  <2>1. Rest(raw, Segments) = <<>>
    <3>1. Len(raw[Len(raw)]) = 0 \/ h \in Segments
      <4> HIDE DEF T
      <4>1. QED
        BY <1>5, <1>12
    <3>2. QED
      BY <1>6, <3>1, RestEmpty
  <2>2. buffer = <<>>
    BY <1>6, <2>1
  <2> DEFINE s == EndStep
  <2>3. /\ s \in Pushes /\ s.buffer = <<>> /\ s.anchor = anchor
        /\ s.stopped = stopped /\ s.out = <<>> /\ Becomes(s)
    BY <1>1, <1>9, <2>2
  <2> HIDE DEF s, T
  <2>4. /\ Segments' = T /\ Scoped(raw', T) /\ Verdict(raw', T, s.stopped, s.anchor)
        /\ s.buffer = IF s.stopped THEN <<>> ELSE Rest(raw', T)
        /\ Streams(raw', T, base, s.out)
        /\ \A k \in DOMAIN raw : k # Step => Expected(raw', T, k) = Expected(raw, Segments, k)
    BY <1>1, <1>6, <1>7, <1>12, <2>1, <2>3 DEF T
  <2>5. GoesOn(s, T)
    BY <1>8, <1>11, <2>3, <2>4 DEF GoesOn
  <2>6. QED
    BY <2>5, Finish
<1>13. CASE T # Segments
  <2>1. EndAdded(raw, Segments, T)
    <3>1. Len(raw[Len(raw)]) \in Nat
      BY <1>0
    <3> HIDE DEF T, h
    <3>2. Len(raw[Len(raw)]) # 0 /\ T = Segments \cup {h} /\ h \notin Segments
      BY <1>5, <1>13
    <3>3. QED
      BY <3>1, <3>2 DEF EndAdded, h
  <2> HIDE DEF T
  <2>2. Scoped(raw, T) /\ Rest(raw, T) = <<>>
    BY <1>6, <2>1, AddContinues DEF Continues
  <2>3. \A k \in DOMAIN raw : k # Step => Expected(raw, T, k) = Expected(raw, Segments, k)
    BY <1>0, <1>6, <2>1, AddOthers
  <2> DEFINE s == EndStep
  <2>4. /\ s \in Pushes /\ s.buffer = <<>> /\ Verdict(raw, T, s.stopped, s.anchor)
        /\ Streams(raw, T, base, s.out)
    <3>1. CASE stopped
      <4>1. /\ s \in Pushes /\ s.buffer = <<>> /\ s.anchor = anchor
            /\ s.stopped = stopped /\ s.out = <<>>
        BY <1>9, <3>1
      <4>2. Verdict(raw, Segments, TRUE, anchor) /\ stopped = TRUE
        BY <1>6, <3>1
      <4>3. Verdict(raw, T, TRUE, anchor) /\ Expected(raw, T, Len(raw)) = Expected(raw, Segments, Len(raw))
        BY <1>6, <2>1, <4>2, AddStopped
      <4>4. QED
        BY <1>7, <4>1, <4>2, <4>3 DEF Streams
    <3>2. CASE ~stopped
      <4>1. buffer = Rest(raw, Segments) /\ stopped = FALSE
        BY <1>6, <3>2
      <4>2. buffer # <<>>
        <5>1. Len(raw[Len(raw)]) # 0 /\ Here(raw) \notin Segments
          <6>1. Len(raw[Len(raw)]) >= 1 /\ Here(raw) \notin Segments
            BY <2>1 DEF EndAdded
          <6>2. QED
            BY <6>1
        <5>2. QED
          BY <1>6, <4>1, <5>1, RestEmpty
      <4>3. s = Consume(Sanitizer, Rest(raw, Segments))
        BY <3>2, <4>1, <4>2 DEF EndStep
      <4> DEFINE z == Sanitizer
      <4>4. z \in Pushes /\ ~z.stopped /\ Verdict(raw, Segments, FALSE, z.anchor)
            /\ Streams(raw, Segments, base, z.out) /\ s = Consume(z, Rest(raw, Segments))
        BY <1>6, <1>7, <3>2, <4>1, <4>3
      <4> HIDE DEF z, s, base
      <4>5. /\ Consume(z, Rest(raw, Segments)) \in Pushes
            /\ Consume(z, Rest(raw, Segments)).buffer = <<>>
            /\ Verdict(raw, T, Consume(z, Rest(raw, Segments)).stopped, Consume(z, Rest(raw, Segments)).anchor)
            /\ Streams(raw, T, base, Consume(z, Rest(raw, Segments)).out)
        BY <1>6, <1>7, <2>1, <4>4, Add
      <4>6. QED
        BY <4>4, <4>5
    <3>3. QED
      BY <3>1, <3>2
  <2>5. Becomes(s)
    BY <1>1
  <2> HIDE DEF s
  <2>6. /\ Segments' = T /\ Scoped(raw', T) /\ Verdict(raw', T, s.stopped, s.anchor)
        /\ s.buffer = IF s.stopped THEN <<>> ELSE Rest(raw', T)
        /\ Streams(raw', T, base, s.out)
        /\ \A k \in DOMAIN raw : k # Step => Expected(raw', T, k) = Expected(raw, Segments, k)
    BY <1>1, <2>2, <2>3, <2>4 DEF T
  <2>7. GoesOn(s, T)
    BY <1>8, <1>11, <2>4, <2>5, <2>6 DEF GoesOn
  <2>8. QED
    BY <2>7, Finish
<1>14. QED
  BY <1>12, <1>13

(* NextStep keeps it: a step begins without text.                          *)
LEMMA NextStepTracked ==
  ASSUME SanitizerBase, SanitizerBase', Tracked, NextStep
  PROVE  Tracked'
<1>0. /\ SanitizerTypeOK /\ raw \in Seq(Seq(Unit)) /\ Len(raw) >= 1 /\ Step = Len(raw) /\ Step \in DOMAIN raw
      /\ text \in Seq(Seq(Unit)) /\ Len(text) = Len(raw) /\ Len(raw) \in Nat
  BY DEF SanitizerBase, SanitizerTypeOK, Step
<1> DEFINE e == <<>>
<1>1. /\ raw' = Append(raw, e) /\ text' = Append(text, e) /\ cuts' = cuts /\ stage = "answered"
      /\ stage' = "streaming" /\ buffer' = buffer /\ anchor' = anchor /\ stopped' = stopped /\ ~stopped
  BY DEF NextStep
<1>2. e \in Seq(Unit) /\ Len(e) = 0 /\ e = <<>>
  OBVIOUS
<1> HIDE DEF e
<1> DEFINE v == Append(raw, e)
           c == cuts \cup Closed
<1>3. /\ v \in Seq(Seq(Unit)) /\ Len(v) = Len(raw) + 1 /\ v[Len(v)] = e /\ Len(v) >= 1
      /\ \A k \in DOMAIN raw : k \in DOMAIN v /\ v[k] = raw[k]
      /\ \A k \in DOMAIN v : k \in DOMAIN raw \/ k = Len(v)
  BY <1>0, <1>2
<1> HIDE DEF v
<1>4. Segments = Marked(raw, c)
  BY SegmentsNow
<1>5. Closed = {<<k, Len(raw[k])>> : k \in DOMAIN raw}
  <2>1. \A k : ~StreamOpen(k)
    BY <1>1 DEF StreamOpen
  <2>2. {j \in DOMAIN raw : ~StreamOpen(j)} = DOMAIN raw
    BY <2>1
  <2>3. QED
    BY <2>2 DEF Closed
<1>6. Closed' = Closed
  <2>1. Step' = Len(v)
    BY <1>1 DEF Step, v
  <2>2. \A k : StreamOpen(k)' <=> k = Len(v)
    BY <1>1, <2>1 DEF StreamOpen
  <2>3. Closed' = {<<k, Len(v[k])>> : k \in {j \in DOMAIN v : ~StreamOpen(j)'}}
    BY <1>1 DEF Closed, v
  <2>4. \A k \in DOMAIN raw : k # Len(v)
    BY <1>0, <1>3
  <2>5. {j \in DOMAIN v : ~StreamOpen(j)'} = DOMAIN raw
    BY <1>3, <2>2, <2>4
  <2>6. {<<k, Len(v[k])>> : k \in DOMAIN raw} = {<<k, Len(raw[k])>> : k \in DOMAIN raw}
    BY <1>3
  <2>7. QED
    BY <1>5, <2>3, <2>5, <2>6
<1>7. Segments' = Segments
  <2>1. Segments' = Marked(v, c)
    <3>1. Segments' = Marked(raw', cuts' \cup Closed')
      BY SegmentsNext
    <3>2. QED
      BY <1>1, <1>6, <3>1 DEF v
  <2>2. Marked(v, c) = Marked(raw, c)
    <3>1. ASSUME NEW a \in Nat \X Nat PROVE a \in Marked(v, c) <=> a \in Marked(raw, c)
      <4>1. CASE a[1] \in DOMAIN raw
        BY <1>3, <4>1 DEF Marked
      <4>2. CASE a[1] \notin DOMAIN raw
        <5>1. a[1] \in DOMAIN v => DOMAIN v[a[1]] = {}
          BY <1>2, <1>3, <4>2
        <5>2. QED
          BY <4>2, <5>1 DEF Marked
      <4>3. QED
        BY <4>1, <4>2
    <3>2. Marked(v, c) \subseteq Nat \X Nat /\ Marked(raw, c) \subseteq Nat \X Nat
      BY DEF Marked
    <3>3. QED
      BY <3>1, <3>2
  <2>3. QED
    BY <1>4, <2>1, <2>2
<1>8. /\ Scoped(raw, Segments) /\ Verdict(raw, Segments, stopped, anchor) /\ stopped = FALSE
      /\ buffer = Rest(raw, Segments)
  BY <1>0, <1>1 DEF Tracked, Tracks, Sanitizer, SanitizerTypeOK
<1> DEFINE S == Segments
<1>9. Continues(raw, S, v, S) /\ Scoped(v, S)
  <2>1. Scoped(v, S)
    BY <1>3, <1>8 DEF Scoped
  <2>2. \A k \in DOMAIN raw : Len(raw[k]) \in Nat
    BY <1>0
  <2>3. \A a \in S, b \in S \ S : Before(a, b)
    OBVIOUS
  <2> HIDE DEF S
  <2>4. Len(raw) =< Len(v)
    BY <1>0, <1>3
  <2>5. \A k \in DOMAIN raw : /\ Len(raw[k]) =< Len(v[k])
                              /\ \A i \in 1 .. Len(raw[k]) : v[k][i] = raw[k][i]
    BY <1>3, <2>2
  <2>6. QED
    BY <1>8, <2>1, <2>3, <2>4, <2>5 DEF Continues, S
<1>10. Verdict(v, S, FALSE, anchor)
  <2> HIDE DEF S
  <2>1. QED
    BY <1>8, <1>9, VerdictKept DEF S
<1>11. buffer = <<>>
  <2>1. Len(raw[Len(raw)]) = 0 \/ Here(raw) \in Marked(raw, c)
    <3>1. Here(raw) \in c
      BY <1>0, <1>5 DEF Here
    <3>2. Here(raw)[1] = Len(raw) /\ Here(raw)[2] = Len(raw[Len(raw)]) /\ Here(raw) \in Nat \X Nat
      BY <1>0 DEF Here
    <3>3. Len(raw[Len(raw)]) # 0 => Len(raw[Len(raw)]) \in DOMAIN raw[Len(raw)]
      BY <1>0
    <3> HIDE DEF c
    <3>4. QED
      BY <1>0, <3>1, <3>2, <3>3 DEF Marked
  <2>2. QED
    BY <1>4, <1>8, <2>1, RestEmpty
<1>12. Rest(v, S) = <<>>
  <2> HIDE DEF S
  <2>1. Len(v[Len(v)]) = 0
    BY <1>2, <1>3
  <2>2. QED
    BY <1>9, <2>1, RestEmpty
<1>13. Tracks(v, S, Sanitizer')
  <2>1. Sanitizer' = [buffer |-> buffer, anchor |-> anchor, stopped |-> stopped, out |-> <<>>]
    BY <1>1 DEF Sanitizer
  <2>2. Sanitizer' = Sanitizer
    BY <2>1 DEF Sanitizer
  <2>3. /\ Sanitizer \in Pushes /\ Sanitizer.stopped = FALSE /\ Sanitizer.anchor = anchor
        /\ Sanitizer.buffer = <<>>
    BY <1>8, <1>11 DEF Tracked, Tracks, Sanitizer
  <2> HIDE DEF S
  <2>4. QED
    BY <1>9, <1>10, <1>12, <2>2, <2>3 DEF Tracks
<1>14. ASSUME NEW k \in DOMAIN text' PROVE Streamed(text'[k], Expected(v, S, k))
  <2>1. CASE k \in DOMAIN raw
    <3>1. text'[k] = text[k] /\ k \in DOMAIN text
      BY <1>0, <1>1, <2>1
    <3>2. Expected(v, S, k) = Expected(raw, S, k)
      <4> HIDE DEF S
      <4>1. QED
        BY <1>9, <2>1, ExpectedSame
    <3>3. QED
      BY <3>1, <3>2 DEF Tracked
  <2>2. CASE k \notin DOMAIN raw
    <3>1. k = Len(v) /\ text'[k] = e
      BY <1>0, <1>1, <1>2, <1>3, <2>2
    <3>2. Len(v[Len(v)]) = 0 /\ Len(v) \in DOMAIN v
      BY <1>2, <1>3
    <3>3. Expected(v, S, Len(v)) = <<>>
      <4> HIDE DEF S
      <4>1. QED
        BY <1>9, <3>2, SurvivingUnfolds DEF Expected
    <3>4. Streamed(e, e)
      BY <1>2 DEF Streamed, IsPrefix
    <3>5. QED
      BY <1>2, <3>1, <3>3, <3>4
  <2>3. QED
    BY <2>1, <2>2
<1>15. Inside(v, cuts)
  BY <1>3 DEF Tracked, Inside
<1>16. raw' = v /\ cuts' = cuts /\ Segments' = S
  BY <1>1, <1>7 DEF v
<1>17. QED
  <2>1. Inside(raw', cuts') /\ Tracks(raw', Segments', Sanitizer')
    BY <1>13, <1>15, <1>16
  <2>2. \A k \in DOMAIN text' : Streamed(text'[k], Expected(raw', Segments', k))
    BY <1>14, <1>16
  <2>3. QED
    BY <2>1, <2>2 DEF Tracked

(* Every step keeps it ...                                                 *)
LEMMA TrackedStep ==
  SanitizerBase /\ Tracked /\ [SanitizerNext]_sanitizerVars => Tracked'
<1> SUFFICES ASSUME SanitizerBase, Tracked, [SanitizerNext]_sanitizerVars PROVE Tracked'
  OBVIOUS
<1>1. SanitizerBase'
  BY SanitizerStepBase
<1>2. ASSUME StreamFails \/ TurnOver \/ UNCHANGED sanitizerVars PROVE Tracked'
  <2>1. /\ raw' = raw /\ cuts' = cuts /\ text' = text /\ buffer' = buffer /\ anchor' = anchor
        /\ stopped' = stopped
        /\ stage' \in {"streaming", "failed"} <=> stage \in {"streaming", "failed"}
    BY <1>2 DEF StreamFails, TurnOver, sanitizerVars
  <2>2. \A k : StreamOpen(k)' <=> StreamOpen(k)
    BY <2>1 DEF StreamOpen, Step
  <2>3. Closed' = Closed
    <3>1. {j \in DOMAIN raw : ~StreamOpen(j)'} = {j \in DOMAIN raw : ~StreamOpen(j)}
      BY <2>2
    <3>2. QED
      BY <2>1, <3>1 DEF Closed
  <2>4. Segments' = Segments
    <3>1. Segments' = Marked(raw', cuts' \cup Closed')
      BY <1>1, SegmentsNext
    <3>2. QED
      BY <2>1, <2>3, <3>1, SegmentsNow
  <2>5. Sanitizer' = Sanitizer
    BY <2>1 DEF Sanitizer
  <2>6. QED
    BY <2>1, <2>4, <2>5 DEF Tracked
<1>3. QED
  BY <1>1, <1>2, ChunkTracked, EndTracked, NextStepTracked DEF SanitizerNext

(* ... and it holds at first.                                              *)
LEMMA TrackedInit == SanitizerInit => Tracked
<1> SUFFICES ASSUME SanitizerInit PROVE Tracked
  OBVIOUS
<1>0. SanitizerBase
  BY SanitizerInitBase
<1> DEFINE e == <<>>
<1>1. /\ raw = <<e>> /\ text = <<e>> /\ cuts = {} /\ buffer = e /\ anchor = e /\ stopped = FALSE
  BY DEF SanitizerInit
<1>2. e \in Seq(Unit) /\ Len(e) = 0 /\ e = <<>>
  OBVIOUS
<1> HIDE DEF e
<1>3. /\ raw \in Seq(Seq(Unit)) /\ Len(raw) = 1 /\ raw[1] = e /\ DOMAIN raw = {1}
      /\ DOMAIN text = {1} /\ text[1] = e
  BY <1>1, <1>2
<1>4. Segments = {}
  <2>1. \A k \in DOMAIN raw : EndsOf(k) = {}
    BY <1>2, <1>3 DEF EndsOf
  <2>2. QED
    BY <2>1 DEF Segments
<1>5. Scoped(raw, {})
  BY <1>3 DEF Scoped
<1>6. Verdict(raw, {}, FALSE, <<>>)
  BY DEF Verdict
<1>7. Rest(raw, {}) = <<>>
  BY <1>2, <1>3, <1>5, RestEmpty
<1>8. /\ Sanitizer \in Pushes /\ Sanitizer.stopped = FALSE /\ Sanitizer.anchor = <<>>
      /\ Sanitizer.buffer = <<>>
  BY <1>0, <1>1, <1>2 DEF Sanitizer, Pushes, SanitizerBase, SanitizerTypeOK
<1>9. Tracks(raw, Segments, Sanitizer)
  BY <1>4, <1>5, <1>6, <1>7, <1>8 DEF Tracks
<1>10. Expected(raw, Segments, 1) = <<>>
  <2>1. Expected(raw, {}, 1) = Surviving(raw, {}, 1)[0]
    BY <1>2, <1>3 DEF Expected
  <2>2. QED
    BY <1>3, <1>4, <1>5, <2>1, SurvivingUnfolds
<1>11. Streamed(e, e)
  BY <1>2 DEF Streamed, IsPrefix
<1>12. Inside(raw, cuts)
  BY <1>1 DEF Inside
<1>13. QED
  BY <1>2, <1>3, <1>9, <1>10, <1>11, <1>12 DEF Tracked

(* However a reply is cut into chunks, what is streamed is its segments    *)
(* without the leaks and up to a restart: after every unit the buffer, the *)
(* anchor and the flag say exactly what the definition says of what was    *)
(* written so far (push, consume, endStep and emitText).                   *)
THEOREM ChunksAreIrrelevant == SanitizerSpec => []ChunksDoNotMatter
<1>1. Tracked => ChunksDoNotMatter
  BY DEF Tracked, Streamed, ChunksDoNotMatter
<1>2. QED
  BY <1>1, SanitizerInitBase, SanitizerStepBase, TrackedInit, TrackedStep, PTL DEF SanitizerSpec

=============================================================================
