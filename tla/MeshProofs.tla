----------------------------- MODULE MeshProofs -----------------------------
(***************************************************************************)
(* Theorems about MeshDeliver, for every number of sessions, computers,    *)
(* messages and connections, and every cap of the queues.                  *)
(***************************************************************************)
EXTENDS MeshDeliver, SequenceTheorems, WellFoundedInduction, TLAPS

-----------------------------------------------------------------------------
(* Queues.  Without is defined by recursion on the length of the queue: the *)
(* lemmas about it go by the least length for which they would fail.        *)
LEMMA LeastOne ==
    ASSUME NEW T, T \subseteq Nat, T # {}
    PROVE  \E n \in T : \A k \in T : n <= k
  <1>1. PICK n \in T : \A k \in T : <<k, n>> \notin OpToRel(<, Nat)
    BY WFMin, NatLessThanWellFounded, Zenon
  <1>2. \A k \in T : n <= k
    <2> SUFFICES ASSUME NEW k \in T PROVE n <= k
      OBVIOUS
    <2>1. k \in Nat /\ n \in Nat
      OBVIOUS
    <2>2. ASSUME k < n PROVE <<k, n>> \in OpToRel(<, Nat)
      BY <2>1, <2>2 DEF OpToRel
    <2>3. ~(k < n)
      BY <1>1, <2>2, Zenon
    <2> QED
      BY <2>1, <2>3
  <1> QED
    BY <1>2

LEMMA UpTo ==
    ASSUME NEW n \in Nat, NEW T, 0 \in T,
           \A k \in 1..n : k - 1 \in T => k \in T
    PROVE  \A k \in 0..n : k \in T
  <1> SUFFICES ASSUME NEW z \in 0..n, z \notin T PROVE FALSE
    OBVIOUS
  <1> DEFINE U == (0..n) \ T
  <1>1. U \subseteq Nat /\ U # {}
    OBVIOUS
  <1>2. PICK k \in U : \A j \in U : k <= j
    <2> HIDE DEF U
    <2> QED
      BY <1>1, LeastOne
  <1> QED
    BY <1>2

Sifts(q, lost, f, n) ==
    /\ f[0] = <<>>
    /\ \A k \in 1..n :
          f[k] = IF q[k] \in lost THEN f[k - 1] ELSE Append(f[k - 1], q[k])

(* The recursion has a solution, so Without is one's last value.            *)
LEMMA SiftExists ==
    ASSUME NEW S, NEW q \in Seq(S), NEW lost
    PROVE  \E f \in [0..Len(q) -> Seq(S)] : Sifts(q, lost, f, Len(q))
  <1> DEFINE T == {n \in 0..Len(q) : \E f \in [0..n -> Seq(S)] : Sifts(q, lost, f, n)}
  <1>1. 0 \in T
    <2>1. [n \in 0..0 |-> <<>>] \in [0..0 -> Seq(S)]
          /\ Sifts(q, lost, [n \in 0..0 |-> <<>>], 0)
      BY DEF Sifts
    <2> QED
      BY <2>1
  <1>2. ASSUME NEW n \in 1..Len(q), n - 1 \in T PROVE n \in T
    <2>1. PICK f \in [0..(n - 1) -> Seq(S)] : Sifts(q, lost, f, n - 1)
      BY <1>2
    <2> DEFINE next == IF q[n] \in lost THEN f[n - 1] ELSE Append(f[n - 1], q[n])
               g == [k \in 0..n |-> IF k = n THEN next ELSE f[k]]
    <2>2. next \in Seq(S)
      OBVIOUS
    <2>3. g \in [0..n -> Seq(S)]
      BY <2>2
    <2>4. g[n] = next /\ \A k \in 0..(n - 1) : g[k] = f[k]
      OBVIOUS
    <2> HIDE DEF g, next
    <2>5. \A k \in 1..n :
             g[k] = IF q[k] \in lost THEN g[k - 1] ELSE Append(g[k - 1], q[k])
      <3> SUFFICES ASSUME NEW k \in 1..n
                   PROVE  g[k] = IF q[k] \in lost THEN g[k - 1] ELSE Append(g[k - 1], q[k])
        OBVIOUS
      <3>1. g[k - 1] = f[k - 1]
        BY <2>4
      <3>2. CASE k = n
        BY <2>4, <3>1, <3>2 DEF next
      <3>3. CASE k # n
        <4>1. k \in 1..(n - 1) /\ g[k] = f[k]
          BY <2>4, <3>3
        <4> QED
          BY <2>1, <3>1, <4>1 DEF Sifts
      <3> QED
        BY <3>2, <3>3
    <2>6. g[0] = <<>>
      BY <2>1, <2>4 DEF Sifts
    <2>7. Sifts(q, lost, g, n)
      BY <2>5, <2>6 DEF Sifts
    <2> QED
      BY <2>3, <2>7
  <1>3. \A k \in 0..Len(q) : k \in T
    <2>1. Len(q) \in Nat
      BY LenProperties
    <2> HIDE DEF T
    <2> QED
      BY <1>1, <1>2, <2>1, UpTo
  <1> QED
    BY <1>3

Solves(q, lost, f) ==
    f = [n \in 0..Len(q) |->
           IF n = 0 THEN <<>>
           ELSE IF q[n] \in lost THEN f[n - 1]
           ELSE Append(f[n - 1], q[n])]

LEMMA SolutionSifts ==
    ASSUME NEW S, NEW q \in Seq(S), NEW lost, NEW f, Solves(q, lost, f)
    PROVE  f \in [0..Len(q) -> Seq(S)] /\ Sifts(q, lost, f, Len(q))
  <1>0. Len(q) \in Nat
    BY LenProperties
  <1>1. DOMAIN f = 0..Len(q) /\ f = [n \in 0..Len(q) |-> f[n]]
    BY DEF Solves
  <1>2. \A k \in 0..Len(q) :
            f[k] = IF k = 0 THEN <<>>
                   ELSE IF q[k] \in lost THEN f[k - 1] ELSE Append(f[k - 1], q[k])
    BY DEF Solves
  <1>3. Sifts(q, lost, f, Len(q))
    BY <1>0, <1>2 DEF Sifts
  <1>4. \A k \in 0..Len(q) : f[k] \in Seq(S)
    <2> DEFINE T == {k \in 0..Len(q) : f[k] \in Seq(S)}
    <2>0. f[0] = <<>> /\ <<>> \in Seq(S) /\ 0 \in 0..Len(q)
      BY <1>0, <1>3 DEF Sifts
    <2>1. 0 \in T
      BY <2>0
    <2>2. ASSUME NEW k \in 1..Len(q), k - 1 \in T PROVE k \in T
      <3>1. f[k - 1] \in Seq(S) /\ q[k] \in S /\ k \in 0..Len(q)
        BY <1>0, <2>2
      <3>2. f[k] = IF q[k] \in lost THEN f[k - 1] ELSE Append(f[k - 1], q[k])
        BY <1>3 DEF Sifts
      <3>3. Append(f[k - 1], q[k]) \in Seq(S)
        BY <3>1
      <3>4. f[k] \in Seq(S)
        BY <3>1, <3>2, <3>3
      <3> QED
        BY <3>1, <3>4
    <2> HIDE DEF T
    <2>3. \A k \in 0..Len(q) : k \in T
      BY <1>0, <2>1, <2>2, UpTo
    <2> QED
      BY <2>3 DEF T
  <1> QED
    BY <1>1, <1>3, <1>4

LEMMA WithoutSifts ==
    ASSUME NEW S, NEW q \in Seq(S), NEW lost
    PROVE  \E f \in [0..Len(q) -> Seq(S)] :
               Sifts(q, lost, f, Len(q)) /\ Without(q, lost) = f[Len(q)]
  <1> DEFINE f == CHOOSE g : Solves(q, lost, g)
  <1>1. PICK g \in [0..Len(q) -> Seq(S)] : Sifts(q, lost, g, Len(q))
    BY SiftExists
  <1>2. Solves(q, lost, g)
    <2>1. \A k \in 0..Len(q) :
            g[k] = IF k = 0 THEN <<>>
                   ELSE IF q[k] \in lost THEN g[k - 1] ELSE Append(g[k - 1], q[k])
      <3> SUFFICES ASSUME NEW k \in 0..Len(q)
                   PROVE  g[k] = IF k = 0 THEN <<>>
                            ELSE IF q[k] \in lost THEN g[k - 1] ELSE Append(g[k - 1], q[k])
        OBVIOUS
      <3>1. k = 0 \/ k \in 1..Len(q)
        BY LenProperties
      <3> QED
        BY <1>1, <3>1, Zenon DEF Sifts
    <2> QED
      BY <2>1 DEF Solves
  <1>3. Solves(q, lost, f)
    BY <1>2
  <1>4. Without(q, lost) = f[Len(q)]
    BY DEF Without, Solves
  <1> HIDE DEF f
  <1> QED
    BY <1>3, <1>4, SolutionSifts

LEMMA ItemsOfAppend ==
    ASSUME NEW S, NEW q \in Seq(S), NEW m \in S
    PROVE  Items(Append(q, m)) = Items(q) \cup {m}
  <1>1. /\ DOMAIN q = 1..Len(q) /\ Len(q) \in Nat
        /\ DOMAIN Append(q, m) = 1..(Len(q) + 1)
        /\ \A k \in 1..Len(q) : Append(q, m)[k] = q[k]
        /\ Append(q, m)[Len(q) + 1] = m
    OBVIOUS
  <1> HIDE DEF Items
  <1>2. \A k \in 1..(Len(q) + 1) : k \in 1..Len(q) \/ k = Len(q) + 1
    BY <1>1
  <1> QED
    BY <1>1, <1>2 DEF Items

LEMMA AppendBehind ==
    ASSUME NEW S, NEW q \in Seq(S), NEW m \in S, NEW n \in S
    PROVE  Append(<<m>> \o q, n) = <<m>> \o Append(q, n)
  <1>1. <<m>> \in Seq(S) /\ <<n>> \in Seq(S) /\ <<m>> \o q \in Seq(S)
    OBVIOUS
  <1>2. Append(<<m>> \o q, n) = (<<m>> \o q) \o <<n>> /\ Append(q, n) = q \o <<n>>
    BY <1>1, AppendIsConcat
  <1> QED
    BY <1>1, <1>2, ConcatAssociative

(* What is left is a queue, no longer than it was, of the others.           *)
LEMMA WithoutItems ==
    ASSUME NEW S, NEW q \in Seq(S), NEW lost
    PROVE  /\ Without(q, lost) \in Seq(S)
           /\ Len(Without(q, lost)) <= Len(q)
           /\ Items(Without(q, lost)) = Items(q) \ lost
  <1>1. PICK f \in [0..Len(q) -> Seq(S)] :
            Sifts(q, lost, f, Len(q)) /\ Without(q, lost) = f[Len(q)]
    BY WithoutSifts
  <1> DEFINE front(k) == {q[j] : j \in 1..k} \ lost
             T == {k \in 0..Len(q) : Len(f[k]) <= k /\ Items(f[k]) = front(k)}
  <1>2. 0 \in T
    BY <1>1 DEF Sifts, Items
  <1>3. ASSUME NEW k \in 1..Len(q), k - 1 \in T PROVE k \in T
    <2>0. f[k - 1] \in Seq(S) /\ Len(f[k - 1]) <= k - 1 /\ Items(f[k - 1]) = front(k - 1)
          /\ q[k] \in S
      BY <1>3
    <2>1. front(k) = front(k - 1) \cup ({q[k]} \ lost)
      OBVIOUS
    <2>2. CASE q[k] \in lost
      BY <1>1, <2>0, <2>1, <2>2 DEF Sifts
    <2>3. CASE q[k] \notin lost
      <3>1. f[k] = Append(f[k - 1], q[k])
        BY <1>1, <2>3 DEF Sifts
      <3>2. Items(Append(f[k - 1], q[k])) = Items(f[k - 1]) \cup {q[k]}
        BY <2>0, ItemsOfAppend
      <3>3. Len(f[k]) <= k
        BY <2>0, <3>1
      <3>4. Items(f[k]) = front(k)
        BY <2>0, <2>1, <2>3, <3>1, <3>2
      <3>5. k \in 0..Len(q)
        BY LenProperties
      <3> HIDE DEF front
      <3> QED
        BY <3>3, <3>4, <3>5
    <2> QED
      BY <2>2, <2>3
  <1>4. \A k \in 0..Len(q) : k \in T
    <2>1. Len(q) \in Nat
      BY LenProperties
    <2> HIDE DEF T
    <2> QED
      BY <1>2, <1>3, <2>1, UpTo
  <1>5. Len(q) \in T
    <2> HIDE DEF T
    <2> QED
      BY <1>4
  <1>6. front(Len(q)) = Items(q) \ lost
    BY LenProperties DEF Items
  <1> QED
    BY <1>1, <1>5, <1>6

Distinct(q) == \A i, j \in DOMAIN q : q[i] = q[j] => i = j

(* A queue that has a message once has it once or not at all afterwards.    *)
LEMMA WithoutDistinct ==
    ASSUME NEW S, NEW q \in Seq(S), NEW lost, Distinct(q)
    PROVE  Distinct(Without(q, lost))
  <1>1. PICK f \in [0..Len(q) -> Seq(S)] :
            Sifts(q, lost, f, Len(q)) /\ Without(q, lost) = f[Len(q)]
    BY WithoutSifts
  <1> DEFINE T == {k \in 0..Len(q) : /\ Distinct(f[k])
                                     /\ \A i \in DOMAIN f[k] : \E j \in 1..k : f[k][i] = q[j]}
  <1>2. 0 \in T
    BY <1>1 DEF Sifts, Distinct
  <1>3. ASSUME NEW k \in 1..Len(q), k - 1 \in T PROVE k \in T
    <2>1. /\ f[k - 1] \in Seq(S) /\ Distinct(f[k - 1])
          /\ \A i \in DOMAIN f[k - 1] : \E j \in 1..(k - 1) : f[k - 1][i] = q[j]
      BY <1>3
    <2>2. CASE q[k] \in lost
      BY <1>1, <2>1, <2>2 DEF Sifts
    <2>3. CASE q[k] \notin lost
      <3>1. f[k] = Append(f[k - 1], q[k])
        BY <1>1, <2>3 DEF Sifts
      <3>2. \A i \in DOMAIN f[k - 1] : f[k - 1][i] # q[k]
        BY <2>1 DEF Distinct
      <3>3. Distinct(f[k])
        BY <2>1, <3>1, <3>2 DEF Distinct
      <3>4. \A i \in DOMAIN f[k] : \E j \in 1..k : f[k][i] = q[j]
        BY <2>1, <3>1
      <3> QED
        BY <3>3, <3>4
    <2> QED
      BY <2>2, <2>3
  <1>4. \A k \in 0..Len(q) : k \in T
    <2>1. Len(q) \in Nat
      BY LenProperties
    <2> HIDE DEF T
    <2> QED
      BY <1>2, <1>3, <2>1, UpTo
  <1>5. Len(q) \in T
    <2> HIDE DEF T
    <2> QED
      BY <1>4
  <1> QED
    BY <1>1, <1>5

(* When the messages thrown away are the first ones, the rest is left; with *)
(* p = 0 nothing is thrown away.                                            *)
LEMMA WithoutFront ==
    ASSUME NEW S, NEW q \in Seq(S), NEW lost, NEW p \in 0..Len(q),
           \A k \in 1..p : q[k] \in lost,
           \A k \in (p + 1)..Len(q) : q[k] \notin lost
    PROVE  Without(q, lost) = SubSeq(q, p + 1, Len(q))
  <1>1. PICK f \in [0..Len(q) -> Seq(S)] :
            Sifts(q, lost, f, Len(q)) /\ Without(q, lost) = f[Len(q)]
    BY WithoutSifts
  <1> DEFINE T == {k \in 0..Len(q) : f[k] = SubSeq(q, p + 1, k)}
  <1>2. 0 \in T
    BY <1>1 DEF Sifts
  <1>3. ASSUME NEW k \in 1..Len(q), k - 1 \in T PROVE k \in T
    <2>1. f[k - 1] = SubSeq(q, p + 1, k - 1)
      BY <1>3
    <2>2. CASE k <= p
      <3>1. f[k] = f[k - 1]
        BY <1>1, <2>2 DEF Sifts
      <3> QED
        BY <2>1, <2>2, <3>1
    <2>3. CASE k > p
      <3>0. q[k] \notin lost /\ p + 1 \in 1..Len(q) /\ k \in (p + 1)..Len(q) /\ k \in Int
        BY <2>3, LenProperties
      <3>1. f[k] = Append(f[k - 1], q[k])
        BY <1>1, <3>0 DEF Sifts
      <3>2. SubSeq(q, p + 1, k) = SubSeq(q, p + 1, k - 1) \o <<q[k]>>
        BY <3>0, SubSeqRecursiveSecond
      <3>3. SubSeq(q, p + 1, k - 1) \in Seq(S) /\ q[k] \in S
        BY <2>1
      <3>4. Append(SubSeq(q, p + 1, k - 1), q[k]) = SubSeq(q, p + 1, k - 1) \o <<q[k]>>
        BY <3>3, AppendIsConcat
      <3>5. f[k] = SubSeq(q, p + 1, k) /\ k \in 0..Len(q)
        BY <2>1, <3>1, <3>2, <3>4, LenProperties
      <3> QED
        BY <3>5
    <2> QED
      BY <2>2, <2>3
  <1>4. \A k \in 0..Len(q) : k \in T
    <2>1. Len(q) \in Nat
      BY LenProperties
    <2> HIDE DEF T
    <2> QED
      BY <1>2, <1>3, <2>1, UpTo
  <1>5. Len(q) \in T
    <2> HIDE DEF T
    <2> QED
      BY <1>4
  <1> QED
    BY <1>1, <1>5

(* Only whether a message of the queue is thrown away matters ...           *)
LEMMA WithoutAgrees ==
    ASSUME NEW S, NEW q \in Seq(S), NEW lost, NEW lost2,
           \A m \in Items(q) : m \in lost <=> m \in lost2
    PROVE  Without(q, lost) = Without(q, lost2)
  <1>1. PICK f \in [0..Len(q) -> Seq(S)] :
            Sifts(q, lost, f, Len(q)) /\ Without(q, lost) = f[Len(q)]
    BY WithoutSifts
  <1>2. PICK g \in [0..Len(q) -> Seq(S)] :
            Sifts(q, lost2, g, Len(q)) /\ Without(q, lost2) = g[Len(q)]
    BY WithoutSifts
  <1> DEFINE T == {k \in 0..Len(q) : f[k] = g[k]}
  <1>3. 0 \in T
    BY <1>1, <1>2 DEF Sifts
  <1>4. ASSUME NEW k \in 1..Len(q), k - 1 \in T PROVE k \in T
    <2>1. q[k] \in lost <=> q[k] \in lost2
      BY DEF Items
    <2> QED
      BY <1>1, <1>2, <1>4, <2>1 DEF Sifts
  <1>5. \A k \in 0..Len(q) : k \in T
    <2>1. Len(q) \in Nat
      BY LenProperties
    <2> HIDE DEF T
    <2> QED
      BY <1>3, <1>4, <2>1, UpTo
  <1>6. Len(q) \in T
    <2> HIDE DEF T
    <2> QED
      BY <1>5
  <1> QED
    BY <1>1, <1>2, <1>6

(* ... and a message in front that is kept stays in front.                  *)
LEMMA WithoutBehind ==
    ASSUME NEW S, NEW q \in Seq(S), NEW lost, NEW m \in S, m \notin lost
    PROVE  Without(<<m>> \o q, lost) = <<m>> \o Without(q, lost)
  <1> DEFINE r == <<m>> \o q
  <1>0. /\ r \in Seq(S) /\ Len(r) = Len(q) + 1 /\ r[1] = m
        /\ \A k \in 1..Len(q) : r[k + 1] = q[k]
    OBVIOUS
  <1> HIDE DEF r
  <1>1. PICK f \in [0..Len(q) -> Seq(S)] :
            Sifts(q, lost, f, Len(q)) /\ Without(q, lost) = f[Len(q)]
    BY WithoutSifts
  <1>2. PICK g \in [0..Len(r) -> Seq(S)] :
            Sifts(r, lost, g, Len(r)) /\ Without(r, lost) = g[Len(r)]
    BY <1>0, WithoutSifts
  <1> DEFINE T == {k \in 0..Len(q) : g[k + 1] = <<m>> \o f[k]}
  <1>3. 0 \in T
    <2>1. 1 \in 1..Len(r) /\ r[1] \notin lost
      BY <1>0, LenProperties
    <2>2. g[0] = <<>> /\ f[0] = <<>> /\ g[1] = Append(g[1 - 1], r[1])
      BY <1>1, <1>2, <2>1 DEF Sifts
    <2>3. Append(<<>>, m) = <<m>> /\ <<m>> \o <<>> = <<m>>
      OBVIOUS
    <2>4. g[0 + 1] = <<m>> \o f[0]
      BY <1>0, <2>2, <2>3
    <2> QED
      BY <2>4, LenProperties
  <1>4. ASSUME NEW k \in 1..Len(q), k - 1 \in T PROVE k \in T
    <2>0. k \in Int /\ (k - 1) + 1 = k /\ k - 1 \in 0..Len(q)
      BY LenProperties
    <2>1. g[k] = <<m>> \o f[k - 1] /\ f[k - 1] \in Seq(S) /\ q[k] \in S
      <3>1. g[(k - 1) + 1] = <<m>> \o f[k - 1]
        BY <1>4, Zenon
      <3>2. g[(k - 1) + 1] = g[k]
        BY <2>0, Zenon
      <3>3. f[k - 1] \in Seq(S)
        <4> HIDE DEF T
        <4> QED
          BY <2>0
      <3>4. q[k] \in S
        BY ElementOfSeq
      <3> QED
        BY <3>1, <3>2, <3>3, <3>4, Zenon
    <2>2. g[k + 1] = IF q[k] \in lost THEN g[k] ELSE Append(g[k], q[k])
      <3>1. k + 1 \in 1..Len(r) /\ (k + 1) - 1 = k
        BY <1>0
      <3> QED
        BY <1>0, <1>2, <3>1 DEF Sifts
    <2>3. f[k] = IF q[k] \in lost THEN f[k - 1] ELSE Append(f[k - 1], q[k])
      BY <1>1 DEF Sifts
    <2>4. Append(<<m>> \o f[k - 1], q[k]) = <<m>> \o Append(f[k - 1], q[k])
      BY <2>1, AppendBehind
    <2>5. g[k + 1] = <<m>> \o f[k]
      BY <2>1, <2>2, <2>3, <2>4
    <2> QED
      BY <2>0, <2>5
  <1>5. \A k \in 0..Len(q) : k \in T
    <2>1. Len(q) \in Nat
      BY LenProperties
    <2> HIDE DEF T
    <2> QED
      BY <1>3, <1>4, <2>1, UpTo
  <1>6. Len(q) \in T
    <2> HIDE DEF T
    <2> QED
      BY <1>5
  <1> QED
    BY <1>0, <1>1, <1>2, <1>6 DEF r


LEMMA WithoutNone ==
    ASSUME NEW S, NEW q \in Seq(S), NEW lost, \A m \in Items(q) : m \notin lost
    PROVE  Without(q, lost) = q
  <1>0. Len(q) \in Nat /\ DOMAIN q = 1..Len(q)
    BY LenProperties
  <1>1. Without(q, lost) = SubSeq(q, 0 + 1, Len(q))
    BY <1>0, WithoutFront DEF Items
  <1>2. SubSeq(q, 1, Len(q)) = q
    BY <1>0
  <1> QED
    BY <1>1, <1>2

LEMMA WithoutAll ==
    ASSUME NEW S, NEW q \in Seq(S), NEW lost, \A m \in Items(q) : m \in lost
    PROVE  Without(q, lost) = <<>>
  <1>0. Len(q) \in Nat /\ DOMAIN q = 1..Len(q)
    BY LenProperties
  <1>1. Without(q, lost) = SubSeq(q, Len(q) + 1, Len(q))
    BY <1>0, WithoutFront DEF Items
  <1>2. SubSeq(q, Len(q) + 1, Len(q)) = <<>>
    BY <1>0, SubSeqEmpty
  <1> QED
    BY <1>1, <1>2

LEMMA WithoutHead ==
    ASSUME NEW S, NEW q \in Seq(S), NEW lost, NEW m \in S, m \in lost,
           \A n \in Items(q) : n \notin lost
    PROVE  Without(<<m>> \o q, lost) = q
  <1> DEFINE r == <<m>> \o q
  <1>0. /\ r \in Seq(S) /\ Len(r) = Len(q) + 1 /\ r[1] = m
        /\ \A k \in 1..Len(q) : r[k + 1] = q[k]
        /\ Len(q) \in Nat /\ DOMAIN q = 1..Len(q)
    OBVIOUS
  <1> HIDE DEF r
  <1>1. \A k \in 2..(Len(q) + 1) : r[k] \notin lost
    <2> SUFFICES ASSUME NEW k \in 2..(Len(q) + 1) PROVE r[k] \notin lost
      OBVIOUS
    <2>1. PICK i \in 1..Len(q) : k = i + 1
      BY <1>0
    <2> QED
      BY <1>0, <2>1 DEF Items
  <1>2. Without(r, lost) = SubSeq(r, 1 + 1, Len(r))
    <2>1. \A k \in 1..1 : r[k] \in lost
      BY <1>0
    <2>2. \A k \in (1 + 1)..Len(r) : r[k] \notin lost
      BY <1>0, <1>1
    <2>3. 1 \in 0..Len(r)
      BY <1>0
    <2> QED
      BY <1>0, <2>1, <2>2, <2>3, WithoutFront
  <1>3. SubSeq(r, 2, Len(r)) = q
    <2>1. \A i \in 2..Len(r) : r[i] \in S
      BY <1>0
    <2>2. /\ SubSeq(r, 2, Len(r)) \in Seq(S)
          /\ Len(SubSeq(r, 2, Len(r))) = Len(q)
          /\ \A i \in 1..Len(q) : SubSeq(r, 2, Len(r))[i] = r[1 + i]
      BY <1>0, <2>1, SubSeqProperties
    <2>3. \A i \in 1..Len(q) : r[1 + i] = q[i]
      BY <1>0
    <2> QED
      BY <1>0, <2>2, <2>3, SeqEqual
  <1>4. Without(r, lost) = q
    BY <1>2, <1>3
  <1> QED
    BY <1>4 DEF r

(* The end of a queue from one place on is the message there and the rest.  *)
LEMMA EndFrom ==
    ASSUME NEW S, NEW q \in Seq(S), NEW p \in 1..Len(q)
    PROVE  SubSeq(q, p, Len(q)) = <<q[p]>> \o SubSeq(q, p + 1, Len(q))
  OBVIOUS
-----------------------------------------------------------------------------
(* OneAtATime is not inductive: that a thread with nothing in hand takes    *)
(* something, and that a thread at work has something to finish, depends on *)
(* where the thread is.                                                     *)
HandsInv ==
    /\ pc \in [Threads -> {"ready", "take", "job", "typing", "done"}]
    /\ jobs \in [Threads -> SUBSET UNION {jobs[a] : a \in Threads}]
    /\ \A a \in Threads : \A j \in jobs[a] : j.to \in Sessions
    /\ \A a \in Threads : jobs[a] = {} <=> pc[a] \in {"ready", "take"}

MarkInv == HandsInv /\ OneAtATime

LEMMA ThreadFacts ==
    /\ Link \in Threads /\ Ticker \in Threads /\ Clients \subseteq Threads
    /\ Link # Ticker /\ Ticker \notin Clients
  BY ThreadAssumption DEF Threads

(* A thread that has jobs has one for the least session.                    *)
LEMMA CurrentIsAJob ==
    ASSUME NEW a \in Threads, HandsInv, jobs[a] # {}
    PROVE  Current(a) \in jobs[a]
  <1> DEFINE T == {j.to : j \in jobs[a]}
  <1>1. T \subseteq Nat /\ T # {}
    BY SessionAssumption DEF HandsInv
  <1>2. PICK n \in T : \A k \in T : <<k, n>> \notin OpToRel(<, Nat)
    <2> HIDE DEF T
    <2> QED
      BY <1>1, WFMin, NatLessThanWellFounded, Zenon
  <1>3. \A k \in T : n <= k
    <2> SUFFICES ASSUME NEW k \in T PROVE n <= k
      OBVIOUS
    <2> HIDE DEF T
    <2>1. k \in Nat /\ n \in Nat
      BY <1>1
    <2>2. ASSUME k < n PROVE <<k, n>> \in OpToRel(<, Nat)
      BY <2>1, <2>2 DEF OpToRel
    <2>3. ~(k < n)
      BY <1>2, <2>2, Zenon
    <2> QED
      BY <2>1, <2>3
  <1>4. PICK j \in jobs[a] : j.to = n
    OBVIOUS
  <1>5. \A k \in jobs[a] : j.to <= k.to
    BY <1>3, <1>4
  <1> QED
    BY <1>5 DEF Current

LEMMA MarkInit == Init => MarkInv
  BY DEF Init, MarkInv, HandsInv, OneAtATime

(* A thread with empty hands takes one message for a session nobody types   *)
(* into.                                                                    *)
LEMMA TakesKeeps ==
    ASSUME NEW a \in Threads, NEW m, NEW s \in Sessions,
           MarkInv, pc[a] = "ready", Takes(a, m, s)
    PROVE  MarkInv'
  <1>1. CASE TypesAtOnce(s)
    <2> DEFINE new == [to |-> s, msg |-> m]
    <2>1. /\ inFlight' = inFlight \cup {s} /\ s \notin inFlight
          /\ jobs' = [jobs EXCEPT ![a] = {new}]
          /\ pc' = [pc EXCEPT ![a] = "job"]
      BY <1>1 DEF Takes, TypesAtOnce
    <2>2. jobs[a] = {} /\ new.to = s
      BY DEF MarkInv, HandsInv
    <2> HIDE DEF new
    <2>3. jobs'[a] = {new} /\ \A b \in Threads \ {a} : jobs'[b] = jobs[b]
      BY <2>1 DEF MarkInv, HandsInv
    <2>4. HandsInv'
      BY <2>1, <2>2, <2>3 DEF MarkInv, HandsInv
    <2>5. \A b \in Threads : \A j \in jobs[b] : j.to # s
      BY <2>1 DEF MarkInv, OneAtATime
    <2>6. inFlight' = {j.to : j \in UNION {jobs'[b] : b \in Threads}}
      BY <2>1, <2>2, <2>3 DEF MarkInv, OneAtATime
    <2>7. \A b, c \in Threads : \A j \in jobs'[b], k \in jobs'[c] :
             j.to = k.to => b = c /\ j = k
      BY <2>2, <2>3, <2>5 DEF MarkInv, OneAtATime
    <2> QED
      BY <2>4, <2>6, <2>7 DEF MarkInv, OneAtATime
  <1>2. CASE ~TypesAtOnce(s)
    BY <1>2 DEF Takes, threadVars, MarkInv, HandsInv, OneAtATime
  <1> QED
    BY <1>1, <1>2

LEMMA DecideKeeps ==
    ASSUME NEW a \in Threads, NEW m, MarkInv, pc[a] = "ready", Decide(a, m)
    PROVE  MarkInv'
  <1>1. ASSUME NEW r, Reply(m, r) PROVE MarkInv'
    BY <1>1 DEF Reply, threadVars, MarkInv, HandsInv, OneAtATime
  <1> QED
    BY <1>1, TakesKeeps DEF Decide

LEMMA TickTakesKeeps ==
    ASSUME MarkInv, TickTakes
    PROVE  MarkInv'
  <1> DEFINE taken == {s \in Sessions : Free(s) /\ Welcome(s) # {}}
             job(s) == [to |-> s, msg |-> queue[s][First(s)]]
             new == {job(s) : s \in taken}
  <1>1. /\ jobs' = [jobs EXCEPT ![Ticker] = new]
        /\ inFlight' = inFlight \cup taken
        /\ pc' = [pc EXCEPT ![Ticker] = IF taken = {} THEN "ready" ELSE "job"]
    BY DEF TickTakes
  <1>2. taken \subseteq Sessions \ inFlight
    BY DEF Free
  <1>3. /\ taken = {j.to : j \in new}
        /\ \A j, k \in new : j.to = k.to => j = k
        /\ new = {} <=> taken = {}
    <2>1. \A s \in taken : job(s) \in new /\ job(s).to = s
      OBVIOUS
    <2>2. \A j \in new : \E s \in taken : j = job(s)
      OBVIOUS
    <2> HIDE DEF job, new, taken
    <2> QED
      BY <2>1, <2>2
  <1>4. jobs[Ticker] = {}
    BY ThreadFacts DEF TickTakes, MarkInv, HandsInv
  <1> HIDE DEF taken, new
  <1>5. jobs'[Ticker] = new /\ \A b \in Threads \ {Ticker} : jobs'[b] = jobs[b]
    BY <1>1, ThreadFacts DEF MarkInv, HandsInv
  <1>6. HandsInv'
    <2>1. \A b \in Threads : \A j \in jobs'[b] : j.to \in Sessions
      BY <1>2, <1>3, <1>5 DEF MarkInv, HandsInv
    <2>2. \A b \in Threads : jobs'[b] = {} <=> pc'[b] \in {"ready", "take"}
      BY <1>1, <1>3, <1>5, ThreadFacts DEF MarkInv, HandsInv
    <2> QED
      BY <1>1, <1>5, <2>1, <2>2, ThreadFacts DEF MarkInv, HandsInv
  <1>7. \A b \in Threads : \A j \in jobs[b] : j.to \in inFlight
    BY DEF MarkInv, OneAtATime
  <1>8. inFlight' = {j.to : j \in UNION {jobs'[b] : b \in Threads}}
    BY <1>1, <1>3, <1>4, <1>5, ThreadFacts DEF MarkInv, OneAtATime
  <1>9. \A b, c \in Threads : \A j \in jobs'[b], k \in jobs'[c] :
           j.to = k.to => b = c /\ j = k
    BY <1>2, <1>3, <1>5, <1>7 DEF MarkInv, OneAtATime
  <1> QED
    BY <1>6, <1>8, <1>9 DEF MarkInv, OneAtATime

(* A thread keeps only the jobs in rest, and gives up the others with the   *)
(* marks of their sessions.                                                 *)
GivesUp(a, rest, l) ==
    /\ jobs' = [jobs EXCEPT ![a] = rest]
    /\ \A s : s \in inFlight' <=>
              s \in inFlight /\ ~\E j \in jobs[a] \ rest : j.to = s
    /\ pc' = [pc EXCEPT ![a] = l]
    /\ l \in {"ready", "job"}
    /\ rest = {} <=> l = "ready"

LEMMA GivingUpKeeps ==
    ASSUME NEW a \in Threads, NEW rest \in SUBSET jobs[a], NEW l,
           MarkInv, GivesUp(a, rest, l)
    PROVE  MarkInv'
  <1> USE DEF GivesUp
  <1>1. jobs'[a] = rest /\ \A b \in Threads \ {a} : jobs'[b] = jobs[b]
    BY DEF MarkInv, HandsInv
  <1>2. HandsInv'
    BY <1>1 DEF MarkInv, HandsInv
  <1>3. \A b \in Threads : jobs'[b] \subseteq jobs[b]
    BY <1>1
  <1>4. \A b, c \in Threads : \A j \in jobs'[b], k \in jobs'[c] :
           j.to = k.to => b = c /\ j = k
    BY <1>3 DEF MarkInv, OneAtATime
  <1>5. \A b \in Threads : \A j \in jobs'[b] : j.to \in inFlight'
    BY <1>1 DEF MarkInv, OneAtATime
  <1>6. \A s \in inFlight' : \E b \in Threads : \E j \in jobs'[b] : j.to = s
    BY <1>1 DEF MarkInv, OneAtATime
  <1> QED
    BY <1>2, <1>4, <1>5, <1>6 DEF MarkInv, OneAtATime

LEMMA WorksKeeps ==
    ASSUME NEW a \in Threads, MarkInv, Works(a)
    PROVE  MarkInv'
  <1>1. ASSUME Submit(a) \/ Types(a) \/ TypeFails(a) PROVE MarkInv'
    <2>1. /\ jobs' = jobs /\ inFlight' = inFlight
          /\ pc[a] \in {"job", "typing"}
          /\ \E l \in {"typing", "done"} : pc' = [pc EXCEPT ![a] = l]
      BY <1>1 DEF Submit, Types, TypeFails, mailVars
    <2> QED
      BY <2>1 DEF MarkInv, HandsInv, OneAtATime
  <1>2. CASE Panics(a)
    <2>1. GivesUp(a, {}, "ready") /\ {} \in SUBSET jobs[a]
      BY <1>2 DEF Panics, GivesUp
    <2> QED
      BY <2>1, GivingUpKeeps
  <1>3. CASE Finish(a)
    <2> DEFINE j == Current(a)
               rest == jobs[a] \ {j}
    <2>1. j \in jobs[a]
      BY <1>3, CurrentIsAJob DEF Finish, MarkInv, HandsInv
    <2>2. /\ jobs' = [jobs EXCEPT ![a] = rest]
          /\ inFlight' = inFlight \ {j.to}
          /\ pc' = [pc EXCEPT ![a] = IF jobs[a] = {j} THEN "ready" ELSE "job"]
      BY <1>3 DEF Finish, MarkInv, HandsInv
    <2> HIDE DEF j
    <2>3. \A s : s \in inFlight' <=>
            s \in inFlight /\ ~\E k \in jobs[a] \ rest : k.to = s
      BY <2>1, <2>2
    <2>4. rest = {} <=> jobs[a] = {j}
      BY <2>1
    <2>5. GivesUp(a, rest, IF jobs[a] = {j} THEN "ready" ELSE "job")
      BY <2>2, <2>3, <2>4 DEF GivesUp
    <2> QED
      BY <2>5, GivingUpKeeps
  <1> QED
    BY <1>1, <1>2, <1>3 DEF Works

LEMMA MarkStep == MarkInv /\ [Next]_vars => MarkInv'
  <1> SUFFICES ASSUME MarkInv, [Next]_vars PROVE MarkInv'
    OBVIOUS
  <1>1. ASSUME UNCHANGED <<inFlight, pc, jobs>> PROVE MarkInv'
    BY <1>1 DEF MarkInv, HandsInv, OneAtATime
  <1>2. ASSUME NEW m \in Messages, Receive(m) PROVE MarkInv'
    BY <1>2, ThreadFacts, DecideKeeps DEF Receive
  <1>3. ASSUME NEW c \in Clients, NEW m \in Messages, SendHere(c, m)
        PROVE  MarkInv'
    BY <1>3, ThreadFacts, DecideKeeps DEF SendHere
  <1>4. CASE TickChecks
    BY <1>4, ThreadFacts
       DEF TickChecks, mailVars, MarkInv, HandsInv, OneAtATime
  <1>5. CASE TickTakes
    BY <1>5, TickTakesKeeps
  <1>6. ASSUME NEW a \in Threads, Works(a) PROVE MarkInv'
    BY <1>6, WorksKeeps
  <1>7. ASSUME NEW s \in Sessions, SessionChanges(s) PROVE MarkInv'
    BY <1>1, <1>7 DEF SessionChanges, mailVars, threadVars
  <1>8. ASSUME NEW new \in SUBSET Peers, Commit(new) PROVE MarkInv'
    BY <1>1, <1>8 DEF Commit, threadVars
  <1>9. CASE DrainStarts \/ DrainCancelled \/ CopyHeld \/ SwapFails \/ Exit
    BY <1>1, <1>9
       DEF DrainStarts, DrainCancelled, CopyHeld, SwapFails, Exit, Restart,
           mailVars, threadVars
  <1>10. CASE UNCHANGED vars
    BY <1>1, <1>10 DEF vars, mailVars, threadVars
  <1> QED
    BY <1>2, <1>3, <1>4, <1>5, <1>6, <1>7, <1>8, <1>9, <1>10 DEF Next

(* Two threads never have a message for the same session in hand, and a     *)
(* session is marked in in_flight exactly as long as one has: no two        *)
(* messages are typed into one another, and after a panic no mark is left   *)
(* that would keep a session from ever being served again.                  *)
THEOREM OneTypist == Spec => []OneAtATime
  <1>1. Spec => []MarkInv
    BY MarkInit, MarkStep, PTL DEF Spec
  <1>2. MarkInv => OneAtATime
    BY DEF MarkInv
  <1> QED
    BY <1>1, <1>2, PTL

-----------------------------------------------------------------------------
(* Every variable keeps its type; in particular no queue is longer than the *)
(* cap, whoever puts messages in.                                           *)
TurnedDown == {"Refused", "SessionStopped", "NoSuchSession"}

(* What becomes of a message: it is turned down, or taken.                  *)
LEMMA DecideCases ==
    ASSUME NEW a, NEW m, Decide(a, m)
    PROVE  \/ \E r \in TurnedDown : Reply(m, r)
           \/ \E s \in Sessions : Takes(a, m, s) /\ (TypesAtOnce(s) \/ ~Full(s))
  BY DEF Decide, TurnedDown

LEMMA CurrentFacts ==
    ASSUME NEW a \in Threads, MarkInv, TypeOK, pc[a] \in {"job", "typing", "done"}
    PROVE  /\ Current(a) \in jobs[a]
           /\ Current(a).to \in Sessions /\ Current(a).msg \in Messages
  <1>1. jobs[a] # {}
    BY DEF MarkInv, HandsInv
  <1>2. Current(a) \in jobs[a]
    BY <1>1, CurrentIsAJob DEF MarkInv
  <1>3. Current(a) \in Job
    BY <1>2 DEF TypeOK
  <1> QED
    BY <1>2, <1>3 DEF Job

LEMMA FirstIsWelcome ==
    ASSUME TypeOK, NEW s \in Sessions, Welcome(s) # {}
    PROVE  /\ First(s) \in 1..Len(queue[s])
           /\ Sender[queue[s][First(s)]] \in members
           /\ \A k \in 1..(First(s) - 1) : Sender[queue[s][k]] \notin members
  <1>1. Welcome(s) \subseteq 1..Len(queue[s]) /\ Len(queue[s]) \in Nat
    BY DEF TypeOK, Welcome
  <1>2. \E k \in Welcome(s) : \A j \in Welcome(s) : k <= j
    <2>1. Welcome(s) \subseteq Nat
      BY <1>1
    <2> QED
      BY <2>1, LeastOne
  <1>3. First(s) \in Welcome(s) /\ \A j \in Welcome(s) : First(s) <= j
    BY <1>2 DEF First
  <1>4. First(s) \in 1..Len(queue[s])
    BY <1>1, <1>3
  <1>5. \A k \in 1..(First(s) - 1) : k \notin Welcome(s) /\ k \in DOMAIN queue[s]
    BY <1>1, <1>3, <1>4 DEF TypeOK
  <1> QED
    BY <1>3, <1>4, <1>5 DEF Welcome

(* What the delivery thread leaves in each queue is the end of it.          *)
LEMMA TickLeaves ==
    ASSUME TypeOK, TickTakes, NEW s \in Sessions
    PROVE  /\ queue'[s] \in Seq(Messages)
           /\ Len(queue'[s]) <= Len(queue[s])
           /\ Items(queue'[s]) \subseteq Items(queue[s])
  <1> DEFINE taken == {t \in Sessions : Free(t) /\ Welcome(t) # {}}
  <1>1. queue'[s] = IF s \in taken
                    THEN SubSeq(queue[s], First(s) + 1, Len(queue[s]))
                    ELSE IF Ended(s) \/ Free(s) THEN <<>> ELSE queue[s]
    BY DEF TickTakes
  <1>0. queue[s] \in Seq(Messages) /\ Len(queue[s]) \in Nat
    BY DEF TypeOK
  <1>2. CASE s \in taken
    <2> DEFINE p == First(s)
               q == queue[s]
    <2>1. p \in 1..Len(q)
      BY <1>2, FirstIsWelcome
    <2>2. queue'[s] = SubSeq(q, p + 1, Len(q))
      BY <1>1, <1>2
    <2> HIDE DEF p
    <2>3. \A i \in (p + 1)..Len(q) : q[i] \in Messages
      BY <1>0, <2>1
    <2>4. /\ SubSeq(q, p + 1, Len(q)) \in Seq(Messages)
          /\ Len(SubSeq(q, p + 1, Len(q))) = Len(q) - p
          /\ \A i \in 1..(Len(q) - p) : SubSeq(q, p + 1, Len(q))[i] = q[p + i]
      BY <1>0, <2>1, <2>3, SubSeqProperties
    <2>5. \A i \in 1..(Len(q) - p) : p + i \in DOMAIN q
      BY <1>0, <2>1
    <2> QED
      BY <1>0, <2>1, <2>2, <2>4, <2>5 DEF Items
  <1>3. CASE s \notin taken
    <2>1. queue'[s] = <<>> \/ queue'[s] = queue[s]
      BY <1>1, <1>3
    <2>2. <<>> \in Seq(Messages) /\ Len(<<>>) = 0 /\ Items(<<>>) = {}
      BY DEF Items
    <2>3. CASE queue'[s] = <<>>
      <3>1. 0 <= Len(queue[s])
        BY <1>0
      <3> QED
        BY <2>2, <2>3, <3>1, Zenon
    <2>4. CASE queue'[s] = queue[s]
      <3>1. Len(queue[s]) <= Len(queue[s])
        BY <1>0
      <3> QED
        BY <1>0, <2>4, <3>1, Zenon
    <2> QED
      BY <2>1, <2>3, <2>4, Zenon
  <1> QED
    BY <1>2, <1>3

LEMMA TypeInit == Init => TypeOK
  BY PeopleAssumption, CapAssumption
     DEF Init, TypeOK, Board, Receipts

LEMMA TakesTypes ==
    ASSUME NEW a \in Threads, NEW m \in Messages, TypeOK, Decide(a, m),
           UNCHANGED worldVars, UNCHANGED <<typed, turnedAway>>, seen' \subseteq Messages
    PROVE  TypeOK'
  <1> USE DEF TypeOK, worldVars, threadVars
  <1>1. ASSUME NEW r \in TurnedDown, Reply(m, r) PROVE TypeOK'
    BY <1>1 DEF Reply, TurnedDown, Receipts
  <1>2. ASSUME NEW s \in Sessions, Takes(a, m, s), TypesAtOnce(s) PROVE TypeOK'
    <2>1. [to |-> s, msg |-> m] \in Job
      BY DEF Job
    <2>2. /\ jobs' = [jobs EXCEPT ![a] = {[to |-> s, msg |-> m]}]
          /\ pc' = [pc EXCEPT ![a] = "job"] /\ UNCHANGED <<queue, answer, result>>
          /\ inFlight' = inFlight \cup {s} /\ accepted' = accepted \cup {m}
      BY <1>2 DEF Takes
    <2>3. jobs' \in [Threads -> SUBSET Job]
      BY <2>1, <2>2
    <2> QED
      BY <2>2, <2>3
  <1>3. ASSUME NEW s \in Sessions, Takes(a, m, s), ~TypesAtOnce(s), ~Full(s)
        PROVE  TypeOK'
    <2>1. queue' = [queue EXCEPT ![s] = Append(queue[s], m)]
          /\ UNCHANGED <<inFlight, pc, jobs, result>>
          /\ answer' = [answer EXCEPT ![m] = "Queued"] /\ accepted' = accepted \cup {m}
      BY <1>3 DEF Takes
    <2>2. Append(queue[s], m) \in Seq(Messages)
          /\ Len(Append(queue[s], m)) = Len(queue[s]) + 1
      OBVIOUS
    <2>3. Len(queue[s]) + 1 <= QueueCap
      BY <1>3, CapAssumption DEF Full
    <2>4. queue' \in [Sessions -> Seq(Messages)]
          /\ \A t \in Sessions : Len(queue'[t]) <= QueueCap
      BY <2>1, <2>2, <2>3
    <2> QED
      BY <2>1, <2>4 DEF Receipts
  <1> QED
    BY <1>1, <1>2, <1>3, DecideCases

LEMMA TypeStep == MarkInv /\ TypeOK /\ [Next]_vars => TypeOK'
  <1> SUFFICES ASSUME MarkInv, TypeOK, [Next]_vars PROVE TypeOK'
    OBVIOUS
  <1> USE ThreadFacts DEF mailVars, threadVars, worldVars, history
  <1>1. ASSUME NEW m \in Messages, Receive(m) PROVE TypeOK'
    <2>1. seen' \subseteq Messages
      BY <1>1 DEF Receive, TypeOK
    <2> QED
      BY <1>1, <2>1, TakesTypes DEF Receive
  <1>2. ASSUME NEW c \in Clients, NEW m \in Messages, SendHere(c, m) PROVE TypeOK'
    <2>1. seen' \subseteq Messages
      BY <1>2 DEF SendHere, TypeOK
    <2> QED
      BY <1>2, <2>1, TakesTypes DEF SendHere
  <1>3. CASE TickChecks
    BY <1>3 DEF TickChecks, TypeOK
  <1>4. CASE TickTakes
    <2> DEFINE taken == {t \in Sessions : Free(t) /\ Welcome(t) # {}}
               new == {[to |-> t, msg |-> queue[t][First(t)]] : t \in taken}
    <2>1. new \subseteq Job
      <3> SUFFICES ASSUME NEW t \in taken
                   PROVE  [to |-> t, msg |-> queue[t][First(t)]] \in Job
        OBVIOUS
      <3>1. First(t) \in 1..Len(queue[t]) /\ queue[t] \in Seq(Messages)
        BY FirstIsWelcome DEF TypeOK
      <3> QED
        BY <3>1 DEF Job
    <2>2. jobs' = [jobs EXCEPT ![Ticker] = new] /\ inFlight' \subseteq Sessions
          /\ pc' = [pc EXCEPT ![Ticker] = IF taken = {} THEN "ready" ELSE "job"]
      BY <1>4 DEF TickTakes, TypeOK
    <2> HIDE DEF new
    <2>3. jobs' \in [Threads -> SUBSET Job]
      BY <2>1, <2>2 DEF TypeOK
    <2>4. queue' \in [Sessions -> Seq(Messages)]
          /\ \A s \in Sessions : Len(queue'[s]) <= QueueCap
      <3>1. queue' = [s \in Sessions |-> queue'[s]]
        BY <1>4 DEF TickTakes
      <3>2. \A s \in Sessions : queue'[s] \in Seq(Messages) /\ Len(queue'[s]) <= Len(queue[s])
        BY <1>4, TickLeaves
      <3>3. \A s \in Sessions : Len(queue'[s]) \in Nat /\ Len(queue[s]) \in Nat
        BY <3>2 DEF TypeOK
      <3> QED
        BY <3>1, <3>2, <3>3, CapAssumption DEF TypeOK
    <2>5. pc' \in [Threads -> {"ready", "take", "job", "typing", "done"}]
      BY <2>2 DEF TypeOK
    <2> QED
      BY <1>4, <2>2, <2>3, <2>4, <2>5 DEF TickTakes, TypeOK
  <1>5. ASSUME NEW a \in Threads, Submit(a) PROVE TypeOK'
    <2>1. Current(a).msg \in Messages
      BY <1>5, CurrentFacts DEF Submit
    <2> QED
      BY <1>5, <2>1 DEF Submit, TypeOK
  <1>6. ASSUME NEW a \in Threads, Types(a) PROVE TypeOK'
    <2>1. Current(a).msg \in Messages /\ Current(a).to \in Sessions
      BY <1>6, CurrentFacts DEF Types
    <2> QED
      BY <1>6, <2>1 DEF Types, TypeOK, Board
  <1>7. ASSUME NEW a \in Threads, TypeFails(a) \/ Panics(a) PROVE TypeOK'
    BY <1>7 DEF TypeFails, Panics, TypeOK
  <1>8. ASSUME NEW a \in Threads, Finish(a) PROVE TypeOK'
    <2>1. Current(a).msg \in Messages
      BY <1>8, CurrentFacts DEF Finish
    <2> QED
      BY <1>8, <2>1 DEF Finish, ReceiptOf, Receipts, TypeOK
  <1>9. ASSUME NEW s \in Sessions, SessionChanges(s) PROVE TypeOK'
    BY <1>9 DEF SessionChanges, TypeOK, Board
  <1>10. ASSUME NEW new \in SUBSET Peers, Commit(new) PROVE TypeOK'
    <2> DEFINE removed == {m \in Messages : Sender[m] \notin new}
    <2>1. queue' = [s \in Sessions |-> Without(queue[s], removed)]
      BY <1>10 DEF Commit
    <2> HIDE DEF removed
    <2>2. \A s \in Sessions : Without(queue[s], removed) \in Seq(Messages)
                              /\ Len(Without(queue[s], removed)) <= Len(queue[s])
      BY WithoutItems DEF TypeOK
    <2>3. \A s \in Sessions : Len(Without(queue[s], removed)) \in Nat /\ Len(queue[s]) \in Nat
      BY <2>2 DEF TypeOK
    <2>4. queue' \in [Sessions -> Seq(Messages)]
          /\ \A s \in Sessions : Len(queue'[s]) <= QueueCap
      BY <2>1, <2>2, <2>3, CapAssumption DEF TypeOK
    <2> QED
      BY <1>10, <2>4 DEF Commit, TypeOK
  <1>11. CASE DrainStarts \/ DrainCancelled \/ CopyHeld \/ SwapFails \/ Exit
    <2>1. held' \in [Sessions -> Seq(Messages)]
          /\ restart' \in {"no", "draining", "copied", "over"}
      <3>1. Nothing \in [Sessions -> Seq(Messages)]
        BY DEF Nothing
      <3> QED
        BY <1>11, <3>1 DEF DrainStarts, DrainCancelled, CopyHeld, SwapFails, Exit,
                           Restart, TypeOK
    <2>2. UNCHANGED <<mailVars, threadVars, board, members, history>>
      BY <1>11 DEF DrainStarts, DrainCancelled, CopyHeld, SwapFails, Exit, Restart
    <2> QED
      BY <2>1, <2>2 DEF TypeOK
  <1>12. CASE UNCHANGED vars
    BY <1>12 DEF vars, TypeOK
  <1> QED
    BY <1>1, <1>2, <1>3, <1>4, <1>5, <1>6, <1>7, <1>8, <1>9, <1>10, <1>11, <1>12
    DEF Next, Works

-----------------------------------------------------------------------------
(* Whose messages wait.                                                     *)
LEMMA RemovedInit == Init => RemovedIsForgotten
  BY DEF Init, RemovedIsForgotten, Items

LEMMA RemovedFrame ==
    ASSUME RemovedIsForgotten, members' = members,
           \A s \in Sessions : Items(queue'[s]) \subseteq Items(queue[s])
    PROVE  RemovedIsForgotten'
  BY DEF RemovedIsForgotten, Items

LEMMA RemovedDecide ==
    ASSUME NEW a \in Threads, NEW m \in Messages, TypeOK, RemovedIsForgotten,
           Decide(a, m), Sender[m] \in members \cup {Me}, members' = members
    PROVE  RemovedIsForgotten'
  <1>1. CASE UNCHANGED queue
    BY <1>1, RemovedFrame
  <1>2. ASSUME NEW s \in Sessions, queue' = [queue EXCEPT ![s] = Append(queue[s], m)]
        PROVE  RemovedIsForgotten'
    <2>1. \A t \in Sessions : queue[t] \in Seq(Messages)
      BY DEF TypeOK
    <2>2. Items(Append(queue[s], m)) = Items(queue[s]) \cup {m}
      BY <2>1, ItemsOfAppend
    <2>3. \A t \in Sessions : Items(queue'[t]) \subseteq Items(queue[t]) \cup {m}
      BY <1>2, <2>1, <2>2 DEF TypeOK
    <2> QED
      BY <2>3 DEF RemovedIsForgotten
  <1> QED
    BY <1>1, <1>2, DecideCases DEF Reply, Takes

LEMMA RemovedStep ==
    MarkInv /\ TypeOK /\ RemovedIsForgotten /\ [Next]_vars => RemovedIsForgotten'
  <1> SUFFICES ASSUME MarkInv, TypeOK, RemovedIsForgotten, [Next]_vars
               PROVE  RemovedIsForgotten'
    OBVIOUS
  <1> USE ThreadFacts DEF mailVars, threadVars, worldVars, history
  <1>0. ASSUME UNCHANGED <<queue, members>> PROVE RemovedIsForgotten'
    BY <1>0, RemovedFrame
  <1>1. ASSUME NEW m \in Messages, Receive(m) PROVE RemovedIsForgotten'
    BY <1>1, RemovedDecide DEF Receive
  <1>2. ASSUME NEW c \in Clients, NEW m \in Messages, SendHere(c, m)
        PROVE  RemovedIsForgotten'
    BY <1>2, RemovedDecide DEF SendHere
  <1>3. CASE TickTakes
    <2>1. \A s \in Sessions : Items(queue'[s]) \subseteq Items(queue[s])
      BY <1>3, TickLeaves
    <2> QED
      BY <1>3, <2>1, RemovedFrame DEF TickTakes
  <1>4. ASSUME NEW a \in Threads, Works(a) PROVE RemovedIsForgotten'
    BY <1>0, <1>4 DEF Works, Submit, Types, TypeFails, Panics, Finish
  <1>5. ASSUME NEW new \in SUBSET Peers, Commit(new) PROVE RemovedIsForgotten'
    <2> DEFINE removed == {m \in Messages : Sender[m] \notin new}
    <2>1. queue' = [s \in Sessions |-> Without(queue[s], removed)] /\ members' = new
      BY <1>5 DEF Commit
    <2> HIDE DEF removed
    <2>2. \A s \in Sessions : Items(Without(queue[s], removed)) = Items(queue[s]) \ removed
                              /\ Items(queue[s]) \subseteq Messages
      <3>1. \A s \in Sessions : queue[s] \in Seq(Messages)
        BY DEF TypeOK
      <3>2. \A s \in Sessions : Items(queue[s]) \subseteq Messages
        BY <3>1 DEF Items
      <3> QED
        BY <3>1, <3>2, WithoutItems
    <2>3. \A s \in Sessions : \A m \in Items(queue'[s]) : m \in Messages /\ m \notin removed
      BY <2>1, <2>2
    <2> QED
      BY <2>1, <2>3 DEF RemovedIsForgotten, removed
  <1>6. CASE \/ TickChecks \/ (\E s \in Sessions : SessionChanges(s))
             \/ DrainStarts \/ DrainCancelled \/ CopyHeld \/ SwapFails \/ Exit
             \/ UNCHANGED vars
    BY <1>0, <1>6 DEF TickChecks, SessionChanges, DrainStarts, DrainCancelled,
                      CopyHeld, SwapFails, Exit, Restart, vars
  <1> QED
    BY <1>1, <1>2, <1>3, <1>4, <1>5, <1>6 DEF Next

-----------------------------------------------------------------------------
(* Where the messages are.  A message that has been accepted is in one      *)
(* place at most: in one queue, once, or in the hands of one thread, or     *)
(* typed; the one a thread has just typed is still in its hands.            *)
PlaceInv ==
    /\ \A s \in Sessions : Distinct(queue[s])
    /\ \A s, t \in Sessions : s # t => Items(queue[s]) \cap Items(queue[t]) = {}
    /\ \A s \in Sessions : \A m \in Items(queue[s]) :
          m \in accepted /\ m \notin TypedMessages
    /\ \A a \in Threads : \A j \in jobs[a] :
          /\ j.msg \in accepted
          /\ \A s \in Sessions : j.msg \notin Items(queue[s])
          /\ j.msg \in TypedMessages <=>
                pc[a] = "done" /\ result[a] = "ok" /\ j = Current(a)
    /\ \A a, b \in Threads : \A j \in jobs[a], k \in jobs[b] :
          j.msg = k.msg => a = b /\ j = k
    /\ TypedMessages \subseteq accepted
    /\ \A m \in accepted : Sender[m] # Me => m \in seen

LEMMA PlaceInit == Init => PlaceInv
  BY DEF Init, PlaceInv, Distinct, Items, TypedMessages

LEMMA SameCurrent ==
    ASSUME NEW a \in Threads, jobs'[a] = jobs[a]
    PROVE  Current(a)' = Current(a)
  BY DEF Current

(* Throwing messages out of the queues, in whatever way, keeps the          *)
(* invariant, and so does changing nothing it speaks of.                    *)
LEMMA PlaceFrame ==
    ASSUME PlaceInv, UNCHANGED <<jobs, pc, result, typed, accepted>>, seen \subseteq seen',
           \A s \in Sessions : Distinct(queue'[s]) /\ Items(queue'[s]) \subseteq Items(queue[s])
    PROVE  PlaceInv'
  <1>1. TypedMessages' = TypedMessages /\ \A a \in Threads : Current(a)' = Current(a)
    BY SameCurrent DEF TypedMessages
  <1>2. \A s \in Sessions : Items(queue[s])' = Items(queue'[s])
    BY DEF Items
  <1>3. \A s, t \in Sessions : s # t => Items(queue'[s]) \cap Items(queue'[t]) = {}
    BY DEF PlaceInv
  <1>4. \A s \in Sessions : Distinct(queue[s])'
    BY DEF Distinct
  <1> QED
    BY <1>1, <1>2, <1>3, <1>4 DEF PlaceInv

LEMMA QueueTypes ==
    ASSUME TypeOK
    PROVE  \A s \in Sessions : queue[s] \in Seq(Messages)
                               /\ DOMAIN queue[s] = 1..Len(queue[s]) /\ Len(queue[s]) \in Nat
  BY DEF TypeOK

LEMMA AppendDistinct ==
    ASSUME NEW S, NEW q \in Seq(S), NEW m \in S, Distinct(q), m \notin Items(q)
    PROVE  Distinct(Append(q, m))
  <1>1. /\ DOMAIN q = 1..Len(q) /\ Len(q) \in Nat
        /\ DOMAIN Append(q, m) = 1..(Len(q) + 1)
        /\ \A k \in 1..Len(q) : Append(q, m)[k] = q[k] /\ q[k] # m
        /\ Append(q, m)[Len(q) + 1] = m
    BY DEF Items
  <1>2. \A k \in 1..(Len(q) + 1) : k \in 1..Len(q) \/ k = Len(q) + 1
    BY <1>1
  <1> QED
    BY <1>1, <1>2 DEF Distinct

LEMMA PlaceDecide ==
    ASSUME NEW a \in Threads, NEW m \in Messages, MarkInv, TypeOK, PlaceInv,
           pc[a] = "ready", m \notin accepted, Decide(a, m),
           UNCHANGED typed, seen \subseteq seen', Sender[m] # Me => m \in seen'
    PROVE  PlaceInv'
  <1>0. TypedMessages' = TypedMessages
    BY DEF TypedMessages
  <1>1. ASSUME NEW r, Reply(m, r) PROVE PlaceInv'
    BY <1>1, PlaceFrame DEF Reply, threadVars, PlaceInv
  <1>2. ASSUME NEW s \in Sessions, Takes(a, m, s), TypesAtOnce(s) PROVE PlaceInv'
    <2> DEFINE new == [to |-> s, msg |-> m]
    <2>1. /\ jobs' = [jobs EXCEPT ![a] = {new}] /\ pc' = [pc EXCEPT ![a] = "job"]
          /\ accepted' = accepted \cup {m} /\ UNCHANGED <<queue, result>>
      BY <1>2 DEF Takes
    <2>2. new.msg = m
      OBVIOUS
    <2> HIDE DEF new
    <2>3. /\ jobs'[a] = {new} /\ pc'[a] = "job"
          /\ \A b \in Threads \ {a} : jobs'[b] = jobs[b] /\ pc'[b] = pc[b]
      BY <2>1 DEF TypeOK
    <2>4. \A b \in Threads \ {a} : Current(b)' = Current(b)
      BY <2>3, SameCurrent
    <2>5. \A b \in Threads : \A j \in jobs[b] : j.msg # m
      BY DEF PlaceInv
    <2>6. \A s1 \in Sessions : m \notin Items(queue[s1])
      BY DEF PlaceInv
    <2>7. m \notin TypedMessages
      BY DEF PlaceInv
    <2>8. \A b \in Threads : \A j \in jobs'[b] :
             /\ j.msg \in accepted'
             /\ \A s1 \in Sessions : j.msg \notin Items(queue[s1])
             /\ j.msg \in TypedMessages <=>
                   pc'[b] = "done" /\ result'[b] = "ok" /\ j = Current(b)'
      <3>1. CASE TRUE
        <4> TAKE b \in Threads
        <4> TAKE j \in jobs'[b]
        <4>1. CASE b = a
          BY <2>1, <2>2, <2>3, <2>6, <2>7, <4>1
        <4>2. CASE b # a
          BY <2>1, <2>3, <2>4, <4>2 DEF PlaceInv
        <4> QED
          BY <4>1, <4>2
      <3> QED
        BY <3>1
    <2>9. \A b, c \in Threads : \A j \in jobs'[b], k \in jobs'[c] :
             j.msg = k.msg => b = c /\ j = k
      BY <2>2, <2>3, <2>5 DEF PlaceInv
    <2> QED
      BY <1>0, <2>1, <2>8, <2>9 DEF PlaceInv
  <1>3. ASSUME NEW s \in Sessions, Takes(a, m, s), ~TypesAtOnce(s) PROVE PlaceInv'
    <2>1. /\ queue' = [queue EXCEPT ![s] = Append(queue[s], m)]
          /\ accepted' = accepted \cup {m} /\ UNCHANGED <<pc, jobs, result>>
      BY <1>3 DEF Takes, threadVars
    <2>2. \A t \in Sessions : queue[t] \in Seq(Messages) /\ m \notin Items(queue[t])
      BY QueueTypes DEF PlaceInv
    <2>3. Items(queue'[s]) = Items(queue[s]) \cup {m} /\ Distinct(queue'[s])
      BY <2>1, <2>2, ItemsOfAppend, AppendDistinct DEF PlaceInv, TypeOK
    <2>4. \A t \in Sessions \ {s} : queue'[t] = queue[t]
      BY <2>1 DEF TypeOK
    <2>5. \A t \in Sessions : Distinct(queue'[t])
      BY <2>3, <2>4 DEF PlaceInv
    <2>6. \A t \in Sessions : Items(queue'[t]) \subseteq Items(queue[t]) \cup {m}
      BY <2>3, <2>4
    <2>7. \A t, u \in Sessions : t # u => Items(queue'[t]) \cap Items(queue'[u]) = {}
      BY <2>2, <2>3, <2>4 DEF PlaceInv
    <2>8. \A b \in Threads : Current(b)' = Current(b)
      BY <2>1, SameCurrent
    <2>9. m \notin TypedMessages /\ \A b \in Threads : \A j \in jobs[b] : j.msg # m
      BY DEF PlaceInv
    <2>10. \A t \in Sessions : \A n \in Items(queue'[t]) :
              n \in accepted' /\ n \notin TypedMessages
      BY <2>1, <2>6, <2>9 DEF PlaceInv
    <2>11. \A b \in Threads : \A j \in jobs[b] : \A t \in Sessions :
              j.msg \notin Items(queue'[t])
      BY <2>6, <2>9 DEF PlaceInv
    <2> QED
      BY <1>0, <2>1, <2>5, <2>7, <2>8, <2>10, <2>11 DEF PlaceInv
  <1> QED
    BY <1>1, <1>2, <1>3, DecideCases

(* The message the delivery thread takes out of a queue is not in what it   *)
(* leaves there.                                                            *)
LEMMA TickParts ==
    ASSUME TypeOK, PlaceInv, TickTakes, NEW s \in Sessions
    PROVE  /\ Distinct(queue'[s])
           /\ Welcome(s) # {} =>
                 /\ queue[s][First(s)] \in Items(queue[s])
                 /\ Free(s) => queue[s][First(s)] \notin Items(queue'[s])
  <1> DEFINE q == queue[s]
             taken == {t \in Sessions : Free(t) /\ Welcome(t) # {}}
  <1>1. q \in Seq(Messages) /\ DOMAIN q = 1..Len(q) /\ Len(q) \in Nat /\ Distinct(q)
    BY QueueTypes DEF PlaceInv
  <1>2. queue'[s] = IF s \in taken
                    THEN SubSeq(q, First(s) + 1, Len(q))
                    ELSE IF Ended(s) \/ Free(s) THEN <<>> ELSE q
    BY DEF TickTakes
  <1>3. CASE s \in taken
    <2>1. PICK p \in 1..Len(q) : p = First(s)
      BY <1>3, FirstIsWelcome
    <2>2. queue'[s] = SubSeq(q, p + 1, Len(q))
      BY <1>2, <1>3, <2>1
    <2>3. \A i \in (p + 1)..Len(q) : q[i] \in Messages
      BY <1>1, <2>1
    <2>4. /\ DOMAIN queue'[s] = 1..(Len(q) - p)
          /\ \A i \in 1..(Len(q) - p) : queue'[s][i] = q[p + i] /\ p + i \in DOMAIN q
      <3>1. /\ queue'[s] \in Seq(Messages) /\ Len(queue'[s]) = Len(q) - p
            /\ \A i \in 1..(Len(q) - p) : queue'[s][i] = q[p + i]
        BY <1>1, <2>2, <2>3, SubSeqProperties
      <3>2. DOMAIN queue'[s] = 1..(Len(q) - p)
        BY <3>1
      <3> QED
        BY <1>1, <3>1, <3>2
    <2>5. \A i, j \in 1..(Len(q) - p) : p + i = p + j => i = j
      BY <1>1
    <2>6. Distinct(queue'[s])
      BY <1>1, <2>4, <2>5 DEF Distinct
    <2>7. \A i \in 1..(Len(q) - p) : p + i # p
      BY <1>1
    <2>8. q[p] \in Items(q) /\ q[p] \notin Items(queue'[s])
      BY <1>1, <2>4, <2>7 DEF Distinct, Items
    <2> QED
      BY <2>1, <2>6, <2>8
  <1>4. CASE s \notin taken
    <2>1. Distinct(<<>>)
      BY DEF Distinct
    <2>2. Welcome(s) # {} => q[First(s)] \in Items(q)
      BY <1>1, FirstIsWelcome DEF Items
    <2>3. Distinct(queue'[s])
      BY <1>1, <1>2, <1>4, <2>1
    <2> QED
      BY <1>4, <2>2, <2>3
  <1> QED
    BY <1>3, <1>4

LEMMA PlaceTick ==
    ASSUME MarkInv, TypeOK, PlaceInv, TickTakes
    PROVE  PlaceInv'
  <1> DEFINE taken == {s \in Sessions : Free(s) /\ Welcome(s) # {}}
             job(s) == [to |-> s, msg |-> queue[s][First(s)]]
             new == {job(s) : s \in taken}
  <1>1. /\ jobs' = [jobs EXCEPT ![Ticker] = new]
        /\ pc' = [pc EXCEPT ![Ticker] = IF taken = {} THEN "ready" ELSE "job"]
        /\ UNCHANGED <<typed, accepted, seen, result>>
    BY DEF TickTakes, worldVars, history
  <1>2. \A j \in new : \E s \in Sessions :
            /\ Free(s) /\ j.to = s /\ j.msg \in Items(queue[s]) /\ j.msg \notin Items(queue'[s])
            /\ j = job(s)
    BY TickParts
  <1> HIDE DEF taken, new
  <1>3. /\ jobs'[Ticker] = new /\ pc'[Ticker] # "done"
        /\ \A b \in Threads \ {Ticker} : jobs'[b] = jobs[b] /\ pc'[b] = pc[b]
    BY <1>1, ThreadFacts DEF TypeOK
  <1>4. \A b \in Threads \ {Ticker} : Current(b)' = Current(b)
    BY <1>3, SameCurrent
  <1>5. TypedMessages' = TypedMessages
    BY <1>1 DEF TypedMessages
  <1>6. \A s \in Sessions : Items(queue'[s]) \subseteq Items(queue[s]) /\ Distinct(queue'[s])
    BY TickLeaves, TickParts
  <1>7. \A j \in new : \A s \in Sessions : j.msg \notin Items(queue'[s])
    BY <1>2, <1>6 DEF PlaceInv
  <1>8. \A j, k \in new : j.msg = k.msg => j = k
    <2> HIDE DEF job
    <2> QED
      BY <1>2 DEF PlaceInv
  <1>9. \A j \in new : j.msg \in accepted /\ j.msg \notin TypedMessages
                       /\ \A b \in Threads : \A k \in jobs[b] : k.msg # j.msg
    BY <1>2 DEF PlaceInv
  <1>10. \A s, t \in Sessions : s # t => Items(queue'[s]) \cap Items(queue'[t]) = {}
    BY <1>6 DEF PlaceInv
  <1>11. \A b \in Threads : \A j \in jobs'[b] :
            /\ j.msg \in accepted'
            /\ \A s \in Sessions : j.msg \notin Items(queue'[s])
            /\ j.msg \in TypedMessages' <=>
                  pc'[b] = "done" /\ result'[b] = "ok" /\ j = Current(b)'
    <2> TAKE b \in Threads
    <2> TAKE j \in jobs'[b]
    <2>1. CASE b = Ticker
      BY <1>1, <1>3, <1>5, <1>7, <1>9, <2>1
    <2>2. CASE b # Ticker
      BY <1>1, <1>3, <1>4, <1>5, <1>6, <2>2 DEF PlaceInv
    <2> QED
      BY <2>1, <2>2
  <1>12. \A b, c \in Threads : \A j \in jobs'[b], k \in jobs'[c] :
            j.msg = k.msg => b = c /\ j = k
    BY <1>3, <1>8, <1>9 DEF PlaceInv
  <1>13. \A s \in Sessions : \A m \in Items(queue'[s]) :
            m \in accepted' /\ m \notin TypedMessages'
    BY <1>1, <1>5, <1>6 DEF PlaceInv
  <1> QED
    BY <1>1, <1>5, <1>6, <1>10, <1>11, <1>12, <1>13 DEF PlaceInv

LEMMA TypedGrows ==
    ASSUME NEW a \in Threads, MarkInv, TypeOK, Types(a)
    PROVE  TypedMessages' = TypedMessages \cup {Current(a).msg}
  <1> DEFINE s == Current(a).to
             m == Current(a).msg
  <1>1. s \in Sessions /\ m \in Messages
    BY CurrentFacts DEF Types
  <1>2. typed' = [typed EXCEPT ![s] = Append(typed[s], m)]
    BY DEF Types
  <1> HIDE DEF s, m
  <1>3. Items(typed'[s]) = Items(typed[s]) \cup {m}
    BY <1>1, <1>2, ItemsOfAppend DEF TypeOK
  <1>4. \A t \in Sessions \ {s} : typed'[t] = typed[t]
    BY <1>2 DEF TypeOK
  <1>5. \A t \in Sessions : Items(typed[t])' = Items(typed'[t])
    BY DEF Items
  <1>6. TypedMessages' = UNION {Items(typed'[t]) : t \in Sessions}
    BY <1>5 DEF TypedMessages
  <1>7. TypedMessages' = TypedMessages \cup {m}
    BY <1>1, <1>3, <1>4, <1>6 DEF TypedMessages
  <1> QED
    BY <1>7 DEF m

(* A thread goes on with some of its jobs, or has come to the end of the    *)
(* current one; nothing is queued or accepted.                              *)
LEMMA PlaceWork ==
    ASSUME NEW a \in Threads, MarkInv, TypeOK, PlaceInv,
           UNCHANGED <<queue, seen, accepted>>,
           jobs'[a] \subseteq jobs[a],
           \A b \in Threads \ {a} : jobs'[b] = jobs[b] /\ pc'[b] = pc[b] /\ result'[b] = result[b],
           TypedMessages' \subseteq accepted,
           \A m \in TypedMessages' : m \in TypedMessages \/ \E j \in jobs[a] : m = j.msg,
           TypedMessages \subseteq TypedMessages',
           \A j \in jobs'[a] : j.msg \in TypedMessages' <=>
                pc'[a] = "done" /\ result'[a] = "ok" /\ j = Current(a)'
    PROVE  PlaceInv'
  <1>1. \A b \in Threads \ {a} : Current(b)' = Current(b)
    BY SameCurrent
  <1>2. \A s \in Sessions : Items(queue[s])' = Items(queue[s])
                            /\ Distinct(queue[s])' = Distinct(queue[s])
    BY DEF Items, Distinct
  <1>3. \A b \in Threads : jobs'[b] \subseteq jobs[b]
    OBVIOUS
  <1>4. \A b \in Threads \ {a} : \A j \in jobs[b] :
           j.msg \in TypedMessages' <=> j.msg \in TypedMessages
    BY DEF PlaceInv
  <1>5. \A b \in Threads : \A j \in jobs'[b] :
            j.msg \in TypedMessages' <=>
                  pc'[b] = "done" /\ result'[b] = "ok" /\ j = Current(b)'
    <2> TAKE b \in Threads
    <2> TAKE j \in jobs'[b]
    <2>1. CASE b = a
      BY <2>1
    <2>2. CASE b # a
      BY <1>1, <1>4, <2>2 DEF PlaceInv
    <2> QED
      BY <2>1, <2>2
  <1>6. \A s \in Sessions : \A m \in Items(queue[s]) : m \notin TypedMessages'
    BY DEF PlaceInv
  <1>7. \A b, c \in Threads : \A j \in jobs'[b], k \in jobs'[c] :
           j.msg = k.msg => b = c /\ j = k
    BY <1>3 DEF PlaceInv
  <1> QED
    BY <1>2, <1>3, <1>5, <1>6, <1>7 DEF PlaceInv

LEMMA PlaceWorks ==
    ASSUME NEW a \in Threads, MarkInv, TypeOK, PlaceInv, Works(a)
    PROVE  PlaceInv'
  <1> USE DEF mailVars, threadVars, worldVars, history
  <1>0. ASSUME UNCHANGED typed PROVE TypedMessages' = TypedMessages
    BY <1>0 DEF TypedMessages
  <1>1. ASSUME Submit(a) \/ TypeFails(a) PROVE PlaceInv'
    <2>1. /\ UNCHANGED <<queue, seen, accepted, typed, jobs>>
          /\ \A b \in Threads \ {a} : pc'[b] = pc[b] /\ result'[b] = result[b]
          /\ pc'[a] = "done" => result'[a] # "ok"
          /\ pc[a] # "done"
      BY <1>1 DEF Submit, TypeFails, TypeOK
    <2>2. TypedMessages' = TypedMessages
      BY <1>0, <2>1
    <2>3. \A j \in jobs[a] : j.msg \notin TypedMessages
      BY <2>1 DEF PlaceInv
    <2>4. TypedMessages \subseteq accepted
      BY DEF PlaceInv
    <2> QED
      BY <2>1, <2>2, <2>3, <2>4, PlaceWork
  <1>2. CASE Types(a)
    <2>1. /\ UNCHANGED <<queue, seen, accepted, jobs>>
          /\ \A b \in Threads \ {a} : pc'[b] = pc[b] /\ result'[b] = result[b]
          /\ pc'[a] = "done" /\ result'[a] = "ok" /\ pc[a] = "typing"
      BY <1>2 DEF Types, TypeOK
    <2>2. TypedMessages' = TypedMessages \cup {Current(a).msg}
      BY <1>2, TypedGrows
    <2>3. Current(a) \in jobs[a] /\ Current(a)' = Current(a)
      BY <2>1, CurrentFacts, SameCurrent
    <2>4. \A j \in jobs[a] : j.msg \notin TypedMessages /\ j.msg \in accepted
      BY <2>1 DEF PlaceInv
    <2>5. \A j \in jobs[a] : j.msg = Current(a).msg => j = Current(a)
      BY <2>3 DEF PlaceInv
    <2>6. \A j \in jobs'[a] : j.msg \in TypedMessages' <=> j = Current(a)'
      BY <2>1, <2>2, <2>3, <2>4, <2>5
    <2>7. TypedMessages' \subseteq accepted /\ TypedMessages \subseteq TypedMessages'
          /\ \A m \in TypedMessages' : m \in TypedMessages \/ \E j \in jobs[a] : m = j.msg
      BY <2>2, <2>3, <2>4 DEF PlaceInv
    <2> QED
      BY <2>1, <2>6, <2>7, PlaceWork
  <1>3. CASE Panics(a)
    <2>1. /\ UNCHANGED <<queue, seen, accepted, typed, result>>
          /\ jobs'[a] = {} /\ \A b \in Threads \ {a} : jobs'[b] = jobs[b] /\ pc'[b] = pc[b]
      BY <1>3 DEF Panics, TypeOK
    <2>2. TypedMessages' = TypedMessages /\ TypedMessages \subseteq accepted
      BY <1>0, <2>1 DEF PlaceInv
    <2> QED
      BY <2>1, <2>2, PlaceWork
  <1>4. CASE Finish(a)
    <2>1. /\ UNCHANGED <<queue, seen, accepted, typed>>
          /\ jobs'[a] = jobs[a] \ {Current(a)} /\ pc'[a] # "done"
          /\ \A b \in Threads \ {a} : jobs'[b] = jobs[b] /\ pc'[b] = pc[b]
                                      /\ result'[b] = result[b]
      BY <1>4 DEF Finish, TypeOK
    <2>2. TypedMessages' = TypedMessages /\ TypedMessages \subseteq accepted
      BY <1>0, <2>1 DEF PlaceInv
    <2>3. \A j \in jobs'[a] : j.msg \notin TypedMessages
      BY <2>1 DEF PlaceInv
    <2> QED
      BY <2>1, <2>2, <2>3, PlaceWork
  <1> QED
    BY <1>1, <1>2, <1>3, <1>4 DEF Works

LEMMA PlaceStep == MarkInv /\ TypeOK /\ PlaceInv /\ [Next]_vars => PlaceInv'
  <1> SUFFICES ASSUME MarkInv, TypeOK, PlaceInv, [Next]_vars PROVE PlaceInv'
    OBVIOUS
  <1> USE DEF mailVars, threadVars, worldVars, history
  <1>0. ASSUME UNCHANGED <<queue, jobs, pc, result, typed, accepted, seen>> PROVE PlaceInv'
    BY <1>0, PlaceFrame DEF PlaceInv
  <1>1. ASSUME NEW m \in Messages, Receive(m) PROVE PlaceInv'
    <2>1. m \notin accepted
      BY <1>1 DEF Receive, FirstTime, PlaceInv
    <2> QED
      BY <1>1, <2>1, PlaceDecide, ThreadFacts DEF Receive
  <1>2. ASSUME NEW c \in Clients, NEW m \in Messages, SendHere(c, m) PROVE PlaceInv'
    <2>1. UNCHANGED <<typed, seen>> /\ Sender[m] = Me /\ m \notin accepted
          /\ pc[c] = "ready" /\ Decide(c, m) /\ c \in Threads
      BY <1>2, ThreadFacts DEF SendHere
    <2> QED
      BY <2>1, PlaceDecide
  <1>3. CASE TickChecks
    <2>1. /\ UNCHANGED <<queue, seen, accepted, typed, jobs, result>>
          /\ pc'[Ticker] = "take" /\ pc[Ticker] = "ready"
          /\ \A b \in Threads \ {Ticker} : pc'[b] = pc[b]
      BY <1>3, ThreadFacts DEF TickChecks, TypeOK
    <2>2. TypedMessages' = TypedMessages /\ TypedMessages \subseteq accepted
      BY <2>1 DEF PlaceInv, TypedMessages
    <2>3. \A j \in jobs[Ticker] : j.msg \notin TypedMessages
      BY <2>1, ThreadFacts DEF PlaceInv
    <2> QED
      BY <2>1, <2>2, <2>3, PlaceWork, ThreadFacts
  <1>4. CASE TickTakes
    BY <1>4, PlaceTick
  <1>5. ASSUME NEW a \in Threads, Works(a) PROVE PlaceInv'
    BY <1>5, PlaceWorks
  <1>6. ASSUME NEW new \in SUBSET Peers, Commit(new) PROVE PlaceInv'
    <2> DEFINE removed == {m \in Messages : Sender[m] \notin new}
    <2>1. queue' = [s \in Sessions |-> Without(queue[s], removed)]
          /\ UNCHANGED <<jobs, pc, result, typed, accepted, seen>>
      BY <1>6 DEF Commit
    <2> HIDE DEF removed
    <2>2. \A s \in Sessions : /\ Distinct(Without(queue[s], removed))
                              /\ Items(Without(queue[s], removed)) \subseteq Items(queue[s])
      BY QueueTypes, WithoutItems, WithoutDistinct DEF PlaceInv
    <2> QED
      BY <2>1, <2>2, PlaceFrame
  <1>7. CASE \/ (\E s \in Sessions : SessionChanges(s))
             \/ DrainStarts \/ DrainCancelled \/ CopyHeld \/ SwapFails \/ Exit
             \/ UNCHANGED vars
    BY <1>0, <1>7 DEF SessionChanges, DrainStarts, DrainCancelled,
                      CopyHeld, SwapFails, Exit, Restart, vars
  <1> QED
    BY <1>1, <1>2, <1>3, <1>4, <1>5, <1>6, <1>7 DEF Next

-----------------------------------------------------------------------------
(* What senders are told.  A message from another computer has no answer    *)
(* before it was let in; one that was turned down stays out for good.       *)
AnswerInv ==
    /\ \A m \in Messages : Sender[m] # Me /\ m \notin seen => answer[m] = "none"
    /\ \A m \in Messages : answer[m] = "Delivered" => m \in TypedMessages
    /\ \A m \in Messages : answer[m] \in TurnedDown =>
          /\ m \notin TypedMessages
          /\ \A s \in Sessions : m \notin Items(queue[s])
          /\ \A a \in Threads : \A j \in jobs[a] : j.msg # m

LEMMA AnswerInit == Init => AnswerInv
  BY DEF Init, AnswerInv, TurnedDown

LEMMA AnswerFrame ==
    ASSUME AnswerInv, UNCHANGED answer, TypedMessages' = TypedMessages, seen \subseteq seen',
           \A s \in Sessions : Items(queue'[s]) \subseteq Items(queue[s]),
           \A a \in Threads : \A j \in jobs'[a] :
              (\E b \in Threads : \E k \in jobs[b] : k.msg = j.msg)
              \/ \E s \in Sessions : j.msg \in Items(queue[s])
    PROVE  AnswerInv'
  <1>1. \A s \in Sessions : Items(queue[s])' = Items(queue'[s])
    BY DEF Items
  <1>2. \A m \in Messages : answer[m] \in TurnedDown =>
          \A a \in Threads : \A j \in jobs'[a] : j.msg # m
    BY DEF AnswerInv
  <1> QED
    BY <1>1, <1>2 DEF AnswerInv, TurnedDown

LEMMA AnswerDecide ==
    ASSUME NEW a \in Threads, NEW m \in Messages, TypeOK, PlaceInv, AnswerInv,
           Decide(a, m), m \notin accepted, answer[m] = "none", pc[a] = "ready",
           UNCHANGED typed, seen \subseteq seen', Sender[m] # Me => m \in seen'
    PROVE  AnswerInv'
  <1>0. TypedMessages' = TypedMessages
    BY DEF TypedMessages
  <1>1. m \notin TypedMessages /\ (\A s \in Sessions : m \notin Items(queue[s]))
        /\ \A b \in Threads : \A j \in jobs[b] : j.msg # m
    BY DEF PlaceInv
  <1>2. \A s \in Sessions : Items(queue[s])' = Items(queue'[s])
    BY DEF Items
  <1>3. ASSUME NEW r \in TurnedDown, Reply(m, r) PROVE AnswerInv'
    <2>1. answer' = [answer EXCEPT ![m] = r] /\ UNCHANGED <<queue, jobs>>
      BY <1>3 DEF Reply, threadVars
    <2>2. r # "Delivered"
      BY DEF TurnedDown
    <2>3. \A n \in Messages : answer'[n] = IF n = m THEN r ELSE answer[n]
      BY <2>1 DEF TypeOK
    <2> QED
      BY <1>0, <1>1, <1>2, <2>1, <2>2, <2>3 DEF AnswerInv, TurnedDown
  <1>4. ASSUME NEW s \in Sessions, Takes(a, m, s), TypesAtOnce(s) PROVE AnswerInv'
    <2>1. /\ jobs' = [jobs EXCEPT ![a] = {[to |-> s, msg |-> m]}]
          /\ UNCHANGED <<queue, answer>>
      BY <1>4 DEF Takes
    <2>2. \A b \in Threads : \A j \in jobs'[b] : j \in jobs[b] \/ j.msg = m
      BY <2>1 DEF TypeOK
    <2> QED
      BY <1>0, <1>2, <2>1, <2>2 DEF AnswerInv, TurnedDown
  <1>5. ASSUME NEW s \in Sessions, Takes(a, m, s), ~TypesAtOnce(s) PROVE AnswerInv'
    <2>1. /\ queue' = [queue EXCEPT ![s] = Append(queue[s], m)]
          /\ answer' = [answer EXCEPT ![m] = "Queued"] /\ UNCHANGED jobs
      BY <1>5 DEF Takes, threadVars
    <2>2. \A t \in Sessions : queue[t] \in Seq(Messages)
      BY DEF TypeOK
    <2>3. \A t \in Sessions : Items(queue'[t]) \subseteq Items(queue[t]) \cup {m}
      <3>1. Items(Append(queue[s], m)) = Items(queue[s]) \cup {m}
        BY <2>2, ItemsOfAppend
      <3> QED
        BY <2>1, <3>1 DEF TypeOK
    <2>4. \A n \in Messages : answer'[n] = IF n = m THEN "Queued" ELSE answer[n]
      BY <2>1 DEF TypeOK
    <2> QED
      BY <1>0, <1>2, <2>1, <2>3, <2>4 DEF AnswerInv, TurnedDown
  <1> QED
    BY <1>3, <1>4, <1>5, DecideCases

LEMMA AnswerFinish ==
    ASSUME NEW a \in Threads, MarkInv, TypeOK, PlaceInv, AnswerInv, Finish(a)
    PROVE  AnswerInv'
  <1>1. /\ pc[a] = "done" /\ UNCHANGED <<queue, seen, typed>>
        /\ jobs'[a] = jobs[a] \ {Current(a)}
        /\ \A b \in Threads \ {a} : jobs'[b] = jobs[b]
    BY DEF Finish, history, TypeOK
  <1>2. TypedMessages' = TypedMessages /\ \A s \in Sessions : Items(queue[s])' = Items(queue[s])
    BY <1>1 DEF TypedMessages, Items
  <1>3. Current(a) \in jobs[a] /\ Current(a).msg \in Messages
    BY <1>1, CurrentFacts
  <1>4. PICK m \in Messages : m = Current(a).msg
    BY <1>3
  <1>5. \A b \in Threads : \A j \in jobs'[b] : j \in jobs[b] /\ j.msg # m
    BY <1>1, <1>3, <1>4 DEF PlaceInv
  <1>6. /\ m \in accepted /\ \A s \in Sessions : m \notin Items(queue[s])
        /\ m \in TypedMessages <=> result[a] = "ok"
        /\ Sender[m] # Me => m \in seen
    BY <1>1, <1>3, <1>4 DEF PlaceInv
  <1>7. CASE a = Ticker
    <2>1. UNCHANGED answer
      BY <1>7 DEF Finish
    <2> QED
      BY <1>1, <1>2, <1>5, <2>1 DEF AnswerInv, TurnedDown
  <1>8. CASE a # Ticker
    <2>1. \A n \in Messages :
            answer'[n] = IF n = m THEN IF result[a] = "ok" THEN "Delivered" ELSE "Refused"
                         ELSE answer[n]
      BY <1>4, <1>8 DEF Finish, ReceiptOf, TypeOK
    <2>2. \A n \in Messages \ {m} : answer'[n] = answer[n]
      BY <2>1
    <2>3. /\ result[a] = "ok" => answer'[m] = "Delivered"
          /\ result[a] # "ok" => answer'[m] = "Refused"
      BY <2>1
    <2> QED
      BY <1>1, <1>2, <1>5, <1>6, <2>2, <2>3 DEF AnswerInv, TurnedDown
  <1> QED
    BY <1>7, <1>8

LEMMA AnswerStep ==
    MarkInv /\ TypeOK /\ PlaceInv /\ AnswerInv /\ [Next]_vars => AnswerInv'
  <1> SUFFICES ASSUME MarkInv, TypeOK, PlaceInv, AnswerInv, [Next]_vars
               PROVE  AnswerInv'
    OBVIOUS
  <1> USE DEF mailVars, threadVars, worldVars, history
  <1>0. ASSUME UNCHANGED <<answer, typed, seen, queue>>,
               \A a \in Threads : jobs'[a] \subseteq jobs[a]
        PROVE  AnswerInv'
    <2>1. TypedMessages' = TypedMessages
      BY <1>0 DEF TypedMessages
    <2> QED
      BY <1>0, <2>1, AnswerFrame
  <1>1. ASSUME NEW m \in Messages, Receive(m) PROVE AnswerInv'
    <2>1. m \notin accepted /\ answer[m] = "none" /\ Decide(Link, m) /\ pc[Link] = "ready"
          /\ seen' = seen \cup {m} /\ UNCHANGED typed
      BY <1>1 DEF Receive, FirstTime, PlaceInv, AnswerInv
    <2> QED
      BY <2>1, AnswerDecide, ThreadFacts
  <1>2. ASSUME NEW c \in Clients, NEW m \in Messages, SendHere(c, m) PROVE AnswerInv'
    <2>1. UNCHANGED <<typed, seen>> /\ Sender[m] = Me /\ m \notin accepted
          /\ answer[m] = "none" /\ pc[c] = "ready" /\ Decide(c, m) /\ c \in Threads
      BY <1>2, ThreadFacts DEF SendHere
    <2> QED
      BY <2>1, AnswerDecide
  <1>3. CASE TickTakes
    <2>1. /\ UNCHANGED <<answer, typed, seen>>
          /\ \A b \in Threads \ {Ticker} : jobs'[b] = jobs[b]
          /\ \A j \in jobs'[Ticker] : \E s \in Sessions :
                Welcome(s) # {} /\ j.msg = queue[s][First(s)]
      <3> DEFINE taken == {s \in Sessions : Free(s) /\ Welcome(s) # {}}
                 job(s) == [to |-> s, msg |-> queue[s][First(s)]]
                 new == {job(s) : s \in taken}
      <3>1. /\ jobs' = [jobs EXCEPT ![Ticker] = new]
            /\ UNCHANGED <<answer, typed, seen>>
        BY <1>3 DEF TickTakes
      <3>2. \A j \in new : \E s \in Sessions :
               Welcome(s) # {} /\ j.msg = queue[s][First(s)]
        OBVIOUS
      <3> HIDE DEF new
      <3> QED
        BY <3>1, <3>2, ThreadFacts DEF TypeOK
    <2>2. \A j \in jobs'[Ticker] : \E s \in Sessions : j.msg \in Items(queue[s])
      BY <1>3, <2>1, TickParts
    <2>3. TypedMessages' = TypedMessages
      BY <2>1 DEF TypedMessages
    <2>4. \A s \in Sessions : Items(queue'[s]) \subseteq Items(queue[s])
      BY <1>3, TickLeaves
    <2>5. \A a \in Threads : \A j \in jobs'[a] :
              (\E b \in Threads : \E k \in jobs[b] : k.msg = j.msg)
              \/ \E s \in Sessions : j.msg \in Items(queue[s])
      BY <2>1, <2>2
    <2> QED
      BY <2>1, <2>3, <2>4, <2>5, AnswerFrame
  <1>4. ASSUME NEW a \in Threads, Types(a) PROVE AnswerInv'
    <2>1. UNCHANGED <<answer, seen, queue, jobs>> /\ pc[a] = "typing"
      BY <1>4 DEF Types
    <2>2. TypedMessages' = TypedMessages \cup {Current(a).msg}
      BY <1>4, TypedGrows
    <2>3. Current(a) \in jobs[a]
      BY <2>1, CurrentFacts
    <2>4. \A s \in Sessions : Items(queue[s])' = Items(queue[s])
      BY <2>1 DEF Items
    <2> QED
      BY <2>1, <2>2, <2>3, <2>4 DEF AnswerInv, TurnedDown
  <1>5. ASSUME NEW a \in Threads, Submit(a) \/ TypeFails(a) \/ Panics(a)
        PROVE  AnswerInv'
    <2>1. /\ UNCHANGED <<answer, typed, seen, queue>>
          /\ \A b \in Threads : jobs'[b] \subseteq jobs[b]
      BY <1>5 DEF Submit, TypeFails, Panics, TypeOK
    <2> QED
      BY <1>0, <2>1
  <1>6. ASSUME NEW a \in Threads, Finish(a) PROVE AnswerInv'
    BY <1>6, AnswerFinish
  <1>7. ASSUME NEW new \in SUBSET Peers, Commit(new) PROVE AnswerInv'
    <2> DEFINE removed == {m \in Messages : Sender[m] \notin new}
    <2>1. queue' = [s \in Sessions |-> Without(queue[s], removed)]
          /\ UNCHANGED <<jobs, typed, answer, seen>>
      BY <1>7 DEF Commit
    <2> HIDE DEF removed
    <2>2. \A s \in Sessions : Items(Without(queue[s], removed)) \subseteq Items(queue[s])
      BY QueueTypes, WithoutItems
    <2>3. TypedMessages' = TypedMessages
      BY <2>1 DEF TypedMessages
    <2> QED
      BY <2>1, <2>2, <2>3, AnswerFrame
  <1>8. CASE \/ TickChecks \/ (\E s \in Sessions : SessionChanges(s))
             \/ DrainStarts \/ DrainCancelled \/ CopyHeld \/ SwapFails \/ Exit
             \/ UNCHANGED vars
    BY <1>0, <1>8 DEF TickChecks, SessionChanges, DrainStarts, DrainCancelled,
                      CopyHeld, SwapFails, Exit, Restart, vars
  <1> QED
    BY <1>1, <1>2, <1>3, <1>4, <1>5, <1>6, <1>7, <1>8 DEF Next, Works

-----------------------------------------------------------------------------
(* The copy for the next daemon.  It is made while a restart is being       *)
(* prepared, when no new typing begins; a typing that began before is of a  *)
(* message that had left its queue.                                         *)
HeldInv ==
    /\ \A s \in Sessions : Items(held[s]) \subseteq accepted \ TypedMessages
    /\ restart \in {"no", "draining"} => held = Nothing
    /\ \A a \in Threads : pc[a] = "typing" =>
          \A s \in Sessions : Current(a).msg \notin Items(held[s])

LEMMA NothingHeld == \A s \in Sessions : Items(Nothing[s]) = {}
  BY DEF Nothing, Items

LEMMA HeldInit == Init => HeldInv
  BY NothingHeld DEF Init, HeldInv, Nothing, Items

LEMMA HeldFrame ==
    ASSUME HeldInv, UNCHANGED <<restart, held>>, TypedMessages' = TypedMessages,
           accepted \subseteq accepted',
           \A a \in Threads : pc'[a] = "typing" => pc[a] = "typing" /\ jobs'[a] = jobs[a]
    PROVE  HeldInv'
  <1>1. \A s \in Sessions : Items(held[s])' = Items(held[s])
    BY DEF Items
  <1>2. \A a \in Threads : pc'[a] = "typing" =>
            pc[a] = "typing" /\ Current(a)' = Current(a)
    BY SameCurrent
  <1> QED
    BY <1>1, <1>2 DEF HeldInv, Nothing

LEMMA HeldStep ==
    MarkInv /\ TypeOK /\ PlaceInv /\ HeldInv /\ [Next]_vars => HeldInv'
  <1> SUFFICES ASSUME MarkInv, TypeOK, PlaceInv, HeldInv, [Next]_vars
               PROVE  HeldInv'
    OBVIOUS
  <1> USE DEF mailVars, threadVars, worldVars, history
  <1>0. ASSUME UNCHANGED <<restart, held, typed>>, accepted \subseteq accepted',
               \A a \in Threads : pc'[a] = "typing" => pc[a] = "typing" /\ jobs'[a] = jobs[a]
        PROVE  HeldInv'
    <2>1. TypedMessages' = TypedMessages
      BY <1>0 DEF TypedMessages
    <2> QED
      BY <1>0, <2>1, HeldFrame
  <1>1. ASSUME NEW a \in Threads, NEW m, Decide(a, m), UNCHANGED <<restart, held, typed>>
        PROVE  HeldInv'
    <2>1. accepted \subseteq accepted'
      BY <1>1, DecideCases DEF Reply, Takes
    <2>2. ASSUME NEW s, Takes(a, m, s), TypesAtOnce(s)
          PROVE  \A b \in Threads : pc'[b] = "typing" => pc[b] = "typing" /\ jobs'[b] = jobs[b]
      BY <2>2 DEF Takes, TypeOK
    <2>3. \A b \in Threads : pc'[b] = "typing" => pc[b] = "typing" /\ jobs'[b] = jobs[b]
      <3>1. ASSUME UNCHANGED <<pc, jobs>>
            PROVE  \A b \in Threads : pc'[b] = "typing" => pc[b] = "typing" /\ jobs'[b] = jobs[b]
        BY <3>1
      <3>2. \/ UNCHANGED <<pc, jobs>>
            \/ \E s \in Sessions : Takes(a, m, s) /\ TypesAtOnce(s)
        BY <1>1, DecideCases DEF Reply, Takes
      <3> QED
        BY <2>2, <3>1, <3>2
    <2> QED
      BY <1>0, <1>1, <2>1, <2>3
  <1>2. CASE TickChecks \/ TickTakes
    <2>1. /\ UNCHANGED <<restart, held, typed, accepted>>
          /\ pc'[Ticker] # "typing"
          /\ \A b \in Threads \ {Ticker} : pc'[b] = pc[b] /\ jobs'[b] = jobs[b]
      BY <1>2, ThreadFacts DEF TickChecks, TickTakes, TypeOK
    <2> QED
      BY <1>0, <2>1
  <1>3. ASSUME NEW a \in Threads, Submit(a) PROVE HeldInv'
    <2>0. /\ UNCHANGED <<restart, held, typed, accepted, jobs>>
          /\ \A b \in Threads \ {a} : pc'[b] = pc[b]
      BY <1>3 DEF Submit, TypeOK
    <2>1. CASE draining
      <3>1. pc'[a] = "done"
        BY <1>3, <2>1 DEF Submit, TypeOK
      <3> QED
        BY <1>0, <2>0, <3>1
    <2>2. CASE ~draining
      <3>1. \A s \in Sessions : Items(held[s]) = {}
        BY <2>2, NothingHeld DEF draining, HeldInv
      <3>2. \A s \in Sessions : Items(held[s])' = Items(held[s])
        BY <2>0 DEF Items
      <3>3. held' = Nothing
        BY <2>0, <2>2 DEF draining, HeldInv
      <3> QED
        BY <3>1, <3>2, <3>3 DEF HeldInv, Nothing
    <2> QED
      BY <2>1, <2>2
  <1>4. ASSUME NEW a \in Threads, Types(a) PROVE HeldInv'
    <2>1. /\ UNCHANGED <<restart, held, accepted, jobs>> /\ pc[a] = "typing" /\ pc'[a] # "typing"
          /\ \A b \in Threads \ {a} : pc'[b] = pc[b]
      BY <1>4 DEF Types, TypeOK
    <2>2. TypedMessages' = TypedMessages \cup {Current(a).msg}
      BY <1>4, TypedGrows
    <2>3. \A s \in Sessions : Items(held[s])' = Items(held[s])
      BY <2>1 DEF Items
    <2>4. \A b \in Threads : Current(b)' = Current(b)
      BY <2>1, SameCurrent
    <2> QED
      BY <2>1, <2>2, <2>3, <2>4 DEF HeldInv, Nothing
  <1>5. ASSUME NEW a \in Threads, TypeFails(a) \/ Panics(a) \/ Finish(a)
        PROVE  HeldInv'
    <2>1. /\ UNCHANGED <<restart, held, typed, accepted>> /\ pc'[a] # "typing"
          /\ \A b \in Threads \ {a} : pc'[b] = pc[b] /\ jobs'[b] = jobs[b]
      BY <1>5 DEF TypeFails, Panics, Finish, TypeOK
    <2> QED
      BY <1>0, <2>1
  <1>6. CASE DrainStarts \/ DrainCancelled \/ SwapFails
    <2>1. held' = Nothing /\ UNCHANGED <<pc, jobs, typed, accepted>>
      BY <1>6 DEF DrainStarts, DrainCancelled, SwapFails, Restart
    <2>2. \A s \in Sessions : Items(held[s])' = {}
      BY <2>1, NothingHeld DEF Items
    <2> QED
      BY <2>1, <2>2 DEF HeldInv, Nothing
  <1>7. CASE CopyHeld
    <2>1. held' = queue /\ restart' = "copied" /\ UNCHANGED <<pc, jobs, typed, accepted>>
      BY <1>7 DEF CopyHeld, Restart
    <2>2. \A s \in Sessions : Items(held[s])' = Items(queue[s])
      BY <2>1 DEF Items
    <2>3. TypedMessages' = TypedMessages
      BY <2>1 DEF TypedMessages
    <2>4. \A s \in Sessions : Items(queue[s]) \subseteq accepted \ TypedMessages
      BY DEF PlaceInv
    <2>5. \A a \in Threads : pc[a] = "typing" =>
              Current(a)' = Current(a) /\ Current(a) \in jobs[a]
      BY <2>1, SameCurrent, CurrentFacts
    <2>6. \A a \in Threads : pc'[a] = "typing" =>
              \A s \in Sessions : Current(a)'.msg \notin Items(queue[s])
      BY <2>1, <2>5 DEF PlaceInv
    <2> QED
      BY <2>1, <2>2, <2>3, <2>4, <2>6 DEF HeldInv
  <1>8. CASE Exit
    <2>1. UNCHANGED <<held, pc, jobs, typed, accepted>> /\ restart' = "over"
      BY <1>8 DEF Exit, Restart
    <2>2. TypedMessages' = TypedMessages /\ (\A s \in Sessions : Items(held[s])' = Items(held[s]))
          /\ \A a \in Threads : Current(a)' = Current(a)
      BY <2>1, SameCurrent DEF TypedMessages, Items
    <2> QED
      BY <2>1, <2>2 DEF HeldInv
  <1>9. CASE \/ (\E s \in Sessions : SessionChanges(s))
             \/ (\E new \in SUBSET Peers : Commit(new)) \/ UNCHANGED vars
    BY <1>0, <1>9 DEF SessionChanges, Commit, vars
  <1>10. ASSUME NEW m \in Messages, Receive(m) PROVE HeldInv'
    BY <1>1, <1>10, ThreadFacts DEF Receive
  <1>11. ASSUME NEW c \in Clients, NEW m \in Messages, SendHere(c, m) PROVE HeldInv'
    BY <1>1, <1>11, ThreadFacts DEF SendHere
  <1> QED
    BY <1>2, <1>3, <1>4, <1>5, <1>6, <1>7, <1>8, <1>9, <1>10, <1>11 DEF Next, Works

-----------------------------------------------------------------------------
MeshInv ==
    /\ MarkInv /\ TypeOK /\ RemovedIsForgotten
    /\ PlaceInv /\ AnswerInv /\ HeldInv

LEMMA MeshInvariant == Spec => []MeshInv
  <1>1. Init => MeshInv
    BY MarkInit, TypeInit, RemovedInit, PlaceInit, AnswerInit, HeldInit DEF MeshInv
  <1>2. MeshInv /\ [Next]_vars => MeshInv'
    BY MarkStep, TypeStep, RemovedStep, PlaceStep, AnswerStep, HeldStep DEF MeshInv
  <1> QED
    BY <1>1, <1>2, PTL DEF Spec

(* Every variable keeps its type, and no queue ever grows past QUEUE_CAP,   *)
(* whichever of the threads puts a message in.                              *)
THEOREM TypeCorrect == Spec => []TypeOK
  <1>1. MeshInv => TypeOK
    BY DEF MeshInv
  <1> QED
    BY <1>1, MeshInvariant, PTL

(* purge_non_members in commit and the check of the sender before a message *)
(* is let in together: what waits in a queue is from members, or from this  *)
(* computer.                                                                *)
THEOREM Forgotten == Spec => []RemovedIsForgotten
  <1>1. MeshInv => RemovedIsForgotten
    BY DEF MeshInv
  <1> QED
    BY <1>1, MeshInvariant, PTL

LEMMA OneOrMore ==
    ASSUME NEW n \in Nat, NEW k \in 1..(1 + n)
    PROVE  k = 1 \/ (k \in 2..(1 + n) /\ k - 1 \in 1..n)
  OBVIOUS

(* What is in a mailbox is in the queue or in the hands of a thread.        *)
LEMMA BoxItems ==
    ASSUME TypeOK, NEW s \in Sessions, NEW m \in Items(Box(s))
    PROVE  \/ m \in Items(queue[s])
           \/ \E a \in Threads : \E j \in jobs[a] : j.msg = m
  <1>1. CASE \E a \in Threads : InHand(a, s) # {}
    <2> DEFINE H == UNION {InHand(a, s) : a \in Threads}
    <2>1. PICK j \in H : j = CHOOSE k \in H : TRUE
      BY <1>1
    <2>2. \E a \in Threads : j \in jobs[a]
      BY DEF InHand
    <2> HIDE DEF H
    <2>3. j.msg \in Messages
      BY <2>2 DEF TypeOK, Job
    <2>4. Box(s) = <<j.msg>> \o queue[s]
      BY <1>1, <2>1 DEF Box, H
    <2>5. PICK k \in DOMAIN (<<j.msg>> \o queue[s]) : m = (<<j.msg>> \o queue[s])[k]
      BY <2>4 DEF Items
    <2>6. queue[s] \in Seq(Messages) /\ Len(queue[s]) \in Nat
          /\ DOMAIN queue[s] = 1..Len(queue[s])
      BY DEF TypeOK
    <2>7. /\ DOMAIN (<<j.msg>> \o queue[s]) = 1..(1 + Len(queue[s]))
          /\ (<<j.msg>> \o queue[s])[1] = j.msg
          /\ \A i \in 2..(1 + Len(queue[s])) : (<<j.msg>> \o queue[s])[i] = queue[s][i - 1]
      <3>1. <<j.msg>> \in Seq(Messages) /\ Len(<<j.msg>>) = 1
        BY <2>3
      <3> QED
        BY <2>3, <2>6, <3>1
    <2>8. k = 1 \/ (k \in 2..(1 + Len(queue[s])) /\ k - 1 \in 1..Len(queue[s]))
      <3>1. k \in 1..(1 + Len(queue[s]))
        BY <2>5, <2>7, Zenon
      <3> QED
        BY <2>6, <3>1, OneOrMore
    <2>9. \/ (k = 1 /\ m = j.msg)
         \/ (k - 1 \in DOMAIN queue[s] /\ m = queue[s][k - 1])
      <3>1. CASE k = 1
        BY <2>5, <2>7, <3>1
      <3>2. CASE k \in 2..(1 + Len(queue[s])) /\ k - 1 \in 1..Len(queue[s])
        BY <2>5, <2>6, <2>7, <3>2
      <3> QED
        BY <2>8, <3>1, <3>2
    <2> QED
      BY <2>2, <2>9 DEF Items
  <1>2. CASE ~\E a \in Threads : InHand(a, s) # {}
    BY <1>2 DEF Box
  <1> QED
    BY <1>1, <1>2

(* A receipt is never false, though it is given by one thread while others  *)
(* type, throw away and queue: "delivered" only after the typing, and a     *)
(* message that was turned down is neither typed later nor waits.           *)
THEOREM ReceiptsHold == Spec => []ReceiptIsTrue
  <1>1. MeshInv => ReceiptIsTrue
    <2> SUFFICES ASSUME MeshInv, NEW m \in Messages
                 PROVE  /\ answer[m] = "Delivered" => m \in TypedMessages
                        /\ answer[m] \in TurnedDown =>
                              \A s \in Sessions : m \notin TypedMessages \cup Items(Box(s))
      BY DEF ReceiptIsTrue, TurnedDown
    <2>1. AnswerInv /\ TypeOK
      BY DEF MeshInv
    <2> QED
      BY <2>1, BoxItems DEF AnswerInv
  <1> QED
    BY <1>1, MeshInvariant, PTL

(* The daemon goes on for a while after it has copied the queues for its    *)
(* successor; nothing of the copy is typed in that time.                    *)
THEOREM CopyIsNotTyped == Spec => []HeldIsNotTyped
  <1>1. MeshInv => HeldIsNotTyped
    BY DEF MeshInv, HeldInv, HeldIsNotTyped
  <1> QED
    BY <1>1, MeshInvariant, PTL

-----------------------------------------------------------------------------
(* The mailboxes of MailPromise.  What some thread is about to type into a  *)
(* session is in front of its queue; OneAtATime says that this is one       *)
(* message at most.                                                         *)
Boxes ==
    \A s \in Sessions :
        /\ \A a \in Threads : \A j \in InHand(a, s) : Box(s) = <<j.msg>> \o queue[s]
        /\ (\A a \in Threads : InHand(a, s) = {}) => Box(s) = queue[s]

LEMMA BoxesAre == MarkInv => Boxes
  <1> SUFFICES ASSUME MarkInv, NEW s \in Sessions
               PROVE  /\ \A a \in Threads : \A j \in InHand(a, s) :
                            Box(s) = <<j.msg>> \o queue[s]
                      /\ (\A a \in Threads : InHand(a, s) = {}) => Box(s) = queue[s]
    BY DEF Boxes
  <1>1. ASSUME NEW a \in Threads, NEW j \in InHand(a, s)
        PROVE  Box(s) = <<j.msg>> \o queue[s]
    <2>1. \A b \in Threads : \A k \in InHand(b, s) : k = j
      BY DEF InHand, MarkInv, OneAtATime
    <2>2. UNION {InHand(b, s) : b \in Threads} = {j}
      BY <2>1
    <2>3. (CHOOSE k \in {j} : TRUE) = j
      OBVIOUS
    <2>4. \E b \in Threads : InHand(b, s) # {}
      OBVIOUS
    <2> QED
      BY <2>2, <2>3, <2>4 DEF Box
  <1>2. (\A a \in Threads : InHand(a, s) = {}) => Box(s) = queue[s]
    BY DEF Box
  <1> QED
    BY <1>1, <1>2

LEMMA BoxesNext == MarkInv' => Boxes'
  BY BoxesAre, PTL

LEMMA BoxType ==
    ASSUME MarkInv, TypeOK, NEW s \in Sessions
    PROVE  Box(s) \in Seq(Messages)
  <1>1. Boxes /\ queue[s] \in Seq(Messages)
    BY BoxesAre DEF TypeOK
  <1>2. \A a \in Threads : \A j \in InHand(a, s) : <<j.msg>> \in Seq(Messages)
    <2>1. \A a \in Threads : \A j \in InHand(a, s) : j.msg \in Messages
      BY DEF InHand, TypeOK, Job
    <2> QED
      BY <2>1
  <1>3. \A a \in Threads : \A j \in InHand(a, s) : Box(s) \in Seq(Messages)
    <2> SUFFICES ASSUME NEW a \in Threads, NEW j \in InHand(a, s)
                 PROVE  Box(s) \in Seq(Messages)
      OBVIOUS
    <2>1. Box(s) = <<j.msg>> \o queue[s] /\ <<j.msg>> \in Seq(Messages)
      BY <1>1, <1>2 DEF Boxes
    <2> QED
      BY <1>1, <2>1
  <1> QED
    BY <1>1, <1>3 DEF Boxes

(* A thread that neither takes jobs nor begins or ends one has the same in  *)
(* hand.                                                                    *)
LEMMA SameHand ==
    ASSUME NEW a \in Threads, jobs'[a] = jobs[a], pc'[a] = "done" <=> pc[a] = "done"
    PROVE  \A s \in Sessions : InHand(a, s)' = InHand(a, s)
  BY SameCurrent DEF InHand

LEMMA SameBox ==
    ASSUME MarkInv, MarkInv', NEW s \in Sessions, queue'[s] = queue[s],
           \A a \in Threads : InHand(a, s)' = InHand(a, s)
    PROVE  Box(s)' = Box(s)
  <1>1. Boxes /\ Boxes'
    BY BoxesAre, BoxesNext
  <1>2. ASSUME NEW a \in Threads, NEW j \in InHand(a, s) PROVE Box(s)' = Box(s)
    <2>1. Box(s) = <<j.msg>> \o queue[s] /\ Box(s)' = <<j.msg>> \o queue'[s]
      BY <1>1, <1>2 DEF Boxes
    <2> QED
      BY <2>1
  <1>3. ASSUME \A a \in Threads : InHand(a, s) = {} PROVE Box(s)' = Box(s)
    BY <1>1, <1>3 DEF Boxes
  <1> QED
    BY <1>2, <1>3

(* Throwing out of the queue of a session, but not out of the hands.        *)
LEMMA BoxThrows ==
    ASSUME MarkInv, MarkInv', TypeOK, NEW s \in Sessions, NEW lost,
           \A a \in Threads : InHand(a, s)' = InHand(a, s),
           \A a \in Threads : \A j \in InHand(a, s) : j.msg \notin lost,
           queue'[s] = Without(queue[s], lost)
    PROVE  Box(s)' = Without(Box(s), lost)
  <1>1. Boxes /\ Boxes' /\ queue[s] \in Seq(Messages)
    BY BoxesAre, BoxesNext DEF TypeOK
  <1>2. ASSUME NEW a \in Threads, NEW j \in InHand(a, s)
        PROVE  Box(s)' = Without(Box(s), lost)
    <2>1. Box(s) = <<j.msg>> \o queue[s] /\ Box(s)' = <<j.msg>> \o queue'[s]
      BY <1>1, <1>2 DEF Boxes
    <2>2. j.msg \in Messages /\ j.msg \notin lost
      BY DEF InHand, TypeOK, Job
    <2> QED
      BY <1>1, <2>1, <2>2, WithoutBehind
  <1>3. ASSUME \A a \in Threads : InHand(a, s) = {}
        PROVE  Box(s)' = Without(Box(s), lost)
    <2>1. Box(s) = queue[s] /\ Box(s)' = queue'[s]
      BY <1>1, <1>3 DEF Boxes
    <2> QED
      BY <2>1
  <1> QED
    BY <1>2, <1>3

(* Giving up what is in hand for a session.                                 *)
LEMMA BoxGivesUp ==
    ASSUME MarkInv, MarkInv', TypeOK, NEW s \in Sessions, NEW lost,
           NEW a \in Threads, NEW j \in InHand(a, s), j.msg \in lost,
           \A b \in Threads : InHand(b, s)' = {},
           queue'[s] = queue[s], \A m \in Items(queue[s]) : m \notin lost
    PROVE  Box(s)' = Without(Box(s), lost)
  <1>1. Boxes /\ Boxes' /\ queue[s] \in Seq(Messages)
    BY BoxesAre, BoxesNext DEF TypeOK
  <1>2. Box(s) = <<j.msg>> \o queue[s] /\ Box(s)' = queue[s]
    BY <1>1 DEF Boxes
  <1>3. j.msg \in Messages
    BY DEF InHand, TypeOK, Job
  <1> QED
    BY <1>1, <1>2, <1>3, WithoutHead

-----------------------------------------------------------------------------
(* The four kinds of steps of MailPromise.                                  *)
MailStep == [Promise!Next]_(Promise!mailVars)

LEMMA Stutters ==
    ASSUME \A s \in Sessions : Box(s)' = Box(s), UNCHANGED <<typed, accepted>>
    PROVE  MailStep
  BY DEF MailStep, Promise!mailVars

LEMMA Accepts ==
    ASSUME NEW s \in Sessions, NEW m \in Messages,
           m \notin accepted, accepted' = accepted \cup {m}, UNCHANGED typed,
           Box(s)' = Append(Box(s), m), \A t \in Sessions \ {s} : Box(t)' = Box(t)
    PROVE  MailStep
  <1>1. Promise!Accept(s, m)
    BY DEF Promise!Accept
  <1> QED
    BY <1>1 DEF MailStep, Promise!Next

LEMMA Throws ==
    ASSUME NEW lost \in SUBSET Messages, UNCHANGED <<typed, accepted>>,
           \A s \in Sessions : Box(s)' = Without(Box(s), lost)
    PROVE  MailStep
  <1>1. \A q : Promise!Without(q, lost) = Without(q, lost)
    BY DEF Promise!Without, Without
  <1>2. Promise!ThrowAway(lost)
    BY <1>1 DEF Promise!ThrowAway
  <1> QED
    BY <1>2 DEF MailStep, Promise!Next

LEMMA TypesMail ==
    ASSUME NEW s \in Sessions, NEW m \in Messages, NEW q \in Seq(Messages),
           Box(s) = <<m>> \o q, Box(s)' = q,
           \A t \in Sessions \ {s} : Box(t)' = Box(t),
           typed' = [typed EXCEPT ![s] = Append(typed[s], m)], UNCHANGED accepted
    PROVE  MailStep
  <1>1. <<m>> \o q # <<>> /\ Head(<<m>> \o q) = m /\ Tail(<<m>> \o q) = q
    <2>1. <<m>> \in Seq(Messages) /\ Len(<<m>> \o q) = Len(q) + 1 /\ Len(q) \in Nat
      OBVIOUS
    <2>2. Head(<<m>> \o q) = m /\ <<m>> \o q # <<>>
      BY <2>1
    <2>3. Tail(<<m>> \o q) = q
      BY <2>1, HeadTailProperties
    <2> QED
      BY <2>2, <2>3
  <1>2. Promise!Type(s)
    BY <1>1 DEF Promise!Type
  <1> QED
    BY <1>2 DEF MailStep, Promise!Next

-----------------------------------------------------------------------------
(* Every step of MeshDeliver is one of these.                               *)
LEMMA DecideRefines ==
    ASSUME NEW a \in Threads, NEW m \in Messages, MarkInv, MarkInv', TypeOK, PlaceInv,
           pc[a] = "ready", m \notin accepted, Decide(a, m), UNCHANGED typed
    PROVE  MailStep
  <1>0. Boxes /\ Boxes' /\ \A s \in Sessions : queue[s] \in Seq(Messages)
    BY BoxesAre, BoxesNext DEF TypeOK
  <1>1. ASSUME NEW r, Reply(m, r) PROVE MailStep
    <2>1. UNCHANGED <<queue, pc, jobs, accepted>>
      BY <1>1 DEF Reply, threadVars
    <2>2. \A s \in Sessions : Box(s)' = Box(s)
      BY <2>1, SameHand, SameBox
    <2> QED
      BY <2>1, <2>2, Stutters
  <1>2. ASSUME NEW s \in Sessions, Takes(a, m, s), TypesAtOnce(s) PROVE MailStep
    <2> DEFINE new == [to |-> s, msg |-> m]
    <2>1. /\ jobs' = [jobs EXCEPT ![a] = {new}] /\ pc' = [pc EXCEPT ![a] = "job"]
          /\ accepted' = accepted \cup {m} /\ UNCHANGED queue
          /\ queue[s] = <<>> /\ s \notin inFlight
      BY <1>2 DEF Takes, TypesAtOnce
    <2>2. new.to = s /\ new.msg = m
      OBVIOUS
    <2> HIDE DEF new
    <2>3. jobs[a] = {} /\ jobs'[a] = {new} /\ pc'[a] = "job"
          /\ \A b \in Threads \ {a} : jobs'[b] = jobs[b] /\ pc'[b] = pc[b]
      BY <2>1 DEF MarkInv, HandsInv
    <2>4. \A b \in Threads : InHand(b, s) = {}
      BY <2>1 DEF InHand, MarkInv, OneAtATime
    <2>5. Box(s) = <<>>
      BY <1>0, <2>1, <2>4 DEF Boxes
    <2>6. new \in InHand(a, s)'
      BY <2>2, <2>3 DEF InHand
    <2>7. Box(s)' = <<m>> \o queue'[s]
      BY <1>0, <2>2, <2>6 DEF Boxes
    <2>8. Box(s)' = Append(Box(s), m)
      <3>1. <<m>> \in Seq(Messages) /\ Append(<<>>, m) = <<m>>
        OBVIOUS
      <3>2. <<m>> \o <<>> = <<m>>
        BY <3>1, ConcatEmptySeq
      <3> QED
        BY <2>1, <2>5, <2>7, <3>1, <3>2
    <2>9. \A t \in Sessions \ {s} : Box(t)' = Box(t)
      <3> TAKE t \in Sessions \ {s}
      <3>1. InHand(a, t) = {} /\ InHand(a, t)' = {}
        BY <2>2, <2>3 DEF InHand
      <3>2. \A b \in Threads : InHand(b, t)' = InHand(b, t)
        BY <2>3, <3>1, SameHand
      <3> QED
        BY <2>1, <3>2, SameBox
    <2> QED
      BY <2>1, <2>8, <2>9, Accepts
  <1>3. ASSUME NEW s \in Sessions, Takes(a, m, s), ~TypesAtOnce(s) PROVE MailStep
    <2>1. /\ queue' = [queue EXCEPT ![s] = Append(queue[s], m)]
          /\ accepted' = accepted \cup {m} /\ UNCHANGED <<pc, jobs>>
      BY <1>3 DEF Takes, threadVars
    <2>2. \A b \in Threads : \A t \in Sessions : InHand(b, t)' = InHand(b, t)
      BY <2>1, SameHand
    <2>3. queue'[s] = Append(queue[s], m) /\ \A t \in Sessions \ {s} : queue'[t] = queue[t]
      BY <2>1 DEF TypeOK
    <2>4. \A t \in Sessions \ {s} : Box(t)' = Box(t)
      BY <2>2, <2>3, SameBox
    <2>5. ASSUME NEW b \in Threads, NEW j \in InHand(b, s)
          PROVE  Box(s)' = Append(Box(s), m)
      <3>1. Box(s) = <<j.msg>> \o queue[s] /\ Box(s)' = <<j.msg>> \o queue'[s]
        BY <1>0, <2>2, <2>5 DEF Boxes
      <3>2. j.msg \in Messages
        BY DEF InHand, TypeOK, Job
      <3> QED
        BY <1>0, <2>3, <3>1, <3>2, AppendBehind
    <2>6. ASSUME \A b \in Threads : InHand(b, s) = {}
          PROVE  Box(s)' = Append(Box(s), m)
      <3>1. Box(s) = queue[s] /\ Box(s)' = queue'[s]
        BY <1>0, <2>2, <2>6 DEF Boxes
      <3> QED
        BY <2>3, <3>1
    <2>7. Box(s)' = Append(Box(s), m)
      BY <2>5, <2>6
    <2> QED
      BY <2>1, <2>4, <2>7, Accepts
  <1> QED
    BY <1>1, <1>2, <1>3, DecideCases

(* A thread gives up some of what it has in hand: it was turned away, the   *)
(* typing failed, or it panicked.                                           *)
LEMMA HandsThrow ==
    ASSUME NEW a \in Threads, NEW gone \in SUBSET jobs[a],
           MarkInv, MarkInv', TypeOK, PlaceInv,
           UNCHANGED <<queue, typed, accepted>>,
           \A b \in Threads \ {a} : jobs'[b] = jobs[b] /\ pc'[b] = pc[b],
           pc[a] # "done",
           \A s \in Sessions : InHand(a, s)' = InHand(a, s) \ gone
    PROVE  MailStep
  <1> DEFINE lost == {j.msg : j \in gone}
  <1>1. lost \in SUBSET Messages
    BY DEF TypeOK, Job
  <1>2. \A s \in Sessions : \A m \in Items(queue[s]) : m \notin lost
    BY DEF PlaceInv
  <1>3. \A b \in Threads : \A j \in jobs[b] : j.msg \in lost <=> j \in gone
    BY DEF PlaceInv
  <1> HIDE DEF lost
  <1>4. \A s \in Sessions : \A b \in Threads \ {a} : InHand(b, s)' = InHand(b, s)
    BY SameHand
  <1>5. ASSUME NEW s \in Sessions PROVE Box(s)' = Without(Box(s), lost)
    <2>0. queue[s] \in Seq(Messages)
      BY DEF TypeOK
    <2>1. ASSUME NEW j \in InHand(a, s), j \in gone
          PROVE  Box(s)' = Without(Box(s), lost)
      <3>1. \A b \in Threads : \A k \in InHand(b, s) : b = a /\ k = j
        BY <2>1 DEF InHand, MarkInv, OneAtATime
      <3>2. \A b \in Threads : InHand(b, s)' = {}
        BY <1>4, <2>1, <3>1
      <3>3. j.msg \in lost
        BY <1>3, <2>1
      <3> QED
        BY <1>2, <2>1, <3>2, <3>3, BoxGivesUp
    <2>2. ASSUME \A j \in InHand(a, s) : j \notin gone
          PROVE  Box(s)' = Without(Box(s), lost)
      <3>1. \A b \in Threads : InHand(b, s)' = InHand(b, s)
        BY <1>4, <2>2
      <3>2. \A b \in Threads : \A j \in InHand(b, s) : j \notin gone
        BY <2>2 DEF InHand, MarkInv, OneAtATime
      <3>3. \A b \in Threads : \A j \in InHand(b, s) : j.msg \notin lost
        BY <1>3, <3>2 DEF InHand
      <3>4. queue'[s] = Without(queue[s], lost)
        BY <1>2, <2>0, WithoutNone
      <3> QED
        BY <3>1, <3>3, <3>4, BoxThrows
    <2> QED
      BY <2>1, <2>2
  <1> QED
    BY <1>1, <1>5, Throws

LEMMA WorksRefines ==
    ASSUME NEW a \in Threads, MarkInv, MarkInv', TypeOK, PlaceInv, Works(a)
    PROVE  MailStep
  <1> USE DEF mailVars, threadVars, worldVars, history
  <1>0. Boxes /\ Boxes' /\ \A s \in Sessions : queue[s] \in Seq(Messages)
    BY BoxesAre, BoxesNext DEF TypeOK
  <1>1. ASSUME Submit(a), ~draining PROVE MailStep
    <2>1. /\ UNCHANGED <<queue, jobs, typed, accepted>>
          /\ \A b \in Threads : pc'[b] = "done" <=> pc[b] = "done"
      BY <1>1 DEF Submit, TypeOK
    <2>2. \A s \in Sessions : Box(s)' = Box(s)
      BY <2>1, SameHand, SameBox
    <2> QED
      BY <2>1, <2>2, Stutters
  <1>2. ASSUME (Submit(a) /\ draining) \/ TypeFails(a) PROVE MailStep
    <2>1. /\ UNCHANGED <<queue, jobs, typed, accepted>>
          /\ \A b \in Threads \ {a} : pc'[b] = pc[b]
          /\ pc[a] \in {"job", "typing"} /\ pc'[a] = "done"
      BY <1>2 DEF Submit, TypeFails, TypeOK
    <2>2. Current(a) \in jobs[a] /\ Current(a)' = Current(a)
      BY <2>1, CurrentFacts, SameCurrent
    <2>3. \A s \in Sessions : InHand(a, s)' = InHand(a, s) \ {Current(a)}
      BY <2>1, <2>2 DEF InHand
    <2>4. {Current(a)} \in SUBSET jobs[a]
      BY <2>2
    <2> QED
      BY <2>1, <2>3, <2>4, HandsThrow
  <1>3. CASE Types(a)
    <2>1. /\ UNCHANGED <<queue, jobs, accepted>>
          /\ \A b \in Threads \ {a} : pc'[b] = pc[b]
          /\ pc[a] = "typing" /\ pc'[a] = "done"
          /\ typed' = [typed EXCEPT ![Current(a).to] = Append(typed[Current(a).to], Current(a).msg)]
      BY <1>3 DEF Types, TypeOK
    <2>2. /\ Current(a) \in jobs[a] /\ Current(a)' = Current(a)
          /\ Current(a).to \in Sessions /\ Current(a).msg \in Messages
      BY <2>1, CurrentFacts, SameCurrent
    <2>3. PICK s \in Sessions : s = Current(a).to
      BY <2>2
    <2>4. PICK j \in jobs[a] : j = Current(a)
      BY <2>2
    <2>5. j \in InHand(a, s)
      BY <2>1, <2>3, <2>4 DEF InHand
    <2>6. \A b \in Threads : \A k \in jobs[b] : k.to = s => b = a /\ k = j
      BY <2>3, <2>4 DEF MarkInv, OneAtATime
    <2>7. \A b \in Threads : InHand(b, s)' = {}
      <3>1. \A b \in Threads \ {a} : InHand(b, s)' = {}
        BY <2>1, <2>6 DEF InHand
      <3>2. InHand(a, s)' = {}
        BY <2>1, <2>2, <2>4, <2>6 DEF InHand
      <3> QED
        BY <3>1, <3>2
    <2>8. Box(s) = <<j.msg>> \o queue[s] /\ Box(s)' = queue[s]
      BY <1>0, <2>1, <2>5, <2>7 DEF Boxes
    <2>9. \A t \in Sessions \ {s} : Box(t)' = Box(t)
      <3> TAKE t \in Sessions \ {s}
      <3>1. \A b \in Threads \ {a} : InHand(b, t)' = InHand(b, t)
        BY <2>1, SameHand
      <3>2. InHand(a, t)' = InHand(a, t)
        BY <2>1, <2>2, <2>3 DEF InHand
      <3> QED
        BY <2>1, <3>1, <3>2, SameBox
    <2> QED
      BY <1>0, <2>1, <2>2, <2>3, <2>4, <2>8, <2>9, TypesMail
  <1>4. CASE Panics(a)
    <2>1. /\ UNCHANGED <<queue, typed, accepted>> /\ pc[a] = "typing"
          /\ jobs'[a] = {} /\ \A b \in Threads \ {a} : jobs'[b] = jobs[b] /\ pc'[b] = pc[b]
      BY <1>4 DEF Panics, TypeOK
    <2>2. \A s \in Sessions : InHand(a, s)' = InHand(a, s) \ jobs[a]
      BY <2>1 DEF InHand
    <2>3. jobs[a] \in SUBSET jobs[a]
      OBVIOUS
    <2> QED
      BY <2>1, <2>2, <2>3, HandsThrow
  <1>5. CASE Finish(a)
    <2>1. /\ UNCHANGED <<queue, typed, accepted>>
          /\ jobs'[a] = jobs[a] \ {Current(a)} /\ pc[a] = "done" /\ pc'[a] # "done"
          /\ \A b \in Threads \ {a} : jobs'[b] = jobs[b] /\ pc'[b] = pc[b]
      BY <1>5 DEF Finish, TypeOK
    <2>2. \A s \in Sessions : InHand(a, s)' = InHand(a, s)
      BY <2>1 DEF InHand
    <2>3. \A s \in Sessions : Box(s)' = Box(s)
      BY <2>1, <2>2, SameHand, SameBox
    <2> QED
      BY <2>1, <2>3, Stutters
  <1> QED
    BY <1>1, <1>2, <1>3, <1>4, <1>5 DEF Works

(* What the delivery thread throws away when it looks at the queues: what   *)
(* it skips in front of the message it takes, and what waits for a session  *)
(* that has ended or has nothing welcome.                                   *)
Taken == {s \in Sessions : Free(s) /\ Welcome(s) # {}}

Skipped ==
    (UNION {Items(queue[s]) : s \in Sessions})
      \ {queue[s][First(s)] : s \in Taken}

LEMMA TickLoses ==
    ASSUME TypeOK, PlaceInv, TickTakes, NEW s \in Sessions
    PROVE  LET lost == Skipped \ UNION {Items(queue'[t]) : t \in Sessions} IN
           /\ s \in Taken => /\ Without(queue[s], lost) = <<queue[s][First(s)]>> \o queue'[s]
           /\ s \notin Taken => queue'[s] = Without(queue[s], lost)
  <1> DEFINE left == UNION {Items(queue'[t]) : t \in Sessions}
             lost == Skipped \ left
             q == queue[s]
  <1>1. q \in Seq(Messages) /\ DOMAIN q = 1..Len(q) /\ Len(q) \in Nat /\ Distinct(q)
    BY QueueTypes DEF PlaceInv
  <1>2. queue'[s] = IF s \in Taken
                    THEN SubSeq(q, First(s) + 1, Len(q))
                    ELSE IF Ended(s) \/ Free(s) THEN <<>> ELSE q
    BY DEF TickTakes, Taken
  <1>3. \A t \in Sessions : Items(queue'[t]) \subseteq Items(queue[t])
    BY TickLeaves
  <1>4. \A t \in Taken : queue[t][First(t)] \in Items(queue[t])
    BY TickParts DEF Taken
  <1>5. \A m \in Items(q) : m \in left <=> m \in Items(queue'[s])
    BY <1>3 DEF PlaceInv
  <1>6. \A m \in Items(q) : m \in lost <=>
           /\ m \notin Items(queue'[s])
           /\ ~(s \in Taken /\ m = q[First(s)])
    <2> SUFFICES ASSUME NEW m \in Items(q)
                 PROVE  m \in Skipped <=> ~(s \in Taken /\ m = q[First(s)])
      BY <1>5
    <2>1. \A t \in Taken : t # s => queue[t][First(t)] # m
      BY <1>4 DEF PlaceInv, Taken
    <2>2. m \in {queue[t][First(t)] : t \in Taken} <=> s \in Taken /\ m = q[First(s)]
      BY <2>1
    <2>3. m \in UNION {Items(queue[t]) : t \in Sessions}
      OBVIOUS
    <2> QED
      BY <2>2, <2>3 DEF Skipped
  <1> HIDE DEF lost
  <1>7. CASE s \in Taken
    <2>1. PICK p \in 1..Len(q) : p = First(s)
      BY <1>7, FirstIsWelcome DEF Taken
    <2>2. queue'[s] = SubSeq(q, p + 1, Len(q))
      BY <1>2, <1>7, <2>1
    <2>3. \A i \in (p + 1)..Len(q) : q[i] \in Messages
      BY <1>1, <2>1
    <2>4. /\ DOMAIN queue'[s] = 1..(Len(q) - p)
          /\ \A i \in 1..(Len(q) - p) : queue'[s][i] = q[p + i] /\ p + i \in DOMAIN q
      <3>1. /\ queue'[s] \in Seq(Messages) /\ Len(queue'[s]) = Len(q) - p
            /\ \A i \in 1..(Len(q) - p) : queue'[s][i] = q[p + i]
        BY <1>1, <2>2, <2>3, SubSeqProperties
      <3> QED
        BY <1>1, <3>1
    <2>5. \A k \in 1..(p - 1) : q[k] \in lost
      <3> SUFFICES ASSUME NEW k \in 1..(p - 1) PROVE q[k] \in lost
        OBVIOUS
      <3>1. k \in DOMAIN q /\ k # p /\ \A i \in 1..(Len(q) - p) : k # p + i
        BY <1>1
      <3>2. q[k] \notin Items(queue'[s]) /\ q[k] # q[p]
        BY <1>1, <2>4, <3>1 DEF Distinct, Items
      <3>3. q[k] \in Items(q)
        BY <3>1 DEF Items
      <3> QED
        BY <1>6, <2>1, <3>2, <3>3
    <2>6. \A k \in p..Len(q) : q[k] \notin lost
      <3> SUFFICES ASSUME NEW k \in p..Len(q), k # p PROVE q[k] \notin lost
        BY <1>1, <1>6, <1>7, <2>1 DEF Items
      <3>1. PICK i \in 1..(Len(q) - p) : k = p + i
        <4>1. k - p \in 1..(Len(q) - p) /\ k = p + (k - p)
          BY <1>1
        <4> QED
          BY <4>1
      <3>2. q[k] \in Items(queue'[s])
        BY <2>4, <3>1 DEF Items
      <3>3. q[k] \in Items(q)
        BY <1>1 DEF Items
      <3> QED
        BY <1>6, <3>2, <3>3
    <2>7. Without(q, lost) = SubSeq(q, p, Len(q))
      <3>1. PICK r \in 0..Len(q) : r = p - 1
        BY <1>1
      <3>2. r + 1 = p
        BY <3>1
      <3>3. Without(q, lost) = SubSeq(q, r + 1, Len(q))
        BY <1>1, <2>5, <2>6, <3>1, <3>2, WithoutFront
      <3> QED
        BY <3>2, <3>3
    <2>8. Without(q, lost) = <<q[p]>> \o queue'[s]
      BY <1>1, <2>2, <2>7, EndFrom
    <2> QED
      BY <1>7, <2>1, <2>8 DEF lost
  <1>8. CASE s \notin Taken
    <2>1. CASE queue'[s] = <<>>
      <3>1. Items(<<>>) = {}
        BY DEF Items
      <3>2. Without(q, lost) = <<>>
        BY <1>1, <1>6, <1>8, <2>1, <3>1, WithoutAll
      <3> QED
        BY <1>8, <2>1, <3>2 DEF lost
    <2>2. CASE queue'[s] = q
      <3>1. Without(q, lost) = q
        BY <1>1, <1>6, <2>2, WithoutNone
      <3> QED
        BY <1>8, <2>2, <3>1 DEF lost
    <2> QED
      BY <1>2, <1>8, <2>1, <2>2
  <1> QED
    BY <1>7, <1>8

LEMMA TickRefines ==
    ASSUME MarkInv, MarkInv', TypeOK, PlaceInv, TickTakes
    PROVE  MailStep
  <1> DEFINE lost == Skipped \ UNION {Items(queue'[t]) : t \in Sessions}
             job(s) == [to |-> s, msg |-> queue[s][First(s)]]
             new == {job(s) : s \in Taken}
  <1>0. Boxes /\ Boxes' /\ \A s \in Sessions : queue[s] \in Seq(Messages)
    BY BoxesAre, BoxesNext DEF TypeOK
  <1>1. /\ jobs' = [jobs EXCEPT ![Ticker] = new] /\ pc[Ticker] = "take"
        /\ pc' = [pc EXCEPT ![Ticker] = IF Taken = {} THEN "ready" ELSE "job"]
        /\ UNCHANGED <<typed, accepted>>
    BY DEF TickTakes, history, Taken
  <1>2. /\ \A j \in new : j.to \in Taken
        /\ \A s \in Taken : \E j \in new : j.to = s /\ j.msg = queue[s][First(s)]
    <2>1. /\ \A s \in Taken : job(s) \in new /\ job(s).to = s /\ job(s).msg = queue[s][First(s)]
          /\ \A j \in new : \E s \in Taken : j = job(s)
      OBVIOUS
    <2> HIDE DEF job, new
    <2> QED
      BY <2>1
  <1>3. lost \in SUBSET Messages
    <2>1. \A s \in Sessions : Items(queue[s]) \subseteq Messages
      BY <1>0 DEF Items
    <2> QED
      BY <2>1 DEF Skipped
  <1>4. \A b \in Threads : \A j \in jobs[b] : j.msg \notin lost
    BY DEF PlaceInv, Skipped
  <1>5. \A s \in Sessions :
           /\ s \in Taken => Without(queue[s], lost) = <<queue[s][First(s)]>> \o queue'[s]
           /\ s \notin Taken => queue'[s] = Without(queue[s], lost)
    BY TickLoses
  <1> HIDE DEF lost, new
  <1>6. /\ jobs'[Ticker] = new /\ jobs[Ticker] = {} /\ pc'[Ticker] # "done"
        /\ \A b \in Threads \ {Ticker} : jobs'[b] = jobs[b] /\ pc'[b] = pc[b]
    BY <1>1, ThreadFacts DEF MarkInv, HandsInv
  <1>7. ASSUME NEW s \in Sessions PROVE Box(s)' = Without(Box(s), lost)
    <2>1. CASE s \in Taken
      <3>1. \A b \in Threads : InHand(b, s) = {}
        BY <2>1 DEF InHand, MarkInv, OneAtATime, Taken, Free
      <3>2. PICK j \in new : j.to = s /\ j.msg = queue[s][First(s)]
        BY <1>2, <2>1
      <3>3. j \in InHand(Ticker, s)'
        BY <1>6, <3>2 DEF InHand
      <3>4. Box(s) = queue[s] /\ Box(s)' = <<j.msg>> \o queue'[s]
        BY <1>0, <3>1, <3>3, ThreadFacts DEF Boxes
      <3> QED
        BY <1>5, <2>1, <3>2, <3>4
    <2>2. CASE s \notin Taken
      <3>1. InHand(Ticker, s) = {} /\ InHand(Ticker, s)' = {}
        BY <1>2, <1>6, <2>2 DEF InHand
      <3>2. \A b \in Threads : InHand(b, s)' = InHand(b, s)
        BY <1>6, <3>1, SameHand
      <3>3. \A b \in Threads : \A j \in InHand(b, s) : j.msg \notin lost
        BY <1>4 DEF InHand
      <3> QED
        BY <1>5, <2>2, <3>2, <3>3, BoxThrows
    <2> QED
      BY <2>1, <2>2
  <1> QED
    BY <1>1, <1>3, <1>7, Throws

LEMMA CommitRefines ==
    ASSUME NEW new \in SUBSET Peers, MarkInv, MarkInv', TypeOK, PlaceInv, Commit(new)
    PROVE  MailStep
  <1> DEFINE removed == {m \in Messages : Sender[m] \notin new}
             lost == removed \ {j.msg : j \in UNION {jobs[a] : a \in Threads}}
  <1>1. /\ \A s \in Sessions : queue'[s] = Without(queue[s], removed)
        /\ UNCHANGED <<jobs, pc, typed, accepted>>
    BY DEF Commit, threadVars, history
  <1>2. /\ lost \in SUBSET Messages
        /\ \A a \in Threads : \A j \in jobs[a] : j.msg \notin lost
        /\ \A s \in Sessions : \A m \in Items(queue[s]) : m \in lost <=> m \in removed
    BY DEF PlaceInv
  <1> HIDE DEF removed, lost
  <1>3. ASSUME NEW s \in Sessions PROVE Box(s)' = Without(Box(s), lost)
    <2>1. \A a \in Threads : InHand(a, s)' = InHand(a, s)
      BY <1>1, SameHand
    <2>2. \A a \in Threads : \A j \in InHand(a, s) : j.msg \notin lost
      BY <1>2 DEF InHand
    <2>3. queue'[s] = Without(queue[s], lost)
      <3>1. queue[s] \in Seq(Messages)
        BY DEF TypeOK
      <3>2. Without(queue[s], lost) = Without(queue[s], removed)
        BY <1>2, <3>1, WithoutAgrees
      <3> QED
        BY <1>1, <3>2
    <2> QED
      BY <2>1, <2>2, <2>3, BoxThrows
  <1> QED
    BY <1>1, <1>2, <1>3, Throws

LEMMA StepRefines == MeshInv /\ MeshInv' /\ [Next]_vars => MailStep
  <1> SUFFICES ASSUME MarkInv, MarkInv', TypeOK, PlaceInv, [Next]_vars PROVE MailStep
    BY DEF MeshInv
  <1> USE DEF mailVars, threadVars, worldVars, history
  <1>0. ASSUME UNCHANGED <<queue, jobs, typed, accepted>>,
               \A b \in Threads : pc'[b] = "done" <=> pc[b] = "done"
        PROVE  MailStep
    <2>1. \A s \in Sessions : Box(s)' = Box(s)
      BY <1>0, SameHand, SameBox
    <2> QED
      BY <1>0, <2>1, Stutters
  <1>1. ASSUME NEW m \in Messages, Receive(m) PROVE MailStep
    <2>1. m \notin accepted /\ Decide(Link, m) /\ pc[Link] = "ready" /\ UNCHANGED typed
      BY <1>1 DEF Receive, FirstTime, PlaceInv
    <2> QED
      BY <2>1, DecideRefines, ThreadFacts
  <1>2. ASSUME NEW c \in Clients, NEW m \in Messages, SendHere(c, m) PROVE MailStep
    <2>1. UNCHANGED typed /\ m \notin accepted /\ pc[c] = "ready" /\ Decide(c, m)
          /\ c \in Threads
      BY <1>2, ThreadFacts DEF SendHere
    <2> QED
      BY <2>1, DecideRefines
  <1>3. CASE TickChecks
    <2>1. UNCHANGED <<queue, jobs, typed, accepted>>
          /\ \A b \in Threads : pc'[b] = "done" <=> pc[b] = "done"
      BY <1>3, ThreadFacts DEF TickChecks, TypeOK
    <2> QED
      BY <1>0, <2>1
  <1>4. CASE TickTakes
    BY <1>4, TickRefines
  <1>5. ASSUME NEW a \in Threads, Works(a) PROVE MailStep
    BY <1>5, WorksRefines
  <1>6. ASSUME NEW new \in SUBSET Peers, Commit(new) PROVE MailStep
    BY <1>6, CommitRefines
  <1>7. CASE \/ (\E s \in Sessions : SessionChanges(s))
             \/ DrainStarts \/ DrainCancelled \/ CopyHeld \/ SwapFails \/ Exit
             \/ UNCHANGED vars
    <2>1. UNCHANGED <<queue, jobs, typed, accepted, pc>>
      BY <1>7 DEF SessionChanges, DrainStarts, DrainCancelled,
                  CopyHeld, SwapFails, Exit, Restart, vars
    <2> QED
      BY <1>0, <2>1
  <1> QED
    BY <1>1, <1>2, <1>3, <1>4, <1>5, <1>6, <1>7 DEF Next

LEMMA MailInit == Init => Promise!Init
  <1> SUFFICES ASSUME Init PROVE Promise!Init
    OBVIOUS
  <1>1. MarkInv /\ Boxes
    BY MarkInit, BoxesAre
  <1>2. \A s \in Sessions : Box(s) = <<>>
    BY <1>1 DEF Boxes, Init, InHand
  <1> QED
    BY <1>2 DEF Init, Promise!Init

(* MeshDeliver keeps the promise of MailPromise: what is typed into a       *)
(* session is what came in for it, in that order, each message once; one    *)
(* that is not typed has been thrown away, and none has overtaken another,  *)
(* whatever the three kinds of threads, a panic, a change of the roster and *)
(* a restart do in between.                                                 *)
THEOREM MailIsKept == Spec => KeepsMail
  <1>1. MeshInv /\ MeshInv' /\ [Next]_vars => [Promise!Next]_(Promise!mailVars)
    BY StepRefines DEF MailStep
  <1> QED
    BY <1>1, MailInit, MeshInvariant, PTL DEF Spec, KeepsMail, Promise!Spec
=============================================================================
