----------------------------- MODULE ServicesProofs -----------------------------
(***************************************************************************)
(* Proofs about the LoginLimiter in front of the logins, about the status  *)
(* report, and about all the components beside the controller and the      *)
(* pipeline together.                                                      *)
(*                                                                         *)
(* The limiter counts what is fresh in a table that also keeps stale       *)
(* stamps and is pruned by an entry's last stamp alone; the invariant is   *)
(* that the attempts of the last window are always what is fresh there.    *)
(***************************************************************************)
EXTENDS MCServices, WaitingProofs, StoreProofs

-----------------------------------------------------------------------------
(* The stamps of the rate limiter                                          *)

Ages == Seq(Nat)

\* The recursion of Fresh.
FreshPartsBy(f, s) ==
    [n \in 0 .. Len(s) |-> IF n = 0 THEN <<>>
                           ELSE IF s[n] < LimWindow THEN Append(f[n - 1], s[n]) ELSE f[n - 1]]
FreshParts(s) == CHOOSE f : f = FreshPartsBy(f, s)

LEMMA FreshIsKept == ASSUME NEW s PROVE Fresh(s) = FreshParts(s)[Len(s)]
BY DEF Fresh, FreshParts, FreshPartsBy

\* There is such a function, for there are beginnings of it of every length.
LEMMA KeptIsDefined == ASSUME NEW s \in Ages PROVE FreshParts(s) = FreshPartsBy(FreshParts(s), s)
<1> DEFINE N == Len(s)
           Step(g, k) == IF s[k] < LimWindow THEN Append(g[k - 1], s[k]) ELSE g[k - 1]
           Begins(g, n) == /\ g = [k \in 0 .. n |-> g[k]] /\ g[0] = <<>>
                           /\ \A k \in 1 .. n : g[k] = Step(g, k)
           Missing == {n \in 0 .. N : ~\E g : Begins(g, n)}
<1>1. N \in Nat
  BY DEF Ages
<1>2. Missing = {}
  <2> SUFFICES ASSUME Missing # {} PROVE FALSE
    OBVIOUS
  <2>1. PICK m \in Missing : \A k \in Missing : ~(k < m)
    <3>1. Missing \subseteq Nat
      BY <1>1
    <3> HIDE DEF Missing
    <3>2. QED
      BY <3>1, LeastNumber
  <2>2. m \in 0 .. N /\ ~\E g : Begins(g, m)
    BY <2>1
  <2>3. CASE m = 0
    <3> DEFINE g == [k \in 0 .. 0 |-> <<>>]
    <3>1. g[0] = <<>> /\ g = [k \in 0 .. 0 |-> g[k]]
      OBVIOUS
    <3> HIDE DEF g
    <3>2. Begins(g, 0)
      BY <3>1
    <3>3. QED
      BY <2>2, <2>3, <3>2
  <2>4. CASE m # 0
    <3>1. m - 1 \in 0 .. N /\ m - 1 < m /\ m \in Nat
      BY <1>1, <2>2, <2>4
    <3>2. PICK g : Begins(g, m - 1)
      BY <2>1, <3>1
    <3> DEFINE h == [k \in 0 .. m |-> IF k = m THEN Step(g, m) ELSE g[k]]
    <3>3. h = [k \in 0 .. m |-> h[k]]
      OBVIOUS
    <3>4. \A k \in 0 .. m - 1 : h[k] = g[k]
      BY <3>1
    <3>5. h[0] = <<>>
      BY <3>1, <3>2, <3>4
    <3>6. h[m] = Step(g, m)
      BY <3>1
    <3> HIDE DEF h
    <3>7. \A k \in 1 .. m : h[k] = Step(h, k)
      <4> SUFFICES ASSUME NEW k \in 1 .. m PROVE h[k] = Step(h, k)
        OBVIOUS
      <4>1. k - 1 \in 0 .. m - 1
        BY <3>1
      <4>2. h[k - 1] = g[k - 1]
        BY <3>4, <4>1
      <4>3. k = m \/ k \in 1 .. m - 1
        BY <3>1
      <4>4. CASE k = m
        BY <3>6, <4>2, <4>4
      <4>5. CASE k \in 1 .. m - 1
        <5>1. k \in 0 .. m - 1
          BY <3>1, <4>5
        <5>2. h[k] = g[k]
          BY <3>4, <5>1
        <5>3. g[k] = Step(g, k)
          BY <3>2, <4>5
        <5>4. QED
          BY <4>2, <5>2, <5>3
      <4>6. QED
        BY <4>3, <4>4, <4>5
    <3>8. Begins(h, m)
      BY <3>3, <3>5, <3>7
    <3>9. QED
      BY <2>2, <3>8
  <2>5. QED
    BY <2>3, <2>4
<1>3. PICK g : Begins(g, N)
  BY <1>1, <1>2
<1>4. g = FreshPartsBy(g, s)
  <2> SUFFICES ASSUME NEW k \in 0 .. N PROVE g[k] = FreshPartsBy(g, s)[k]
    BY <1>3 DEF FreshPartsBy
  <2>1. k = 0 \/ k \in 1 .. N
    BY <1>1
  <2>2. QED
    BY <1>3, <2>1 DEF FreshPartsBy
<1>5. QED
  BY <1>4 DEF FreshParts

LEMMA KeptValues ==
    ASSUME NEW s \in Ages
    PROVE  /\ FreshParts(s)[0] = <<>>
           /\ \A n \in 1 .. Len(s) :
                FreshParts(s)[n] = IF s[n] < LimWindow THEN Append(FreshParts(s)[n - 1], s[n]) ELSE FreshParts(s)[n - 1]
<1> DEFINE f == FreshParts(s)
<1>1. f = FreshPartsBy(f, s) /\ Len(s) \in Nat
  BY KeptIsDefined DEF Ages
<1> HIDE DEF f
<1>2. f = [n \in 0 .. Len(s) |-> IF n = 0 THEN <<>>
              ELSE IF s[n] < LimWindow THEN Append(f[n - 1], s[n]) ELSE f[n - 1]]
  BY <1>1 DEF FreshPartsBy
<1>3. f[0] = <<>>
  BY <1>1, <1>2
<1>4. ASSUME NEW n \in 1 .. Len(s)
      PROVE  f[n] = IF s[n] < LimWindow THEN Append(f[n - 1], s[n]) ELSE f[n - 1]
  <2>1. n \in 0 .. Len(s) /\ n # 0
    BY <1>1
  <2>2. f[n] = IF n = 0 THEN <<>>
               ELSE IF s[n] < LimWindow THEN Append(f[n - 1], s[n]) ELSE f[n - 1]
    BY <1>2, <2>1, Zenon
  <2>3. QED
    BY <2>1, <2>2
<1>5. QED
  BY <1>3, <1>4 DEF f

\* Those that are fresh, no more than there were.
LEMMA KeptIsFresh ==
    ASSUME NEW s \in Ages
    PROVE  \A n \in 0 .. Len(s) :
             /\ FreshParts(s)[n] \in Ages /\ Len(FreshParts(s)[n]) <= n
             /\ \A i \in 1 .. Len(FreshParts(s)[n]) : FreshParts(s)[n][i] < LimWindow
<1> DEFINE T == {n \in 0 .. Len(s) :
                   /\ FreshParts(s)[n] \in Ages /\ Len(FreshParts(s)[n]) <= n
                   /\ \A i \in 1 .. Len(FreshParts(s)[n]) : FreshParts(s)[n][i] < LimWindow}
<1>0. Len(s) \in Nat /\ 0 \in 0 .. Len(s)
  BY DEF Ages
<1>1. 0 \in T
  <2>1. FreshParts(s)[0] = <<>>
    BY KeptValues
  <2>2. <<>> \in Ages /\ Len(<<>>) = 0
    BY DEF Ages
  <2>3. QED
    BY <1>0, <2>1, <2>2
<1>2. ASSUME NEW n \in 1 .. Len(s), n - 1 \in T PROVE n \in T
  <2>1. PICK k : k = FreshParts(s)[n - 1]
    OBVIOUS
  <2>2. k \in Ages /\ Len(k) <= n - 1 /\ \A i \in 1 .. Len(k) : k[i] < LimWindow
    BY <1>2, <2>1
  <2>a. Len(k) \in Nat
    BY <2>2 DEF Ages
  <2>3. s[n] \in Nat /\ n \in 0 .. Len(s)
    BY DEF Ages
  <2>4. CASE s[n] < LimWindow
    <3>1. FreshParts(s)[n] = Append(k, s[n])
      BY <2>1, <2>4, KeptValues
    <3>2. /\ Append(k, s[n]) \in Ages /\ Len(Append(k, s[n])) = Len(k) + 1
          /\ \A i \in 1 .. Len(k) + 1 : Append(k, s[n])[i] < LimWindow
      BY <2>2, <2>3, <2>4 DEF Ages
    <3>3. Len(Append(k, s[n])) <= n
      BY <1>0, <2>2, <2>a, <3>2
    <3>4. QED
      BY <2>3, <3>1, <3>2, <3>3
  <2>5. CASE ~(s[n] < LimWindow)
    <3>1. FreshParts(s)[n] = k
      BY <2>1, <2>5, KeptValues
    <3>2. Len(k) <= n
      BY <1>0, <2>2, <2>a
    <3>3. QED
      BY <2>2, <2>3, <3>1, <3>2
  <2>6. QED
    BY <2>4, <2>5
<1> HIDE DEF T
<1>3. \A n \in 0 .. Len(s) : n \in T
  BY <1>0, <1>1, <1>2, UpTo
<1>4. QED
  BY <1>3 DEF T

\* All of them, or none.
LEMMA KeptAllOrNone ==
    ASSUME NEW s \in Ages
    PROVE  /\ (\A i \in 1 .. Len(s) : s[i] < LimWindow) => FreshParts(s)[Len(s)] = s
           /\ (\A i \in 1 .. Len(s) : ~(s[i] < LimWindow)) => FreshParts(s)[Len(s)] = <<>>
<1>0. Len(s) \in Nat
  BY DEF Ages
<1>1. ASSUME \A i \in 1 .. Len(s) : s[i] < LimWindow PROVE FreshParts(s)[Len(s)] = s
  <2> DEFINE T == {n \in 0 .. Len(s) :
                     Len(FreshParts(s)[n]) = n /\ \A i \in 1 .. n : FreshParts(s)[n][i] = s[i]}
  <2>1. 0 \in T
    BY <1>0, KeptValues
  <2>2. ASSUME NEW n \in 1 .. Len(s), n - 1 \in T PROVE n \in T
    <3>1. PICK k : k = FreshParts(s)[n - 1]
      OBVIOUS
    <3>2. n - 1 \in 0 .. Len(s) /\ n \in 0 .. Len(s)
      BY <1>0
    <3>3. k \in Ages /\ Len(k) = n - 1 /\ \A i \in 1 .. n - 1 : k[i] = s[i]
      BY <2>2, <3>1, <3>2, KeptIsFresh
    <3>a. s[n] \in Nat /\ s[n] < LimWindow
      BY <1>1 DEF Ages
    <3>4. FreshParts(s)[n] = Append(k, s[n])
      BY <3>1, <3>a, KeptValues
    <3>5. Len(Append(k, s[n])) = n /\ \A i \in 1 .. n : Append(k, s[n])[i] = s[i]
      BY <1>0, <3>3, <3>a DEF Ages
    <3>6. QED
      BY <3>2, <3>4, <3>5
  <2> HIDE DEF T
  <2>3. Len(s) \in T
    <3>1. Len(s) \in 0 .. Len(s)
      BY <1>0
    <3>2. QED
      BY <1>0, <2>1, <2>2, <3>1, UpTo
  <2>4. FreshParts(s)[Len(s)] \in Ages
    BY <1>0, KeptIsFresh
  <2>5. Len(FreshParts(s)[Len(s)]) = Len(s) /\ \A i \in 1 .. Len(s) : FreshParts(s)[Len(s)][i] = s[i]
    BY <2>3 DEF T
  <2>6. \A x \in Ages : x = [i \in 1 .. Len(x) |-> x[i]]
    BY DEF Ages
  <2>7. QED
    BY <2>4, <2>5, <2>6
<1>2. ASSUME \A i \in 1 .. Len(s) : ~(s[i] < LimWindow) PROVE FreshParts(s)[Len(s)] = <<>>
  <2> DEFINE T == {n \in 0 .. Len(s) : FreshParts(s)[n] = <<>>}
  <2>1. 0 \in T
    BY <1>0, KeptValues
  <2>2. ASSUME NEW n \in 1 .. Len(s), n - 1 \in T PROVE n \in T
    BY <1>0, <1>2, <2>2, KeptValues
  <2> HIDE DEF T
  <2>3. Len(s) \in T
    <3>1. Len(s) \in 0 .. Len(s)
      BY <1>0
    <3>2. QED
      BY <1>0, <2>1, <2>2, <3>1, UpTo
  <2>4. QED
    BY <2>3 DEF T
<1>3. QED
  BY <1>1, <1>2

\* The oldest stamp comes first.
OldestFirst(s) == \A i, k \in 1 .. Len(s) : i < k => s[i] >= s[k]

LEMMA KeptInOrder ==
    ASSUME NEW s \in Ages, OldestFirst(s)
    PROVE  OldestFirst(FreshParts(s)[Len(s)])
<1> DEFINE T == {n \in 0 .. Len(s) :
                   /\ OldestFirst(FreshParts(s)[n])
                   /\ \A i \in 1 .. Len(FreshParts(s)[n]), m \in 1 .. Len(s) : m > n => FreshParts(s)[n][i] >= s[m]}
<1>0. Len(s) \in Nat /\ 0 \in 0 .. Len(s) /\ Len(s) \in 0 .. Len(s)
  BY DEF Ages
<1>1. 0 \in T
  <2>1. FreshParts(s)[0] = <<>> /\ Len(<<>>) = 0
    BY KeptValues
  <2>2. QED
    BY <1>0, <2>1 DEF OldestFirst
<1>2. ASSUME NEW n \in 1 .. Len(s), n - 1 \in T PROVE n \in T
  <2>0. n - 1 \in 0 .. Len(s) /\ n \in 0 .. Len(s) /\ s[n] \in Nat /\ \A m \in 1 .. Len(s) : s[m] \in Nat
    BY <1>0 DEF Ages
  <2>1. PICK k : k = FreshParts(s)[n - 1]
    OBVIOUS
  <2>2. k \in Ages
    BY <2>0, <2>1, KeptIsFresh
  <2>3. Len(k) \in Nat /\ \A i \in 1 .. Len(k) : k[i] \in Nat
    BY <2>2 DEF Ages
  <2>4. OldestFirst(k) /\ \A i \in 1 .. Len(k), m \in 1 .. Len(s) : m > n - 1 => k[i] >= s[m]
    BY <1>2, <2>1
  <2>5. CASE s[n] < LimWindow
    <3>1. FreshParts(s)[n] = Append(k, s[n])
      BY <2>1, <2>5, KeptValues
    <3>2. /\ Len(Append(k, s[n])) = Len(k) + 1 /\ Append(k, s[n])[Len(k) + 1] = s[n]
          /\ \A i \in 1 .. Len(k) : Append(k, s[n])[i] = k[i]
      BY <2>0, <2>2 DEF Ages
    <3>3. PICK a : a = Append(k, s[n])
      OBVIOUS
    <3>4. /\ Len(a) = Len(k) + 1 /\ a[Len(k) + 1] = s[n] /\ \A i \in 1 .. Len(k) : a[i] = k[i]
      BY <3>2, <3>3
    <3>5. ASSUME NEW i \in 1 .. Len(a), NEW m \in 1 .. Len(s), m > n PROVE a[i] >= s[m]
      <4>1. CASE i = Len(k) + 1
        BY <3>4, <3>5, <4>1 DEF OldestFirst
      <4>2. CASE i # Len(k) + 1
        <5>1. i \in 1 .. Len(k) /\ m > n - 1
          BY <2>3, <3>4, <3>5, <4>2
        <5>2. QED
          BY <2>4, <3>4, <5>1
      <4>3. QED
        BY <4>1, <4>2
    <3>6. ASSUME NEW i \in 1 .. Len(a), NEW j \in 1 .. Len(a), i < j PROVE a[i] >= a[j]
      <4>1. i \in 1 .. Len(k)
        BY <2>3, <3>4, <3>6
      <4>2. CASE j = Len(k) + 1
        <5>1. n \in 1 .. Len(s) /\ n > n - 1
          BY <2>0
        <5>2. QED
          BY <2>4, <3>4, <4>1, <4>2, <5>1
      <4>3. CASE j # Len(k) + 1
        <5>1. j \in 1 .. Len(k)
          BY <2>3, <3>4, <4>3
        <5>2. QED
          BY <2>4, <3>4, <3>6, <4>1, <5>1 DEF OldestFirst
      <4>4. QED
        BY <4>2, <4>3
    <3>7. OldestFirst(a)
      BY <3>6 DEF OldestFirst
    <3>8. QED
      BY <2>0, <3>1, <3>3, <3>5, <3>7
  <2>6. CASE ~(s[n] < LimWindow)
    <3>1. FreshParts(s)[n] = k
      BY <2>1, <2>6, KeptValues
    <3>2. \A m \in 1 .. Len(s) : m > n => m > n - 1
      BY <1>0
    <3>3. QED
      BY <2>0, <2>4, <3>1, <3>2
  <2>7. QED
    BY <2>5, <2>6
<1> HIDE DEF T
<1>3. Len(s) \in T
  BY <1>0, <1>1, <1>2, UpTo
<1>4. QED
  BY <1>3 DEF T

\* A sequence's beginning decides what is kept of it.
LEMMA KeptOfBeginning ==
    ASSUME NEW s \in Ages, NEW t \in Ages, Len(s) <= Len(t), \A i \in 1 .. Len(s) : t[i] = s[i]
    PROVE  FreshParts(t)[Len(s)] = FreshParts(s)[Len(s)]
<1> DEFINE T == {n \in 0 .. Len(s) : FreshParts(t)[n] = FreshParts(s)[n]}
<1>0. Len(s) \in Nat /\ Len(t) \in Nat /\ 0 \in 0 .. Len(s) /\ Len(s) \in 0 .. Len(s)
  BY DEF Ages
<1>1. 0 \in T
  BY <1>0, KeptValues
<1>2. ASSUME NEW n \in 1 .. Len(s), n - 1 \in T PROVE n \in T
  <2>1. n \in 1 .. Len(t) /\ n \in 0 .. Len(s) /\ t[n] = s[n] /\ FreshParts(t)[n - 1] = FreshParts(s)[n - 1]
    BY <1>0, <1>2
  <2>2. FreshParts(t)[n] = IF t[n] < LimWindow THEN Append(FreshParts(t)[n - 1], t[n]) ELSE FreshParts(t)[n - 1]
    BY <2>1, KeptValues
  <2>3. FreshParts(s)[n] = IF s[n] < LimWindow THEN Append(FreshParts(s)[n - 1], s[n]) ELSE FreshParts(s)[n - 1]
    BY KeptValues
  <2>4. QED
    BY <2>1, <2>2, <2>3
<1> HIDE DEF T
<1>3. Len(s) \in T
  BY <1>0, <1>1, <1>2, UpTo
<1>4. QED
  BY <1>3 DEF T

LEMMA FreshAppend ==
    ASSUME NEW s \in Ages, NEW a \in Nat
    PROVE  Fresh(Append(s, a)) = IF a < LimWindow THEN Append(Fresh(s), a) ELSE Fresh(s)
<1>1. /\ Append(s, a) \in Ages /\ Len(s) \in Nat /\ Len(Append(s, a)) = Len(s) + 1
      /\ Append(s, a)[Len(s) + 1] = a /\ \A i \in 1 .. Len(s) : Append(s, a)[i] = s[i]
  BY DEF Ages
<1>2. PICK t \in Ages : t = Append(s, a)
  BY <1>1
<1>3. FreshParts(t)[Len(s)] = FreshParts(s)[Len(s)]
  <2>1. Len(s) <= Len(t) /\ \A i \in 1 .. Len(s) : t[i] = s[i]
    BY <1>1, <1>2
  <2>2. QED
    BY <1>2, <2>1, KeptOfBeginning
<1>4. FreshParts(t)[Len(s) + 1] = IF a < LimWindow THEN Append(FreshParts(t)[Len(s)], a) ELSE FreshParts(t)[Len(s)]
  <2>1. Len(s) + 1 \in 1 .. Len(t) /\ (Len(s) + 1) - 1 = Len(s) /\ t[Len(s) + 1] = a
    BY <1>1, <1>2
  <2>2. QED
    BY <2>1, KeptValues
<1>5. QED
  BY <1>1, <1>2, <1>3, <1>4, FreshIsKept

\* What the lemmas come to.
LEMMA FreshFacts ==
    ASSUME NEW s \in Ages
    PROVE  /\ Fresh(s) \in Ages /\ Len(Fresh(s)) <= Len(s)
           /\ \A i \in 1 .. Len(Fresh(s)) : Fresh(s)[i] < LimWindow
           /\ (\A i \in 1 .. Len(s) : s[i] < LimWindow) => Fresh(s) = s
           /\ (\A i \in 1 .. Len(s) : ~(s[i] < LimWindow)) => Fresh(s) = <<>>
           /\ OldestFirst(s) => OldestFirst(Fresh(s))
<1>1. Len(s) \in 0 .. Len(s)
  BY DEF Ages
<1>2. Fresh(s) = FreshParts(s)[Len(s)]
  BY FreshIsKept
<1>3. QED
  BY <1>1, <1>2, KeptIsFresh, KeptAllOrNone, KeptInOrder

\* A tick later.
AgedStamps(s) == [i \in DOMAIN s |-> IF s[i] < LimWindow THEN s[i] + 1 ELSE LimWindow]

LEMMA AgedFacts ==
    ASSUME NEW s \in Ages
    PROVE  /\ AgedStamps(s) \in Ages /\ Len(AgedStamps(s)) = Len(s)
           /\ \A i \in 1 .. Len(s) : AgedStamps(s)[i] = IF s[i] < LimWindow THEN s[i] + 1 ELSE LimWindow
           /\ OldestFirst(s) => OldestFirst(AgedStamps(s))
           /\ \A a \in Nat : AgedStamps(Append(s, a)) =
                               Append(AgedStamps(s), IF a < LimWindow THEN a + 1 ELSE LimWindow)
<1> DEFINE A(a) == IF a < LimWindow THEN a + 1 ELSE LimWindow
<1>1. LimWindow \in Nat /\ Len(s) \in Nat /\ DOMAIN s = 1 .. Len(s) /\ \A i \in 1 .. Len(s) : s[i] \in Nat
  BY LimAssumption DEF Ages
<1>2. /\ AgedStamps(s) \in Ages /\ Len(AgedStamps(s)) = Len(s)
      /\ \A i \in 1 .. Len(s) : AgedStamps(s)[i] = IF s[i] < LimWindow THEN s[i] + 1 ELSE LimWindow
  BY <1>1 DEF AgedStamps, Ages
<1>3. OldestFirst(s) => OldestFirst(AgedStamps(s))
  BY <1>1, <1>2 DEF OldestFirst
<1>4. ASSUME NEW a \in Nat
      PROVE  AgedStamps(Append(s, a)) = Append(AgedStamps(s), A(a))
  <2>1. /\ Append(s, a) \in Ages /\ Len(Append(s, a)) = Len(s) + 1 /\ DOMAIN Append(s, a) = 1 .. Len(s) + 1
        /\ Append(s, a)[Len(s) + 1] = a /\ \A i \in 1 .. Len(s) : Append(s, a)[i] = s[i]
    BY DEF Ages
  <2>2. A(a) \in Nat
    BY <1>1
  <2>3. PICK b \in Nat : b = A(a)
    BY <2>2
  <2>4. /\ Append(AgedStamps(s), b) \in Ages /\ Len(Append(AgedStamps(s), b)) = Len(s) + 1
        /\ Append(AgedStamps(s), b)[Len(s) + 1] = b
        /\ \A i \in 1 .. Len(s) : Append(AgedStamps(s), b)[i] = AgedStamps(s)[i]
    BY <1>2 DEF Ages
  <2>5. \A i \in 1 .. Len(s) + 1 : i = Len(s) + 1 \/ i \in 1 .. Len(s)
    BY <1>1
  <2>6. \A i \in 1 .. Len(s) + 1 : A(Append(s, a)[i]) = Append(AgedStamps(s), b)[i]
    BY <1>2, <2>1, <2>3, <2>4, <2>5
  <2>7. AgedStamps(Append(s, a)) = [i \in 1 .. Len(s) + 1 |-> A(Append(s, a)[i])]
    BY <2>1 DEF AgedStamps
  <2>8. \A x \in Ages : x = [i \in 1 .. Len(x) |-> x[i]]
    BY DEF Ages
  <2>9. Append(AgedStamps(s), b) = [i \in 1 .. Len(s) + 1 |-> Append(AgedStamps(s), b)[i]]
    BY <2>4, <2>8
  <2>10. QED
    BY <2>3, <2>6, <2>7, <2>9
<1>5. QED
  BY <1>2, <1>3, <1>4

\* What is fresh a tick later was fresh before.
LEMMA FreshLater ==
    ASSUME NEW s \in Ages
    PROVE  Fresh(AgedStamps(Fresh(s))) = Fresh(AgedStamps(s))
<1> DEFINE T == {n \in 0 .. Len(s) : Fresh(AgedStamps(FreshParts(s)[n])) = FreshParts(AgedStamps(s))[n]}
<1>0. /\ Len(s) \in Nat /\ 0 \in 0 .. Len(s) /\ Len(s) \in 0 .. Len(s) /\ LimWindow \in Nat
      /\ AgedStamps(s) \in Ages /\ Len(AgedStamps(s)) = Len(s)
  BY AgedFacts, LimAssumption DEF Ages
<1>1. 0 \in T
  <2>1. FreshParts(s)[0] = <<>> /\ FreshParts(AgedStamps(s))[0] = <<>>
    BY <1>0, KeptValues
  <2>2. <<>> \in Ages /\ Len(<<>>) = 0
    BY DEF Ages
  <2>3. AgedStamps(<<>>) \in Ages /\ Len(AgedStamps(<<>>)) = 0
    BY <2>2, AgedFacts
  <2>4. Fresh(AgedStamps(<<>>)) = <<>>
    BY <2>3, FreshFacts
  <2>5. QED
    BY <1>0, <2>1, <2>4
<1>2. ASSUME NEW n \in 1 .. Len(s), n - 1 \in T PROVE n \in T
  <2>0. n - 1 \in 0 .. Len(s) /\ n \in 0 .. Len(s) /\ s[n] \in Nat /\ n \in 1 .. Len(AgedStamps(s))
    BY <1>0 DEF Ages
  <2>1. PICK k : k = FreshParts(s)[n - 1]
    OBVIOUS
  <2>2. k \in Ages /\ Fresh(AgedStamps(k)) = FreshParts(AgedStamps(s))[n - 1]
    BY <1>2, <2>0, <2>1, KeptIsFresh
  <2>3. PICK a \in Nat : a = s[n]
    BY <2>0
  <2>4. PICK b \in Nat : b = IF a < LimWindow THEN a + 1 ELSE LimWindow
    BY <1>0
  <2>5. AgedStamps(s)[n] = b
    BY <2>3, <2>4, AgedFacts
  <2>6. FreshParts(AgedStamps(s))[n] = IF b < LimWindow THEN Append(Fresh(AgedStamps(k)), b) ELSE Fresh(AgedStamps(k))
    BY <1>0, <2>0, <2>2, <2>5, KeptValues
  <2>7. CASE a < LimWindow
    <3>1. FreshParts(s)[n] = Append(k, a)
      BY <2>1, <2>3, <2>7, KeptValues
    <3>2. AgedStamps(Append(k, a)) = Append(AgedStamps(k), b) /\ AgedStamps(k) \in Ages
      BY <2>2, <2>4, AgedFacts
    <3>3. Fresh(Append(AgedStamps(k), b)) =
            IF b < LimWindow THEN Append(Fresh(AgedStamps(k)), b) ELSE Fresh(AgedStamps(k))
      BY <3>2, FreshAppend
    <3>4. QED
      BY <2>0, <2>6, <3>1, <3>2, <3>3
  <2>8. CASE ~(a < LimWindow)
    <3>1. FreshParts(s)[n] = k
      BY <2>1, <2>3, <2>8, KeptValues
    <3>2. ~(b < LimWindow)
      BY <1>0, <2>4, <2>8
    <3>3. QED
      BY <2>0, <2>6, <3>1, <3>2
  <2>9. QED
    BY <2>7, <2>8
<1> HIDE DEF T
<1>3. Len(s) \in T
  BY <1>0, <1>1, <1>2, UpTo
<1>4. QED
  BY <1>0, <1>3, FreshIsKept DEF T

-----------------------------------------------------------------------------
(* The inductive invariant                                                 *)

\* The history is what is still fresh in the table, whatever stale stamps the table
\* keeps and whatever pruning throws away; and a table is in the order of its stamps,
\* without which its last stamp would say nothing of the others.
HistoryIsFresh(h, t) ==
    /\ h \in Ages /\ OldestFirst(h)
    /\ t = Fresh(h) /\ Len(t) <= LimLimit

LimInv ==
    /\ limHits = [c \in LimClient |-> limHits[c]]
    /\ limTried = [c \in LimClient |-> limTried[c]]
    /\ \A c \in LimClient : HistoryIsFresh(limHits[c], limTried[c])
    /\ \A c \in LimClient :
          limAnswer = [by |-> c, answer |-> "refused"] => Len(limTried[c]) = LimLimit

\* Nothing tried, nothing kept.
LEMMA NothingKept == HistoryIsFresh(<<>>, <<>>)
<1>1. <<>> \in Ages /\ Len(<<>>) = 0
  BY DEF Ages
<1>2. QED
  BY <1>1, FreshFacts, LimAssumption DEF HistoryIsFresh, OldestFirst

\* Dropping an entry whose last stamp is stale loses no fresh one.
LEMMA PruneKeeps ==
    ASSUME NEW hits, NEW tried, hits = [c \in LimClient |-> hits[c]],
           \A c \in LimClient : HistoryIsFresh(hits[c], tried[c])
    PROVE  /\ Prune(hits) = [c \in LimClient |-> Prune(hits)[c]]
           /\ \A c \in LimClient : HistoryIsFresh(Prune(hits)[c], tried[c])
<1> DEFINE Kill(h) == IF h # <<>> /\ Last(h) < LimWindow THEN h ELSE <<>>
<1>1. ASSUME NEW c \in LimClient PROVE HistoryIsFresh(Kill(hits[c]), tried[c])
  <2>1. PICK h : h = hits[c]
    OBVIOUS
  <2>2. PICK t : t = tried[c]
    OBVIOUS
  <2>3. HistoryIsFresh(h, t)
    BY <2>1, <2>2
  <2>4. CASE h # <<>> /\ Last(h) < LimWindow
    BY <2>1, <2>2, <2>3, <2>4
  <2>5. CASE h = <<>>
    BY <2>1, <2>2, <2>3, <2>5
  <2>6. CASE h # <<>> /\ ~(Last(h) < LimWindow)
    <3>1. h \in Ages /\ OldestFirst(h) /\ t = Fresh(h)
      BY <2>3 DEF HistoryIsFresh
    <3>2. Len(h) \in Nat /\ Len(h) > 0 /\ \A i \in 1 .. Len(h) : h[i] \in Nat
      BY <2>6, <3>1 DEF Ages
    <3>3. ~(h[Len(h)] < LimWindow)
      BY <2>6 DEF Last
    <3>4. \A i \in 1 .. Len(h) : ~(h[i] < LimWindow)
      BY <3>1, <3>2, <3>3, LimAssumption DEF OldestFirst
    <3>5. t = <<>>
      BY <3>1, <3>4, FreshFacts
    <3>6. Kill(hits[c]) = <<>>
      BY <2>1, <2>6
    <3>7. QED
      BY <2>2, <3>5, <3>6, NothingKept
  <2>7. QED
    BY <2>4, <2>5, <2>6
<1>2. Prune(hits) = hits \/ Prune(hits) = [c \in LimClient |-> Kill(hits[c])]
  BY DEF Prune
<1>3. CASE Prune(hits) = hits
  BY <1>3
<1>4. CASE Prune(hits) = [c \in LimClient |-> Kill(hits[c])]
  <2> HIDE DEF Kill
  <2>1. QED
    BY <1>1, <1>4
<1>5. QED
  BY <1>2, <1>3, <1>4

\* An attempt is admitted.
LEMMA AdmitKeeps ==
    ASSUME LimInv, NEW c \in LimClient, LimAdmit(c)
    PROVE  LimInv'
<1> DEFINE hits == [limHits EXCEPT ![c] = Append(Fresh(limHits[c]), 0)]
           tried == [limTried EXCEPT ![c] = Append(@, 0)]
<1>1. HistoryIsFresh(Append(Fresh(limHits[c]), 0), Append(limTried[c], 0))
  <2>1. PICK h : h = limHits[c]
    OBVIOUS
  <2>2. PICK f : f = Fresh(h)
    OBVIOUS
  <2>3. h \in Ages /\ OldestFirst(h) /\ limTried[c] = f
    BY <2>1, <2>2 DEF LimInv, HistoryIsFresh
  <2>4. f \in Ages /\ OldestFirst(f) /\ \A i \in 1 .. Len(f) : f[i] < LimWindow
    BY <2>2, <2>3, FreshFacts
  <2>5. Len(f) < LimLimit /\ Len(f) \in Nat /\ LimLimit \in Nat /\ LimWindow \in Nat /\ 0 < LimWindow
    BY <2>1, <2>2, <2>4, LimAssumption DEF LimAdmit, Ages
  <2>6. PICK a : a = Append(f, 0)
    OBVIOUS
  <2>7. /\ a \in Ages /\ Len(a) = Len(f) + 1 /\ a[Len(f) + 1] = 0
        /\ \A i \in 1 .. Len(f) : a[i] = f[i] /\ f[i] \in Nat
    BY <2>4, <2>6 DEF Ages
  <2>8. OldestFirst(a)
    BY <2>4, <2>5, <2>7 DEF OldestFirst
  <2>9. Fresh(a) = a
    <3>1. \A i \in 1 .. Len(a) : a[i] < LimWindow
      BY <2>4, <2>5, <2>7
    <3>2. QED
      BY <2>7, <3>1, FreshFacts
  <2>10. Len(a) <= LimLimit
    BY <2>5, <2>7
  <2>11. HistoryIsFresh(a, a)
    BY <2>7, <2>8, <2>9, <2>10 DEF HistoryIsFresh
  <2>12. QED
    BY <2>1, <2>2, <2>3, <2>6, <2>11
<1>2. hits = [d \in LimClient |-> hits[d]] /\ tried = [d \in LimClient |-> tried[d]]
  BY DEF LimInv
<1>3. ASSUME NEW d \in LimClient PROVE HistoryIsFresh(hits[d], tried[d])
  <2>1. CASE d = c
    <3>1. hits[d] = Append(Fresh(limHits[c]), 0) /\ tried[d] = Append(limTried[c], 0)
      BY <2>1 DEF LimInv
    <3>2. QED
      BY <1>1, <3>1
  <2>2. CASE d # c
    <3>1. hits[d] = limHits[d] /\ tried[d] = limTried[d]
      BY <2>2 DEF LimInv
    <3>2. QED
      BY <3>1 DEF LimInv
  <2>3. QED
    BY <2>1, <2>2
<1>4. limHits' = Prune(hits) /\ limTried' = tried /\ limAnswer' = [by |-> c, answer |-> "admitted"]
  BY DEF LimAdmit
<1> HIDE DEF hits, tried
<1>5. /\ Prune(hits) = [d \in LimClient |-> Prune(hits)[d]]
      /\ \A d \in LimClient : HistoryIsFresh(Prune(hits)[d], tried[d])
  BY <1>2, <1>3, PruneKeeps
<1>6. \A d \in LimClient : limAnswer' # [by |-> d, answer |-> "refused"]
  BY <1>4
<1>7. QED
  BY <1>2, <1>4, <1>5, <1>6 DEF LimInv

\* An attempt is refused.
LEMMA RefuseKeeps ==
    ASSUME LimInv, NEW c \in LimClient, LimRefuse(c)
    PROVE  LimInv'
<1>1. /\ limHits[c] \in Ages /\ OldestFirst(limHits[c])
      /\ limTried[c] = Fresh(limHits[c]) /\ Len(limTried[c]) <= LimLimit
  BY DEF LimInv, HistoryIsFresh
<1>2. PICK f : f = Fresh(limHits[c])
  OBVIOUS
<1>3. f \in Ages /\ OldestFirst(f) /\ Fresh(f) = f
  <2>1. f \in Ages /\ OldestFirst(f) /\ \A i \in 1 .. Len(f) : f[i] < LimWindow
    BY <1>1, <1>2, FreshFacts
  <2>2. QED
    BY <2>1, FreshFacts
<1>4. HistoryIsFresh(f, f)
  BY <1>1, <1>2, <1>3 DEF HistoryIsFresh
<1>5. limHits' = [limHits EXCEPT ![c] = f] /\ limTried' = limTried
  BY <1>2 DEF LimRefuse
<1>6. ASSUME NEW d \in LimClient PROVE HistoryIsFresh(limHits'[d], limTried'[d])
  <2>1. CASE d = c
    <3>1. limHits'[d] = f /\ limTried'[d] = f
      BY <1>1, <1>2, <1>5, <2>1 DEF LimInv
    <3>2. QED
      BY <1>4, <3>1
  <2>2. CASE d # c
    <3>1. limHits'[d] = limHits[d] /\ limTried'[d] = limTried[d]
      BY <1>5, <2>2 DEF LimInv
    <3>2. QED
      BY <3>1 DEF LimInv
  <2>3. QED
    BY <2>1, <2>2
<1>7. Len(limTried'[c]) = LimLimit
  <2>1. Len(limTried[c]) >= LimLimit /\ Len(limTried[c]) \in Nat
    BY <1>1, <1>2, <1>3 DEF LimRefuse, Ages
  <2>2. QED
    BY <1>1, <1>5, <2>1, LimAssumption
<1>8. \A d \in LimClient : limAnswer' = [by |-> d, answer |-> "refused"] => d = c
  BY DEF LimRefuse
<1>9. limHits' = [d \in LimClient |-> limHits'[d]] /\ limTried' = [d \in LimClient |-> limTried'[d]]
  BY <1>5 DEF LimInv
<1>10. QED
  BY <1>6, <1>7, <1>8, <1>9 DEF LimInv

\* A password has been checked.
LEMMA CheckedKeeps ==
    ASSUME LimInv, NEW c \in LimClient, LimChecked(c)
    PROVE  LimInv'
<1>1. \A d \in LimClient : limAnswer' # [by |-> d, answer |-> "refused"]
  BY DEF LimChecked, Quiet
<1>2. \/ limHits' = limHits /\ limTried' = limTried
      \/ limHits' = [limHits EXCEPT ![c] = <<>>] /\ limTried' = [limTried EXCEPT ![c] = <<>>]
  BY DEF LimChecked
<1>3. CASE limHits' = limHits /\ limTried' = limTried
  BY <1>1, <1>3 DEF LimInv
<1>4. CASE limHits' = [limHits EXCEPT ![c] = <<>>] /\ limTried' = [limTried EXCEPT ![c] = <<>>]
  <2>1. ASSUME NEW d \in LimClient PROVE HistoryIsFresh(limHits'[d], limTried'[d])
    <3>1. \/ limHits'[d] = <<>> /\ limTried'[d] = <<>>
          \/ limHits'[d] = limHits[d] /\ limTried'[d] = limTried[d]
      BY <1>4 DEF LimInv
    <3>2. HistoryIsFresh(limHits[d], limTried[d])
      BY DEF LimInv
    <3>3. QED
      BY <3>1, <3>2, NothingKept
  <2>2. limHits' = [d \in LimClient |-> limHits'[d]] /\ limTried' = [d \in LimClient |-> limTried'[d]]
    BY <1>4 DEF LimInv
  <2>3. QED
    BY <1>1, <2>1, <2>2 DEF LimInv
<1>5. QED
  BY <1>2, <1>3, <1>4

\* Time passes.
LEMMA TickKeeps ==
    ASSUME LimInv, LimTick
    PROVE  LimInv'
<1>1. /\ limHits' = [c \in LimClient |-> AgedStamps(limHits[c])]
      /\ limTried' = [c \in LimClient |-> Fresh(AgedStamps(limTried[c]))]
      /\ limAnswer' = Quiet
  BY DEF LimTick, AgedStamps
<1>2. ASSUME NEW c \in LimClient PROVE HistoryIsFresh(limHits'[c], limTried'[c])
  <2>1. PICK h : h = limHits[c]
    OBVIOUS
  <2>2. PICK t : t = limTried[c]
    OBVIOUS
  <2>3. h \in Ages /\ OldestFirst(h) /\ t = Fresh(h) /\ Len(t) <= LimLimit
    BY <2>1, <2>2 DEF LimInv, HistoryIsFresh
  <2>4. AgedStamps(h) \in Ages /\ OldestFirst(AgedStamps(h))
    BY <2>3, AgedFacts
  <2>5. Fresh(AgedStamps(t)) = Fresh(AgedStamps(h))
    BY <2>3, FreshLater
  <2>6. Len(Fresh(AgedStamps(t))) <= LimLimit
    <3>1. t \in Ages
      BY <2>3, FreshFacts
    <3>2. AgedStamps(t) \in Ages /\ Len(AgedStamps(t)) = Len(t)
      BY <3>1, AgedFacts
    <3>3. Fresh(AgedStamps(t)) \in Ages /\ Len(Fresh(AgedStamps(t))) <= Len(t)
      BY <3>2, FreshFacts
    <3>4. Len(t) \in Nat /\ Len(Fresh(AgedStamps(t))) \in Nat /\ LimLimit \in Nat
      BY <3>1, <3>3, LimAssumption DEF Ages
    <3>5. QED
      BY <2>3, <3>3, <3>4
  <2>7. HistoryIsFresh(AgedStamps(h), Fresh(AgedStamps(t)))
    BY <2>4, <2>5, <2>6 DEF HistoryIsFresh
  <2>8. limHits'[c] = AgedStamps(h) /\ limTried'[c] = Fresh(AgedStamps(t))
    BY <1>1, <2>1, <2>2
  <2>9. QED
    BY <2>7, <2>8
<1>3. \A c \in LimClient : limAnswer' # [by |-> c, answer |-> "refused"]
  BY <1>1 DEF Quiet
<1>4. limHits' = [c \in LimClient |-> limHits'[c]] /\ limTried' = [c \in LimClient |-> limTried'[c]]
  BY <1>1
<1>5. QED
  BY <1>2, <1>3, <1>4 DEF LimInv

LEMMA LimInitInv == LimInit => LimInv
<1> SUFFICES ASSUME LimInit PROVE LimInv
  OBVIOUS
<1>1. \A c \in LimClient : limHits[c] = <<>> /\ limTried[c] = <<>>
  BY DEF LimInit
<1>2. \A c \in LimClient : limAnswer # [by |-> c, answer |-> "refused"]
  BY DEF LimInit, Quiet
<1>3. limHits = [c \in LimClient |-> limHits[c]] /\ limTried = [c \in LimClient |-> limTried[c]]
  BY DEF LimInit
<1>4. QED
  BY <1>1, <1>2, <1>3, NothingKept DEF LimInv

LEMMA LimStepInv == LimInv /\ [LimNext]_limVars => LimInv'
<1> SUFFICES ASSUME LimInv, [LimNext]_limVars PROVE LimInv'
  OBVIOUS
<1>1. CASE LimTick
  BY <1>1, TickKeeps
<1>2. CASE \E c \in LimClient : LimAdmit(c) \/ LimRefuse(c) \/ LimChecked(c)
  BY <1>2, AdmitKeeps, RefuseKeeps, CheckedKeeps
<1>3. CASE UNCHANGED limVars
  BY <1>3 DEF LimInv, limVars
<1>4. QED
  BY <1>1, <1>2, <1>3 DEF LimNext

\* Between two successful logins a client is never admitted more than the configured
\* number of times in any window, and refused only when it was admitted that often,
\* for every limit, window, table size and set of clients (RateLimiter.allow, reset).
THEOREM GuessesAreRationed == LimSpec => []LimGuessesAreRationed
<1>1. LimInv => LimGuessesAreRationed
  BY DEF LimInv, HistoryIsFresh, LimGuessesAreRationed
<1>2. QED
  BY <1>1, LimInitInv, LimStepInv, PTL DEF LimSpec

\* What is fresh in a list is what comes after its oldest stamps.
LEMMA FreshDropsOldest ==
    ASSUME NEW s \in Ages, OldestFirst(s)
    PROVE  LET gone == Len(s) - Len(Fresh(s)) IN
           /\ gone \in Nat
           /\ \A i \in 1 .. gone : ~(s[i] < LimWindow)
           /\ \A i \in 1 .. Len(Fresh(s)) : Fresh(s)[i] = s[gone + i]
<1> DEFINE Ends(n, f) ==
             /\ \A i \in 1 .. n - Len(f) : ~(s[i] < LimWindow)
             /\ \A i \in 1 .. Len(f) : f[i] = s[n - Len(f) + i]
           T == {n \in 0 .. Len(s) : Ends(n, FreshParts(s)[n])}
<1>0. /\ Len(s) \in Nat /\ 0 \in 0 .. Len(s) /\ Len(s) \in 0 .. Len(s) /\ LimWindow \in Nat
      /\ \A i \in 1 .. Len(s) : s[i] \in Nat
  BY LimAssumption DEF Ages
<1>1. 0 \in T
  <2>1. FreshParts(s)[0] = <<>> /\ Len(<<>>) = 0
    BY KeptValues
  <2>2. Ends(0, <<>>)
    BY <2>1
  <2>3. QED
    BY <1>0, <2>1, <2>2
<1>2. ASSUME NEW n \in 1 .. Len(s), n - 1 \in T PROVE n \in T
  <2>0. n - 1 \in 0 .. Len(s) /\ n \in 0 .. Len(s) /\ n \in Nat /\ s[n] \in Nat
    BY <1>0
  <2>1. PICK k : k = FreshParts(s)[n - 1]
    OBVIOUS
  <2>2. /\ k \in Ages /\ Len(k) \in Nat /\ Len(k) <= n - 1 /\ \A i \in 1 .. Len(k) : k[i] < LimWindow
        /\ Ends(n - 1, k)
    <3>1. k \in Ages /\ Len(k) <= n - 1 /\ \A i \in 1 .. Len(k) : k[i] < LimWindow
      BY <2>0, <2>1, KeptIsFresh
    <3>2. Len(k) \in Nat
      BY <3>1 DEF Ages
    <3>3. Ends(n - 1, k)
      BY <1>2, <2>1
    <3>4. QED
      BY <3>1, <3>2, <3>3
  <2>3. CASE s[n] < LimWindow
    <3>1. PICK f : f = Append(k, s[n])
      OBVIOUS
    <3>2. /\ f \in Ages /\ Len(f) = Len(k) + 1 /\ f[Len(k) + 1] = s[n]
          /\ \A i \in 1 .. Len(k) : f[i] = k[i]
      BY <2>0, <2>2, <3>1 DEF Ages
    <3>3. n - Len(f) = n - 1 - Len(k) /\ n - Len(f) + (Len(k) + 1) = n
      BY <2>0, <2>2, <3>2
    <3>4. \A i \in 1 .. Len(k) + 1 : i = Len(k) + 1 \/ i \in 1 .. Len(k)
      BY <2>2
    <3>5. \A i \in 1 .. Len(f) : f[i] = s[n - Len(f) + i]
      BY <2>2, <3>2, <3>3, <3>4
    <3>6. Ends(n, f)
      BY <2>2, <3>3, <3>5
    <3>7. FreshParts(s)[n] = f
      BY <2>1, <2>3, <3>1, KeptValues
    <3>8. QED
      BY <2>0, <3>6, <3>7
  <2>4. CASE ~(s[n] < LimWindow)
    <3>1. \A i \in 1 .. n : ~(s[i] < LimWindow)
      BY <1>0, <2>0, <2>4 DEF OldestFirst
    <3>2. Len(k) = 0
      <4>1. SUFFICES ASSUME Len(k) > 0 PROVE FALSE
        BY <2>2
      <4>2. 1 \in 1 .. Len(k) /\ n - 1 - Len(k) + 1 \in 1 .. n
        BY <2>0, <2>2, <4>1
      <4>3. k[1] < LimWindow /\ k[1] = s[n - 1 - Len(k) + 1]
        BY <2>2, <4>2
      <4>4. QED
        BY <3>1, <4>2, <4>3
    <3>3. Ends(n, k)
      BY <2>0, <3>1, <3>2
    <3>4. FreshParts(s)[n] = k
      BY <2>1, <2>4, KeptValues
    <3>5. QED
      BY <2>0, <3>3, <3>4
  <2>5. QED
    BY <2>3, <2>4
<1> HIDE DEF T
<1>3. Len(s) \in T
  BY <1>0, <1>1, <1>2, UpTo
<1>4. PICK f : f = Fresh(s)
  OBVIOUS
<1>5. Ends(Len(s), f) /\ f \in Ages /\ Len(f) <= Len(s)
  BY <1>0, <1>3, <1>4, FreshIsKept, KeptIsFresh DEF T
<1>6. Len(s) - Len(f) \in Nat
  BY <1>0, <1>5 DEF Ages
<1>7. QED
  BY <1>4, <1>5, <1>6

\* A tick of the table is a tick of the ideal window.
LEMMA WindowSlides ==
    ASSUME NEW t \in Ages, OldestFirst(t), \A i \in 1 .. Len(t) : t[i] < LimWindow
    PROVE  Ideal!Slides(t, Fresh(AgedStamps(t)))
<1>1. PICK s \in Ages : s = AgedStamps(t)
  BY AgedFacts
<1>2. /\ OldestFirst(s) /\ Len(s) = Len(t) /\ Len(t) \in Nat /\ LimWindow \in Nat
      /\ \A i \in 1 .. Len(t) : t[i] \in Nat /\ s[i] = t[i] + 1
  BY <1>1, AgedFacts, LimAssumption DEF Ages
<1>3. PICK f : f = Fresh(s)
  OBVIOUS
<1>4. /\ f \in Ages /\ Len(f) \in Nat /\ Len(f) <= Len(t) /\ \A i \in 1 .. Len(f) : f[i] < LimWindow
  <2>1. f \in Ages /\ Len(f) <= Len(s) /\ \A i \in 1 .. Len(f) : f[i] < LimWindow
    BY <1>3, FreshFacts
  <2>2. Len(f) \in Nat
    BY <2>1 DEF Ages
  <2>3. QED
    BY <1>2, <2>1, <2>2
<1>5. PICK gone \in Nat : gone = Len(t) - Len(f)
  BY <1>2, <1>4
<1>6. /\ \A i \in 1 .. gone : ~(s[i] < LimWindow)
      /\ \A i \in 1 .. Len(f) : f[i] = s[gone + i]
  BY <1>2, <1>3, <1>5, FreshDropsOldest
<1>7. /\ \A i \in 1 .. gone : i \in 1 .. Len(t)
      /\ \A i \in 1 .. Len(f) : gone + i \in 1 .. Len(t)
  BY <1>2, <1>4, <1>5
<1>8. \A i \in 1 .. gone : t[i] + 1 = LimWindow
  BY <1>2, <1>6, <1>7
<1>9. \A i \in 1 .. Len(f) : f[i] = t[gone + i] + 1 /\ f[i] < LimWindow
  BY <1>2, <1>4, <1>6, <1>7
<1>10. Ideal!Slides(t, f)
  BY <1>5, <1>8, <1>9 DEF Ideal!Slides
<1>11. QED
  BY <1>1, <1>3, <1>10

\* The limiter implements the ideal window: whatever its table keeps too long or throws
\* away, no client can tell, and none is answered because of another
\* (RateLimiter.allow, reset).
THEOREM AnswersAsIdeal == LimSpec => LimAnswersAsIdeal
<1>1. LimInit => Ideal!Init
  BY DEF LimInit, Ideal!Init, Quiet, Ideal!Nobody
<1>2. LimInv /\ [LimNext]_limVars => [Ideal!Next]_(Ideal!vars)
  <2> SUFFICES ASSUME LimInv, [LimNext]_limVars PROVE [Ideal!Next]_(Ideal!vars)
    OBVIOUS
  <2>0. \A c \in LimClient :
          /\ limTried[c] = Fresh(limHits[c]) /\ Len(limTried[c]) <= LimLimit
          /\ limTried[c] \in Ages /\ Len(limTried[c]) \in Nat /\ OldestFirst(limTried[c])
          /\ \A i \in 1 .. Len(limTried[c]) : limTried[c][i] < LimWindow
    BY FreshFacts DEF LimInv, HistoryIsFresh, Ages
  <2>1. CASE LimTick
    <3>1. /\ limTried' = [c \in LimClient |-> Fresh(AgedStamps(limTried[c]))]
          /\ limAnswer' = Ideal!Nobody
      BY <2>1 DEF LimTick, AgedStamps, Quiet, Ideal!Nobody
    <3>2. \A c \in LimClient : Ideal!Slides(limTried[c], limTried'[c])
      BY <2>0, <3>1, WindowSlides
    <3>3. Ideal!Tick
      BY <3>1, <3>2 DEF Ideal!Tick
    <3>4. QED
      BY <3>3 DEF Ideal!Next
  <2>2. ASSUME NEW c \in LimClient, LimAdmit(c) PROVE Ideal!Admit(c)
    BY <2>0, <2>2 DEF LimAdmit, Ideal!Admit
  <2>3. ASSUME NEW c \in LimClient, LimRefuse(c) PROVE Ideal!Refuse(c)
    <3>1. Len(limTried[c]) = LimLimit
      BY <2>0, <2>3, LimAssumption DEF LimRefuse
    <3>2. QED
      BY <2>3, <3>1 DEF LimRefuse, Ideal!Refuse
  <2>4. ASSUME NEW c \in LimClient, LimChecked(c) PROVE Ideal!Checked(c)
    BY <2>4 DEF LimChecked, Quiet, Ideal!Checked, Ideal!Nobody
  <2>5. CASE UNCHANGED limVars
    BY <2>5 DEF limVars, Ideal!vars
  <2>6. QED
    BY <2>1, <2>2, <2>3, <2>4, <2>5 DEF LimNext, Ideal!Next
<1>3. QED
  BY <1>1, <1>2, LimInitInv, LimStepInv, PTL DEF LimSpec, LimAnswersAsIdeal, Ideal!Spec

\* The entries of the table, the stale stamps included.
Entries == {h \in Ages : Len(h) <= LimLimit /\ \A i \in 1 .. Len(h) : h[i] <= LimWindow}

LimBounded ==
    /\ limHits \in [LimClient -> Entries]
    /\ limBusy \in [LimClient -> 0 .. LimThreads]
    /\ limAnswer.answer \in {"none", "admitted", "refused"}

LEMMA EmptyEntry == <<>> \in Entries
<1>1. <<>> \in Ages /\ Len(<<>>) = 0 /\ LimLimit \in Nat
  BY LimAssumption DEF Ages
<1>2. QED
  BY <1>1 DEF Entries

\* What is fresh in an entry, what is left of it a tick later, and one more attempt.
LEMMA EntriesStay ==
    ASSUME NEW h \in Entries
    PROVE  /\ Fresh(h) \in Entries /\ AgedStamps(h) \in Entries
           /\ Len(Fresh(h)) < LimLimit => Append(Fresh(h), 0) \in Entries
<1>1. /\ h \in Ages /\ Len(h) \in Nat /\ Len(h) <= LimLimit
      /\ \A i \in 1 .. Len(h) : h[i] <= LimWindow
      /\ LimLimit \in Nat /\ LimWindow \in Nat
  BY LimAssumption DEF Entries, Ages
<1>2. PICK f : f = Fresh(h)
  OBVIOUS
<1>3. /\ f \in Ages /\ Len(f) \in Nat /\ Len(f) <= Len(h)
      /\ \A i \in 1 .. Len(f) : f[i] < LimWindow /\ f[i] \in Nat
  BY <1>1, <1>2, FreshFacts DEF Ages
<1>4. f \in Entries
  BY <1>1, <1>3 DEF Entries
<1>5. AgedStamps(h) \in Entries
  <2>1. PICK a : a = AgedStamps(h)
    OBVIOUS
  <2>2. /\ a \in Ages /\ Len(a) = Len(h)
        /\ \A i \in 1 .. Len(h) : a[i] = IF h[i] < LimWindow THEN h[i] + 1 ELSE LimWindow
    BY <1>1, <2>1, AgedFacts
  <2>3. \A i \in 1 .. Len(h) : h[i] \in Nat
    BY <1>1 DEF Ages
  <2>4. \A i \in 1 .. Len(a) : a[i] <= LimWindow
    BY <1>1, <2>2, <2>3
  <2>5. QED
    BY <1>1, <2>1, <2>2, <2>4 DEF Entries
<1>6. ASSUME Len(f) < LimLimit PROVE Append(f, 0) \in Entries
  <2>1. PICK a : a = Append(f, 0)
    OBVIOUS
  <2>2. /\ a \in Ages /\ Len(a) = Len(f) + 1 /\ a[Len(f) + 1] = 0
        /\ \A i \in 1 .. Len(f) : a[i] = f[i]
    BY <1>3, <2>1 DEF Ages
  <2>3. \A i \in 1 .. Len(f) + 1 : a[i] <= LimWindow
    <3>1. \A i \in 1 .. Len(f) + 1 : i = Len(f) + 1 \/ i \in 1 .. Len(f)
      BY <1>3
    <3>2. QED
      BY <1>1, <1>3, <2>2, <3>1
  <2>4. Len(a) <= LimLimit
    BY <1>1, <1>3, <1>6, <2>2
  <2>5. QED
    BY <2>1, <2>2, <2>3, <2>4 DEF Entries
<1>7. QED
  BY <1>2, <1>4, <1>5, <1>6

LEMMA PrunedEntries ==
    ASSUME NEW hits \in [LimClient -> Entries]
    PROVE  Prune(hits) \in [LimClient -> Entries]
BY EmptyEntry DEF Prune

LEMMA LimInitBounded == LimInit => LimBounded
<1> SUFFICES ASSUME LimInit PROVE LimBounded
  OBVIOUS
<1>1. limHits \in [LimClient -> Entries]
  BY EmptyEntry DEF LimInit
<1>2. limBusy \in [LimClient -> 0 .. LimThreads]
  BY LimAssumption DEF LimInit
<1>3. limAnswer.answer = "none"
  BY DEF LimInit, Quiet
<1>4. QED
  BY <1>1, <1>2, <1>3 DEF LimBounded

LEMMA LimStepBounded == LimBounded /\ [LimNext]_limVars => LimBounded'
<1> SUFFICES ASSUME LimBounded, [LimNext]_limVars PROVE LimBounded'
  OBVIOUS
<1>0. /\ limHits \in [LimClient -> Entries] /\ limBusy \in [LimClient -> 0 .. LimThreads]
      /\ LimThreads \in Nat
  BY LimAssumption DEF LimBounded
<1>1. CASE LimTick
  <2>1. limHits' = [c \in LimClient |-> AgedStamps(limHits[c])] /\ limBusy' = limBusy
    BY <1>1 DEF LimTick, AgedStamps
  <2>2. limAnswer'.answer = "none"
    BY <1>1 DEF LimTick, Quiet
  <2>3. limHits' \in [LimClient -> Entries]
    BY <1>0, <2>1, EntriesStay
  <2>4. QED
    BY <1>0, <2>1, <2>2, <2>3 DEF LimBounded
<1>2. ASSUME NEW c \in LimClient, LimAdmit(c) PROVE LimBounded'
  <2>1. PICK a \in Entries : a = Append(Fresh(limHits[c]), 0)
    BY <1>0, <1>2, EntriesStay DEF LimAdmit
  <2>2. limHits' = Prune([limHits EXCEPT ![c] = a])
    BY <1>2, <2>1 DEF LimAdmit
  <2>3. [limHits EXCEPT ![c] = a] \in [LimClient -> Entries]
    BY <1>0
  <2>4. limBusy' \in [LimClient -> 0 .. LimThreads]
    BY <1>0, <1>2 DEF LimAdmit
  <2>5. limAnswer'.answer = "admitted"
    BY <1>2 DEF LimAdmit
  <2>6. limHits' \in [LimClient -> Entries]
    BY <2>2, <2>3, PrunedEntries
  <2>7. QED
    BY <2>4, <2>5, <2>6 DEF LimBounded
<1>3. ASSUME NEW c \in LimClient, LimRefuse(c) PROVE LimBounded'
  <2>1. PICK f \in Entries : f = Fresh(limHits[c])
    BY <1>0, EntriesStay
  <2>2. limHits' = [limHits EXCEPT ![c] = f] /\ limBusy' = limBusy /\ limAnswer'.answer = "refused"
    BY <1>3, <2>1 DEF LimRefuse
  <2>3. QED
    BY <1>0, <2>2 DEF LimBounded
<1>4. ASSUME NEW c \in LimClient, LimChecked(c) PROVE LimBounded'
  <2>1. limHits' \in [LimClient -> Entries]
    BY <1>0, <1>4, EmptyEntry DEF LimChecked
  <2>2. limBusy' \in [LimClient -> 0 .. LimThreads]
    BY <1>0, <1>4 DEF LimChecked
  <2>3. limAnswer'.answer = "none"
    BY <1>4 DEF LimChecked, Quiet
  <2>4. QED
    BY <2>1, <2>2, <2>3 DEF LimBounded
<1>5. CASE UNCHANGED limVars
  BY <1>5 DEF LimBounded, limVars
<1>6. QED
  BY <1>1, <1>2, <1>3, <1>4, <1>5 DEF LimNext

\* Together they are the type invariant.
LEMMA LimTypesAgree == LimInv /\ LimBounded => LimTypeOK
<1> SUFFICES ASSUME LimInv, LimBounded PROVE LimTypeOK
  OBVIOUS
<1>1. ASSUME NEW c \in LimClient
      PROVE  /\ Len(limHits[c]) <= LimLimit /\ Range(limHits[c]) \subseteq 0 .. LimWindow
             /\ Range(limTried[c]) \subseteq 0 .. LimWindow - 1
  <2>1. PICK h \in Entries : h = limHits[c]
    BY DEF LimBounded
  <2>2. PICK t : t = limTried[c]
    OBVIOUS
  <2>3. h \in Ages /\ t = Fresh(h)
    BY <2>1, <2>2 DEF LimInv, HistoryIsFresh
  <2>4. t \in Ages /\ \A i \in 1 .. Len(t) : t[i] < LimWindow
    BY <2>3, FreshFacts
  <2>5. /\ DOMAIN h = 1 .. Len(h) /\ DOMAIN t = 1 .. Len(t) /\ LimWindow \in Nat
        /\ \A i \in 1 .. Len(h) : h[i] \in 0 .. LimWindow
        /\ \A i \in 1 .. Len(t) : t[i] \in 0 .. LimWindow - 1
    BY <2>3, <2>4, LimAssumption DEF Entries, Ages
  <2>6. Range(h) \subseteq 0 .. LimWindow /\ Range(t) \subseteq 0 .. LimWindow - 1
    BY <2>5 DEF Range
  <2>7. QED
    BY <2>1, <2>2, <2>6 DEF Entries
<1>2. QED
  BY <1>1 DEF LimBounded, LimTypeOK

-----------------------------------------------------------------------------
(* The status report                                                       *)

\* Rules of which the last always holds answer with a status.
Complete(rules, n) ==
    /\ n > 0 /\ DOMAIN rules = 1 .. n /\ rules[n][1] = "otherwise"
    /\ \A i \in 1 .. n : rules[i][2] \in Statuses

LEMMA CompleteRulesAnswer ==
    ASSUME NEW rules, NEW n \in Nat, Complete(rules, n), NEW reading
    PROVE  FirstRule(rules, reading) \in Statuses
<1> DEFINE holds(i) == rules[i][1] \in reading \cup {"otherwise"}
           T == {i \in 1 .. n : holds(i)}
           first == CHOOSE i \in DOMAIN rules : holds(i) /\ \A j \in 1 .. i - 1 : ~holds(j)
<1>1. n \in T /\ T \subseteq Nat
  BY DEF Complete
<1>2. PICK m \in T : \A k \in T : ~(k < m)
  <2> HIDE DEF T
  <2>1. QED
    BY <1>1, LeastNumber
<1>3. m \in DOMAIN rules /\ holds(m) /\ \A j \in 1 .. m - 1 : ~holds(j)
  <2>1. m \in 1 .. n /\ holds(m) /\ DOMAIN rules = 1 .. n
    BY <1>2 DEF Complete
  <2>2. ASSUME NEW j \in 1 .. m - 1 PROVE ~holds(j)
    <3>1. j \in 1 .. n /\ j < m
      BY <2>1
    <3>2. j \notin T
      BY <1>2, <3>1
    <3>3. QED
      BY <3>1, <3>2
  <2>3. QED
    BY <2>1, <2>2
<1>4. first \in 1 .. n
  <2> HIDE DEF holds
  <2>1. QED
    BY <1>3 DEF Complete
<1>5. FirstRule(rules, reading) = rules[first][2]
  BY DEF FirstRule
<1>6. QED
  BY <1>4, <1>5 DEF Complete

\* The controller's and the system's rules are complete.
LEMMA AllRulesAreComplete ==
    /\ \A check \in DOMAIN ControllerRules : \E n \in Nat : Complete(ControllerRules[check], n)
    /\ \A check \in DOMAIN SystemRules : \E n \in Nat : Complete(SystemRules[check], n)
<1> USE DEF Complete, Statuses
<1>1. /\ Complete(ControllerRules["camera"], 4) /\ Complete(ControllerRules["pir"], 5)
      /\ Complete(ControllerRules["arming"], 2)
  BY DEF ControllerRules
<1>2. /\ Complete(ControllerRules["storage"], 4) /\ Complete(ControllerRules["network"], 3)
      /\ Complete(ControllerRules["queue"], 2)
  BY DEF ControllerRules
<1>3. /\ Complete(SystemRules["temperature"], 4) /\ Complete(SystemRules["power"], 4)
      /\ Complete(SystemRules["memory"], 4)
  BY DEF SystemRules
<1>4. /\ DOMAIN ControllerRules = {"camera", "pir", "arming", "storage", "network", "queue"}
      /\ DOMAIN SystemRules = {"temperature", "power", "memory"}
  BY DEF ControllerRules, SystemRules
<1> HIDE DEF Complete
<1>5. 2 \in Nat /\ 3 \in Nat /\ 4 \in Nat /\ 5 \in Nat
  OBVIOUS
<1>6. QED
  BY <1>1, <1>2, <1>3, <1>4, <1>5

LEMMA AnswersAreStatuses ==
    ASSUME NEW check \in DOMAIN ControllerRules \cup DOMAIN SystemRules, NEW reading
    PROVE  Answer(check, reading) \in Statuses
<1>1. CASE check \in DOMAIN SystemRules
  <2>1. PICK n \in Nat : Complete(SystemRules[check], n)
    BY <1>1, AllRulesAreComplete
  <2>2. FirstRule(SystemRules[check], reading) \in Statuses
    BY <2>1, CompleteRulesAnswer
  <2>3. QED
    BY <1>1, <2>2 DEF Answer
<1>2. CASE check \notin DOMAIN SystemRules
  <2>1. PICK n \in Nat : Complete(ControllerRules[check], n)
    BY <1>2, AllRulesAreComplete
  <2>2. FirstRule(ControllerRules[check], reading) \in Statuses
    BY <2>1, CompleteRulesAnswer
  <2>3. QED
    BY <1>2, <2>2 DEF Answer, Statuses
<1>3. QED
  BY <1>1, <1>2

\* What has been asked, for every state of the subsystems.
LEMMA AnswersNowTyped ==
    /\ HeaChecks \in Nat \ {0}
    /\ AnswersNow \in Seq(Statuses) /\ Len(AnswersNow) = HeaChecks
    /\ \A i \in Checks : AnswersNow[i] \in Statuses
<1>1. /\ HeaChecks \in Nat \ {0}
      /\ \A i \in Checks : HeaAsked[i] \in DOMAIN ControllerRules \cup DOMAIN SystemRules
  BY HeaAssumption DEF HeaChecks, Checks
<1>2. \A i \in Checks : Answer(HeaAsked[i], heaTruth[i]) \in Statuses
  BY <1>1, AnswersAreStatuses
<1>3. PICK f : f = [i \in Checks |-> Answer(HeaAsked[i], heaTruth[i])]
  OBVIOUS
<1>4. f = [i \in Checks |-> f[i]] /\ \A i \in Checks : f[i] \in Statuses
  BY <1>2, <1>3
<1>5. f \in Seq(Statuses) /\ Len(f) = HeaChecks
  BY <1>1, <1>4 DEF Checks
<1>6. QED
  BY <1>1, <1>3, <1>4, <1>5 DEF AnswersNow

\* The overall status is one of the answers, no other is worse, and only one is so bad.
LEMMA OverallIsWorst ==
    ASSUME NEW answers \in Seq(Statuses), Len(answers) > 0
    PROVE  /\ Overall(answers) \in Range(answers) /\ Overall(answers) \in Statuses
           /\ \A t \in Range(answers) : Severity(t) <= Severity(Overall(answers))
           /\ \A s \in Range(answers) :
                (\A t \in Range(answers) : Severity(t) <= Severity(s)) => s = Overall(answers)
<1> DEFINE R == Range(answers)
<1>1. R \subseteq Statuses
  BY DEF Range
<1>2. answers[1] \in R
  BY DEF Range
<1>3. /\ Severity("ok") = 0 /\ Severity("unknown") = 1
      /\ Severity("degraded") = 2 /\ Severity("critical") = 3
  BY DEF Severity
<1> HIDE DEF R
<1>4. \E s \in R : \A t \in R : Severity(t) <= Severity(s)
  <2>1. \A t \in R : t = "ok" \/ t = "unknown" \/ t = "degraded" \/ t = "critical"
    BY <1>1 DEF Statuses
  <2>2. CASE "critical" \in R
    BY <1>3, <2>1, <2>2
  <2>3. CASE "critical" \notin R /\ "degraded" \in R
    BY <1>3, <2>1, <2>3
  <2>4. CASE "critical" \notin R /\ "degraded" \notin R /\ "unknown" \in R
    BY <1>3, <2>1, <2>4
  <2>5. CASE "critical" \notin R /\ "degraded" \notin R /\ "unknown" \notin R
    BY <1>2, <1>3, <2>1, <2>5
  <2>6. QED
    BY <2>2, <2>3, <2>4, <2>5
<1>5. Overall(answers) \in R /\ \A t \in R : Severity(t) <= Severity(Overall(answers))
  <2>1. Overall(answers) = CHOOSE s \in R : \A t \in R : Severity(t) <= Severity(s)
    BY DEF Overall, R
  <2>2. QED
    BY <1>4, <2>1
<1>6. \A s, t \in Statuses : Severity(s) <= Severity(t) /\ Severity(t) <= Severity(s) => s = t
  BY <1>3 DEF Statuses
<1>7. QED
  BY <1>1, <1>5, <1>6 DEF R

-----------------------------------------------------------------------------
(* Collections                                                             *)

Reports == [status: Statuses, checks: Seq(Statuses)]

\* How many checks a collector at this place has seen the answers of.
AnswersAt(place) ==
    IF place = Idle THEN 0 ELSE IF place = Kept THEN HeaChecks ELSE place

\* Every variable with its type; a collector has seen as many answers as it has asked.
HeaInv ==
    /\ DOMAIN heaTruth = Checks
    /\ \A i \in Checks : heaTruth[i] \in HeaReadings[HeaAsked[i]]
    /\ heaCalm \in BOOLEAN
    /\ heaAt \in [Collectors -> Idle .. Kept]
    /\ heaSeen \in [Collectors -> Seq(Statuses)]
    /\ \A k \in Collectors : Len(heaSeen[k]) = AnswersAt(heaAt[k])
    /\ heaReport \in Reports /\ heaFile \in Reports

LEMMA ReportTyped ==
    ASSUME NEW answers \in Seq(Statuses), Len(answers) > 0
    PROVE  Report(answers) \in Reports
BY OverallIsWorst DEF Report, Reports

LEMMA HeaInitInv == HeaInit => HeaInv
<1> SUFFICES ASSUME HeaInit PROVE HeaInv
  OBVIOUS
<1>1. DOMAIN heaTruth = Checks /\ \A i \in Checks : heaTruth[i] \in HeaReadings[HeaAsked[i]]
  BY DEF HeaInit
<1>2. <<>> \in Seq(Statuses) /\ Len(<<>>) = 0
  OBVIOUS
<1>3. heaReport \in Reports /\ heaFile \in Reports
  BY <1>2 DEF HeaInit, Reports, Statuses
<1>4. Idle \in Idle .. Kept /\ AnswersAt(Idle) = 0
  BY AnswersNowTyped DEF Idle, Kept, AnswersAt
<1>5. heaAt \in [Collectors -> Idle .. Kept] /\ heaSeen \in [Collectors -> Seq(Statuses)]
  BY <1>2, <1>4 DEF HeaInit
<1>6. \A k \in Collectors : Len(heaSeen[k]) = AnswersAt(heaAt[k])
  BY <1>2, <1>4 DEF HeaInit
<1>7. QED
  BY <1>1, <1>3, <1>5, <1>6 DEF HeaInit, HeaInv

LEMMA HeaStepInv == HeaInv /\ [HeaNext]_heaVars => HeaInv'
<1> SUFFICES ASSUME HeaInv, [HeaNext]_heaVars PROVE HeaInv'
  OBVIOUS
<1>0. /\ HeaChecks \in Nat \ {0} /\ Idle = -1 /\ Kept = HeaChecks + 1
      /\ <<>> \in Seq(Statuses) /\ Len(<<>>) = 0
  BY AnswersNowTyped DEF Idle, Kept
<1>1. CASE HeaChange
  <2>0. PICK i \in Checks : \E r \in HeaReadings[HeaAsked[i]] : heaTruth' = [heaTruth EXCEPT ![i] = r]
    BY <1>1 DEF HeaChange
  <2>1. PICK r \in HeaReadings[HeaAsked[i]] : heaTruth' = [heaTruth EXCEPT ![i] = r]
    BY <2>0
  <2>2. /\ DOMAIN heaTruth' = Checks
        /\ \A j \in Checks : heaTruth'[j] \in HeaReadings[HeaAsked[j]]
    BY <2>1 DEF HeaInv
  <2>3. heaCalm' \in BOOLEAN /\ UNCHANGED <<heaAt, heaSeen, heaReport, heaFile>>
    BY <1>1 DEF HeaChange
  <2>4. QED
    BY <2>2, <2>3 DEF HeaInv
<1>2. ASSUME NEW k \in Collectors, HeaBegin(k) PROVE HeaInv'
  <2>1. /\ heaAt[k] = Idle /\ heaAt' = [heaAt EXCEPT ![k] = 0]
        /\ UNCHANGED <<heaTruth, heaCalm, heaSeen, heaReport, heaFile>>
    BY <1>2 DEF HeaBegin
  <2>2. 0 \in Idle .. Kept /\ AnswersAt(0) = 0 /\ AnswersAt(Idle) = 0
    BY <1>0 DEF AnswersAt
  <2>3. heaAt' \in [Collectors -> Idle .. Kept]
    BY <2>1, <2>2 DEF HeaInv
  <2>4. \A c \in Collectors : Len(heaSeen[c]) = AnswersAt(heaAt'[c])
    BY <2>1, <2>2 DEF HeaInv
  <2>5. QED
    BY <2>1, <2>3, <2>4 DEF HeaInv
<1>3. ASSUME NEW k \in Collectors, HeaAsk(k) PROVE HeaInv'
  <2>1. PICK n \in 0 .. HeaChecks - 1 : n = heaAt[k]
    BY <1>3 DEF HeaAsk
  <2>2. PICK a \in Statuses : a = AnswersNow[n + 1]
    <3>1. n + 1 \in Checks
      BY <1>0, <2>1 DEF Checks
    <3>2. QED
      BY <3>1, AnswersNowTyped
  <2>3. PICK s \in Seq(Statuses) : s = heaSeen[k]
    BY DEF HeaInv
  <2>4. /\ heaAt' = [heaAt EXCEPT ![k] = n + 1] /\ heaSeen' = [heaSeen EXCEPT ![k] = Append(s, a)]
        /\ UNCHANGED <<heaTruth, heaCalm, heaReport, heaFile>>
    BY <1>3, <2>1, <2>2, <2>3 DEF HeaAsk
  <2>5. n + 1 \in Idle .. Kept /\ AnswersAt(n) = n /\ AnswersAt(n + 1) = n + 1
    BY <1>0, <2>1 DEF AnswersAt
  <2>6. Append(s, a) \in Seq(Statuses) /\ Len(Append(s, a)) = Len(s) + 1
    OBVIOUS
  <2>7. heaAt' \in [Collectors -> Idle .. Kept] /\ heaSeen' \in [Collectors -> Seq(Statuses)]
    BY <2>4, <2>5, <2>6 DEF HeaInv
  <2>8. \A c \in Collectors : Len(heaSeen'[c]) = AnswersAt(heaAt'[c])
    <3>1. Len(s) = n
      BY <2>1, <2>3, <2>5 DEF HeaInv
    <3>2. QED
      BY <2>4, <2>5, <2>6, <3>1 DEF HeaInv
  <2>9. QED
    BY <2>4, <2>7, <2>8 DEF HeaInv
<1>4. ASSUME NEW k \in Collectors, HeaKeep(k) PROVE HeaInv'
  <2>1. PICK s \in Seq(Statuses) : s = heaSeen[k]
    BY DEF HeaInv
  <2>2. AnswersAt(HeaChecks) = HeaChecks /\ AnswersAt(Kept) = HeaChecks /\ Kept \in Idle .. Kept
    BY <1>0 DEF AnswersAt
  <2>3. Len(s) = HeaChecks
    BY <1>4, <2>1, <2>2 DEF HeaInv, HeaKeep
  <2>4. heaReport' \in Reports
    BY <1>0, <1>4, <2>1, <2>3, ReportTyped DEF HeaKeep
  <2>5. heaAt' = [heaAt EXCEPT ![k] = Kept] /\ UNCHANGED <<heaTruth, heaCalm, heaSeen, heaFile>>
    BY <1>4 DEF HeaKeep
  <2>6. heaAt' \in [Collectors -> Idle .. Kept]
    BY <2>2, <2>5 DEF HeaInv
  <2>7. \A c \in Collectors : Len(heaSeen[c]) = AnswersAt(heaAt'[c])
    BY <2>1, <2>2, <2>3, <2>5 DEF HeaInv
  <2>8. QED
    BY <2>4, <2>5, <2>6, <2>7 DEF HeaInv
<1>5. ASSUME NEW k \in Collectors, HeaPublish(k) PROVE HeaInv'
  <2>1. PICK s \in Seq(Statuses) : s = heaSeen[k]
    BY DEF HeaInv
  <2>2. AnswersAt(Kept) = HeaChecks /\ AnswersAt(Idle) = 0 /\ Idle \in Idle .. Kept
    BY <1>0 DEF AnswersAt
  <2>3. Len(s) = HeaChecks
    BY <1>5, <2>1, <2>2 DEF HeaInv, HeaPublish
  <2>4. heaFile' \in Reports
    BY <1>0, <1>5, <2>1, <2>3, ReportTyped DEF HeaPublish, HeaInv
  <2>5. /\ heaAt' = [heaAt EXCEPT ![k] = Idle] /\ heaSeen' = [heaSeen EXCEPT ![k] = <<>>]
        /\ UNCHANGED <<heaTruth, heaCalm, heaReport>>
    BY <1>5 DEF HeaPublish
  <2>6. heaAt' \in [Collectors -> Idle .. Kept] /\ heaSeen' \in [Collectors -> Seq(Statuses)]
    BY <1>0, <2>2, <2>5 DEF HeaInv
  <2>7. \A c \in Collectors : Len(heaSeen'[c]) = AnswersAt(heaAt'[c])
    BY <1>0, <2>2, <2>5 DEF HeaInv
  <2>8. QED
    BY <2>4, <2>5, <2>6, <2>7 DEF HeaInv
<1>6. CASE UNCHANGED heaVars
  BY <1>6 DEF HeaInv, heaVars
<1>7. QED
  BY <1>1, <1>2, <1>3, <1>4, <1>5, <1>6 DEF HeaNext, HeaStep

\* It is the type invariant.
LEMMA HeaTypesAgree == HeaInv => HeaTypeOK
<1> SUFFICES ASSUME HeaInv PROVE HeaTypeOK
  OBVIOUS
<1>1. ASSUME NEW k \in Collectors PROVE heaSeen[k] \in Seq(Statuses) /\ Len(heaSeen[k]) <= HeaChecks
  <2>1. heaAt[k] \in Idle .. Kept /\ Len(heaSeen[k]) = AnswersAt(heaAt[k])
    BY <1>1 DEF HeaInv
  <2>2. AnswersAt(heaAt[k]) <= HeaChecks
    BY <2>1, AnswersNowTyped DEF AnswersAt, Idle, Kept
  <2>3. QED
    BY <1>1, <2>1, <2>2 DEF HeaInv
<1>2. QED
  BY <1>1 DEF HeaInv, HeaTypeOK, Reports

\* No collection has an answer in hand that is no longer true.
NothingOldInHand ==
    \A k \in Collectors : \A i \in 1 .. Len(heaSeen[k]) : heaSeen[k][i] = AnswersNow[i]

\* Nothing changes, the report and the file show it, and no collection will undo that.
HeaSettled == heaCalm /\ HeaShowsTruth /\ NothingOldInHand

\* A full collection of true answers reports the truth, and nothing else does.
LEMMA TrueReport ==
    /\ \A answers \in Seq(Statuses) :
         Len(answers) = HeaChecks /\ (\A i \in 1 .. HeaChecks : answers[i] = AnswersNow[i]) =>
             answers = AnswersNow
    /\ heaReport \in Reports /\ HeaShowsTruth => heaReport = Report(AnswersNow)
    /\ heaReport = Report(AnswersNow) /\ heaFile = heaReport => HeaShowsTruth
<1>1. PICK now \in Seq(Statuses) : now = AnswersNow /\ Len(now) = HeaChecks
  BY AnswersNowTyped
<1>2. HeaChecks \in Nat \ {0} /\ Checks = 1 .. Len(now) /\ DOMAIN now = 1 .. Len(now)
  BY <1>1, AnswersNowTyped DEF Checks
<1>3. \A answers \in Seq(Statuses) :
        Len(answers) = HeaChecks /\ (\A i \in 1 .. HeaChecks : answers[i] = now[i]) => answers = now
  BY <1>1
<1>4. /\ Overall(now) \in Range(now)
      /\ \A t \in Range(now) : Severity(t) <= Severity(Overall(now))
      /\ \A s \in Range(now) : (\A t \in Range(now) : Severity(t) <= Severity(s)) => s = Overall(now)
  BY <1>1, <1>2, OverallIsWorst
<1>5. /\ \A i \in Checks : now[i] \in Range(now)
      /\ \A t \in Range(now) : \E i \in Checks : t = now[i]
  BY <1>2 DEF Range
<1>6. ASSUME heaReport \in Reports, HeaShowsTruth PROVE heaReport = Report(now)
  <2>1. PICK st \in Statuses, ch \in Seq(Statuses) : heaReport = [status |-> st, checks |-> ch]
    BY <1>6 DEF Reports
  <2>2. ch = now /\ st \in Range(now) /\ \A i \in Checks : Severity(now[i]) <= Severity(st)
    BY <1>1, <1>6, <2>1 DEF HeaShowsTruth
  <2>3. st = Overall(now)
    BY <1>4, <1>5, <2>2
  <2>4. QED
    BY <2>1, <2>2, <2>3 DEF Report
<1>7. ASSUME heaReport = Report(now), heaFile = heaReport PROVE HeaShowsTruth
  <2>1. heaReport.checks = now /\ heaReport.status = Overall(now)
    BY <1>7 DEF Report
  <2>2. QED
    BY <1>1, <1>4, <1>5, <1>7, <2>1 DEF HeaShowsTruth
<1>8. QED
  BY <1>1, <1>3, <1>6, <1>7

\* Once nothing changes any more, the report and the file show it, and no collection
\* under way has an old answer in hand, they keep showing it, however many collections
\* overlap: what holds once stays, and the runs check that it comes to hold
\* (health.py collect, _publish).
THEOREM TruthStaysShown == HeaSpec => [][HeaSettled => HeaSettled']_heaVars
<1>1. ASSUME HeaInv, HeaNext, HeaSettled PROVE HeaSettled'
  <2>1. /\ heaCalm /\ heaReport = Report(AnswersNow) /\ heaFile = heaReport
        /\ NothingOldInHand
    BY <1>1, TrueReport DEF HeaSettled, HeaInv, HeaShowsTruth
  <2>2. PICK k \in Collectors : HeaStep(k)
    BY <1>1, <2>1 DEF HeaNext, HeaChange
  <2>3. heaTruth' = heaTruth /\ heaCalm' = heaCalm
    BY <2>2 DEF HeaStep, HeaBegin, HeaAsk, HeaKeep, HeaPublish
  <2>4. AnswersNow' = AnswersNow
    BY <2>3 DEF AnswersNow
  <2>5. PICK now : now = AnswersNow /\ now = AnswersNow'
    BY <2>4
  <2>6. PICK s \in Seq(Statuses) : s = heaSeen[k]
    BY <1>1 DEF HeaInv
  <2>7. \A i \in 1 .. Len(s) : s[i] = now[i]
    BY <2>1, <2>5, <2>6 DEF NothingOldInHand
  <2>8. heaAt[k] \in {HeaChecks, Kept} => s = now
    <3>1. heaAt[k] \in {HeaChecks, Kept} => AnswersAt(heaAt[k]) = HeaChecks
      BY AnswersNowTyped DEF AnswersAt, Idle, Kept
    <3>2. Len(s) = AnswersAt(heaAt[k])
      BY <1>1, <2>6 DEF HeaInv
    <3>3. QED
      BY <2>5, <2>7, <3>1, <3>2, TrueReport
  <2>9. heaReport' = heaReport
    BY <2>1, <2>2, <2>5, <2>6, <2>8 DEF HeaStep, HeaBegin, HeaAsk, HeaKeep, HeaPublish
  <2>10. heaFile' = heaFile
    BY <2>1, <2>2, <2>5, <2>6, <2>8 DEF HeaStep, HeaBegin, HeaAsk, HeaKeep, HeaPublish
  <2>11. HeaShowsTruth'
    BY <2>1, <2>4, <2>9, <2>10, TrueReport DEF HeaShowsTruth
  <2>12. ASSUME NEW c \in Collectors, NEW i \in 1 .. Len(heaSeen'[c]) PROVE heaSeen'[c][i] = now[i]
    <3>1. PICK was \in Seq(Statuses) : was = heaSeen[c]
      BY <1>1 DEF HeaInv
    <3>2. \A j \in 1 .. Len(was) : was[j] = now[j]
      BY <2>1, <2>5, <3>1 DEF NothingOldInHand
    <3>3. CASE heaSeen' = heaSeen
      BY <2>12, <3>1, <3>2, <3>3
    <3>4. CASE HeaAsk(k)
      <4>1. CASE c = k
        <5>1. PICK n \in 0 .. HeaChecks - 1 : n = heaAt[k]
          BY <3>4 DEF HeaAsk
        <5>2. PICK a \in Statuses : a = now[n + 1]
          <6>1. n + 1 \in Checks
            BY <5>1, AnswersNowTyped DEF Checks
          <6>2. QED
            BY <2>5, <6>1, AnswersNowTyped
        <5>3. heaSeen'[c] = Append(was, a)
          BY <1>1, <2>5, <3>1, <3>4, <4>1, <5>1, <5>2 DEF HeaAsk, HeaInv
        <5>4. Len(was) = n
          <6>1. AnswersAt(n) = n
            BY <5>1, AnswersNowTyped DEF AnswersAt, Idle, Kept
          <6>2. QED
            BY <1>1, <3>1, <4>1, <5>1, <6>1 DEF HeaInv
        <5>5. \A j \in 1 .. n + 1 : Append(was, a)[j] = IF j = n + 1 THEN a ELSE was[j]
          BY <5>4
        <5>6. Len(Append(was, a)) = n + 1 /\ \A j \in 1 .. n + 1 : j # n + 1 => j \in 1 .. n
          BY <5>1, <5>4
        <5>7. QED
          BY <3>2, <5>2, <5>3, <5>4, <5>5, <5>6
      <4>2. CASE c # k
        <5>1. heaSeen'[c] = heaSeen[c]
          BY <1>1, <3>4, <4>2 DEF HeaAsk, HeaInv
        <5>2. QED
          BY <2>12, <3>1, <3>2, <5>1
      <4>3. QED
        BY <4>1, <4>2
    <3>5. CASE HeaPublish(k)
      <4>1. heaSeen'[c] = heaSeen[c] \/ heaSeen'[c] = <<>>
        BY <1>1, <3>5 DEF HeaPublish, HeaInv
      <4>2. QED
        BY <2>12, <3>1, <3>2, <4>1
    <3>6. QED
      BY <2>2, <3>3, <3>4, <3>5 DEF HeaStep, HeaBegin, HeaKeep
  <2>13. NothingOldInHand'
    BY <2>5, <2>12 DEF NothingOldInHand
  <2>14. QED
    BY <2>1, <2>3, <2>11, <2>13 DEF HeaSettled
<1>2. HeaInv /\ [HeaNext]_heaVars => [HeaSettled => HeaSettled']_heaVars
  BY <1>1
<1>3. QED
  BY <1>2, HeaInitInv, HeaStepInv, PTL DEF HeaSpec

-----------------------------------------------------------------------------
(* All of them                                                             *)

\* The components share no variable: a step of the composition is a step of one of
\* them, in which the others stand still.
LEMMA EachStepsAlone ==
    [ServicesNext]_servicesVars =>
        /\ [PirNext]_pirVars /\ [SupNext]_supVars /\ [LimNext]_limVars /\ [FilNext]_filVars
        /\ [NetNext]_netVars /\ [RetNext]_retVars /\ [ClipNext]_clipVars /\ [HeaNext]_heaVars
        /\ [TreeNext]_treeVars /\ [CoolNext]_coolVars
BY Zenon DEF ServicesNext, servicesVars, PirRuns, SupRuns, LimRuns, FilRuns, NetRuns, RetRuns,
             ClipRuns, HealthAlone, HeaRuns, TreeRuns, CoolRuns

LEMMA EachBegins ==
    ServicesInit =>
        /\ PirInit /\ SupInit /\ LimInit /\ FilInit /\ NetInit /\ RetInit /\ ClipInit /\ HeaInit
        /\ TreeInit /\ CoolInit
BY Zenon DEF ServicesInit

\* The directories' types of the proofs are those of the type invariant.
LEMMA TreeTypesAgree == TreeTyped => TreeTypeOK
<1> SUFFICES ASSUME TreeTyped PROVE TreeTypeOK
  OBVIOUS
<1>1. ASSUME NEW w \in TreeWriter
      PROVE  treeWriter[w].at \in {"idle", "make day", "make event", "open", "replace"}
  <2>1. treeWriter[w] = NobodyWrites \/ \E p \in Places, e \in TreeEvent : treeWriter[w] = Spot(p, e)
    BY DEF TreeTyped
  <2>2. NobodyWrites.at = "idle" /\ \A p \in Places, e \in TreeEvent : Spot(p, e).at = p
    BY DEF NobodyWrites, Spot
  <2>3. treeWriter[w].at \in {"idle"} \cup Places
    BY <2>1, <2>2
  <2>4. QED
    BY <2>3 DEF Places
<1>2. ASSUME NEW d \in TreeDeleter
      PROVE  /\ treeDeleter[d].at \in {"idle", "list", "unlink", "prune"}
             /\ treeDeleter[d].listed \subseteq Entry
  <2>1. treeDeleter[d] = NobodyDeletes \/ treeDeleter[d] \in Deletions
    BY DEF TreeTyped
  <2>2. QED
    BY <2>1 DEF NobodyDeletes, Deletions
<1>3. treeCreated \cup treeMarked \cup treeFailed \subseteq TreeEvent
  BY DEF TreeTyped
<1>4. treeDay \in BOOLEAN
  BY DEF TreeTyped
<1>5. treeLeaf \in [TreeEvent -> (SUBSET Entry) \cup {Absent}]
  BY DEF TreeTyped
<1>6. QED
  BY <1>1, <1>2, <1>3, <1>4, <1>5, Zenon DEF TreeTypeOK

\* Each component's invariant.
ServicesInv ==
    /\ PirInv /\ SupTypeOK /\ LimInv /\ LimBounded /\ FilInv /\ NetTyped
    /\ RetInv /\ RetBounded /\ ClipInv /\ HeaInv /\ TreeTyped /\ CoolInv

\* Every variable of every component keeps its type, whichever component runs and
\* whatever the constants are (all of MCServices).
THEOREM ServicesAreTyped == ServicesSpec => []ServicesTypeOK
<1>1. ServicesInit => ServicesInv
  BY EachBegins, PirInitInv, SupInitPinged, LimInitInv, LimInitBounded, FilInitInv, NetInitInv,
     RetInitInv, RetInitBounded, ClipInitInv, HeaInitInv, TreeInitInv, CoolInitInv
     DEF ServicesInv, TreeInv
<1>2. ServicesInv /\ [ServicesNext]_servicesVars => ServicesInv'
  BY EachStepsAlone, PirStepInv, SupStepTyped, LimStepInv, LimStepBounded, FilStepInv,
     NetStepTyped, RetStepInv, RetStepBounded, ClipStepInv, HeaStepInv, TreeStepTyped, CoolStepInv
     DEF ServicesInv
<1>3. ServicesInv => ServicesTypeOK
  BY LimTypesAgree, NetTypesAgree, RetTypesAgree, HeaTypesAgree, TreeTypesAgree
     DEF ServicesInv, ServicesTypeOK, PirInv, FilInv, ClipInv, CoolInv
<1>4. QED
  BY <1>1, <1>2, <1>3, PTL DEF ServicesSpec
=================================================================================
