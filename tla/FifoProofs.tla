------------------------------ MODULE FifoProofs ------------------------------
(***************************************************************************)
(* BuildSchedule for any program: its loop makes progress, its memory plan *)
(* never has two owners of a loc, what it says of sizes is right, and the  *)
(* schedule computes the program and passes ValidateSchedule.              *)
(***************************************************************************)
EXTENDS Fifo, FiniteSetTheorems, WellFoundedInduction, TLAPS

-----------------------------------------------------------------------------
(* Natural numbers and recursion *)

\* A set of natural numbers that is not empty has a least element: among its initial
\* segments, which are finite, one is contained in no other.
LEMMA FirstNumber ==
    ASSUME NEW S \in SUBSET Nat, S # {}
    PROVE  \E x \in S : \A y \in S : x <= y
  <1> DEFINE Upto(x) == S \cap (0..x)
             Segments == {Upto(x) : x \in S}
  <1>1. Segments \subseteq FiniteSubsetsOf(Nat)
    <2> SUFFICES ASSUME NEW x \in S PROVE Upto(x) \in FiniteSubsetsOf(Nat)
      OBVIOUS
    <2>1. IsFiniteSet(0..x)
      BY FS_Interval
    <2>2. IsFiniteSet(Upto(x))
      BY <2>1, FS_Subset
    <2>3. QED
      BY <2>2 DEF FiniteSubsetsOf
  <1>2. Segments # {}
    OBVIOUS
  <1> HIDE DEF Segments
  <1>3. PICK A \in Segments : \A B \in Segments : ~(<<B, A>> \in StrictSubsetOrdering(Nat))
    BY <1>1, <1>2, FS_StrictSubsetOrderingWellFounded, WFMin
  <1>4. PICK x \in S : A = Upto(x)
    BY <1>3 DEF Segments
  <1>5. ASSUME NEW y \in S, y < x
        PROVE  FALSE
    <2>1. Upto(y) \subseteq A /\ Upto(y) # A /\ Upto(y) \subseteq Nat /\ A \subseteq Nat
      BY <1>4, <1>5
    <2>2. <<Upto(y), A>> \in StrictSubsetOrdering(Nat)
      BY <2>1 DEF StrictSubsetOrdering
    <2>3. QED
      BY <1>3, <2>2 DEF Segments
  <1>6. QED
    BY <1>5

\* Induction over the numbers up to n, for the set of those that have a property.
LEMMA UpTo ==
    ASSUME NEW n \in Nat, NEW S, 0 \in S, \A k \in 1..n : k - 1 \in S => k \in S
    PROVE  0..n \subseteq S
  <1> DEFINE Bad == (0..n) \ S
  <1> SUFFICES ASSUME Bad # {} PROVE FALSE
    OBVIOUS
  <1>1. Bad \in SUBSET Nat
    OBVIOUS
  <1>2. PICK k \in Bad : \A y \in Bad : k <= y
    <2> HIDE DEF Bad
    <2>1. QED
      BY <1>1, FirstNumber
  <1>3. k \in 1..n /\ k - 1 \in 0..n /\ k \in Nat
    OBVIOUS
  <1>4. k - 1 \in S
    BY <1>2, <1>3
  <1>5. QED
    BY <1>3, <1>4

\* A step from values of D to values of D can be repeated n times.
StepsIn(n, D) == [(1..n) \X D -> D]
IsRun(f, n, D, b, F) == f \in [0..n -> D] /\ f[0] = b /\ \A k \in 1..n : f[k] = F[<<k, f[k - 1]>>]

LEMMA Repeated ==
    ASSUME NEW n \in Nat, NEW D, NEW b \in D, NEW F \in StepsIn(n, D)
    PROVE  \E f : IsRun(f, n, D, b, F)
  <1> DEFINE Is(f, k) == f \in [0..k -> D] /\ f[0] = b /\ \A i \in 1..k : f[i] = F[<<i, f[i - 1]>>]
             S == {k \in 0..n : \E f : Is(f, k)}
  <1>1. 0 \in S
    <2>1. Is([i \in 0..0 |-> b], 0)
      OBVIOUS
    <2>2. \E f : Is(f, 0)
      <3> HIDE DEF Is
      <3>1. QED
        BY <2>1
    <2>3. QED
      BY <2>2
  <1>2. ASSUME NEW k \in 1..n, k - 1 \in S
        PROVE  k \in S
    <2>1. PICK f : Is(f, k - 1)
      BY <1>2
    <2> DEFINE g == [i \in 0..k |-> IF i = k THEN F[<<k, f[k - 1]>>] ELSE f[i]]
    <2>2. f[k - 1] \in D
      BY <2>1
    <2>3. F[<<k, f[k - 1]>>] \in D
      BY <2>2 DEF StepsIn
    <2>4. g \in [0..k -> D]
      BY <2>1, <2>3
    <2>5. g[0] = b
      BY <2>1
    <2>6. ASSUME NEW i \in 1..k
          PROVE  g[i] = F[<<i, g[i - 1]>>]
      <3>1. g[i - 1] = f[i - 1] /\ g[i] = IF i = k THEN F[<<k, f[k - 1]>>] ELSE f[i]
        OBVIOUS
      <3>2. CASE i = k
        <4> HIDE DEF g
        <4>1. QED
          BY <3>1, <3>2
      <3>3. CASE i # k
        <4>1. i \in 1..(k - 1)
          BY <3>3
        <4>2. f[i] = F[<<i, f[i - 1]>>]
          BY <4>1, <2>1
        <4>3. g[i] = f[i]
          BY <3>3
        <4>4. QED
          BY <3>1, <4>2, <4>3
      <3>4. QED
        BY <3>2, <3>3
    <2>7. Is(g, k)
      BY <2>4, <2>5, <2>6
    <2>8. k \in 0..n
      OBVIOUS
    <2>9. QED
      BY <2>7, <2>8
  <1>3. n \in S
    <2> HIDE DEF S
    <2>1. 0..n \subseteq S
      BY <1>1, <1>2, UpTo
    <2>2. QED
      BY <2>1
  <1>4. QED
    BY <1>3 DEF IsRun

\* What Min and Max choose.
LEMMA MinOf ==
    ASSUME NEW S \in SUBSET Nat, S # {}
    PROVE  Min(S) \in S /\ \A y \in S : Min(S) <= y
  BY FirstNumber DEF Min

LEMMA MaxOf ==
    ASSUME NEW n \in Nat, NEW S \in SUBSET (0..n), S # {}
    PROVE  Max(S) \in S /\ \A y \in S : y <= Max(S)
  <1> DEFINE T == {n - x : x \in S}
  <1>1. \A x \in S : n - x \in Nat
    OBVIOUS
  <1>2. T \in SUBSET Nat /\ T # {}
    BY <1>1
  <1> HIDE DEF T
  <1>3. PICK z \in T : \A y \in T : z <= y
    BY <1>2, FirstNumber
  <1>4. PICK x \in S : z = n - x
    BY <1>3 DEF T
  <1>5. ASSUME NEW y \in S
        PROVE  y <= x
    <2>1. z <= n - y
      BY <1>3 DEF T
    <2>2. QED
      BY <1>4, <2>1
  <1>6. \E m \in S : \A y \in S : m >= y
    BY <1>5
  <1>7. QED
    BY <1>6 DEF Max

-----------------------------------------------------------------------------
(* Sequences *)

LEMMA Inserted ==
    ASSUME NEW S, NEW s \in Seq(S), NEW i \in 1..(Len(s) + 1), NEW e \in S
    PROVE  /\ InsertAt(s, i, e) \in Seq(S)
           /\ Len(InsertAt(s, i, e)) = Len(s) + 1
           /\ \A k \in 1..(Len(s) + 1) :
                InsertAt(s, i, e)[k] = IF k < i THEN s[k] ELSE IF k = i THEN e ELSE s[k - 1]
  <1> DEFINE t == InsertAt(s, i, e)
             u == SubSeq(s, 1, i - 1)
             v == SubSeq(s, i, Len(s))
  <1>1. u \in Seq(S) /\ Len(u) = i - 1 /\ \A k \in 1..(i - 1) : u[k] = s[k]
    OBVIOUS
  <1>2. v \in Seq(S) /\ Len(v) = Len(s) - i + 1 /\ \A k \in 1..Len(v) : v[k] = s[k + i - 1]
    <2>1. v \in Seq(S) /\ Len(v) = Len(s) - i + 1
      OBVIOUS
    <2>2. ASSUME NEW k \in 1..Len(v) PROVE v[k] = s[k + i - 1]
      BY <2>1
    <2>3. QED
      BY <2>1, <2>2
  <1>3. t = (u \o <<e>>) \o v
    BY DEF InsertAt
  <1> HIDE DEF t, u, v
  <1>4. /\ u \o <<e>> \in Seq(S) /\ Len(u \o <<e>>) = i
        /\ \A k \in 1..(i - 1) : (u \o <<e>>)[k] = s[k]
        /\ (u \o <<e>>)[i] = e
    BY <1>1
  <1>5. t \in Seq(S) /\ Len(t) = Len(s) + 1
    <2> DEFINE w == u \o <<e>>
    <2>1. w \in Seq(S) /\ v \in Seq(S) /\ t = w \o v
      BY <1>2, <1>3, <1>4
    <2>2. Len(w) = i /\ Len(v) = Len(s) - i + 1
      BY <1>2, <1>4
    <2> HIDE DEF w
    <2>3. t \in Seq(S) /\ Len(t) = Len(w) + Len(v)
      BY <2>1
    <2>4. QED
      BY <2>2, <2>3
  <1>6. ASSUME NEW k \in 1..(Len(s) + 1)
        PROVE  t[k] = IF k < i THEN s[k] ELSE IF k = i THEN e ELSE s[k - 1]
    <2> DEFINE w == u \o <<e>>
    <2>a. CASE k <= i
      <3>1. w \in Seq(S) /\ v \in Seq(S) /\ t = w \o v /\ k \in 1..Len(w)
        BY <1>2, <1>3, <1>4, <2>a
      <3>2. (k < i => w[k] = s[k]) /\ (k = i => w[k] = e)
        BY <1>4
      <3> HIDE DEF w
      <3>3. t[k] = w[k]
        BY <3>1
      <3>4. QED
        BY <2>a, <3>2, <3>3
    <2>1. CASE k < i
      BY <2>1, <2>a
    <2>2. CASE k = i
      BY <2>2, <2>a
    <2>3. CASE k > i
      <3>1. k - i \in 1..Len(v)
        BY <1>2, <2>3
      <3>2. t[k] = v[k - i]
        <4>1. Len(u \o <<e>>) < k /\ k <= Len(u \o <<e>>) + Len(v)
          BY <1>2, <1>4, <2>3
        <4>a. w \in Seq(S) /\ v \in Seq(S) /\ t = w \o v
          BY <1>2, <1>3, <1>4
        <4>b. Len(w) < k /\ k <= Len(w) + Len(v)
          BY <4>1
        <4> HIDE DEF w
        <4>c. t[k] = v[k - Len(w)]
          BY <4>a, <4>b
        <4>2. t[k] = v[k - Len(u \o <<e>>)]
          BY <4>c DEF w
        <4>3. QED
          BY <4>2, <1>4
      <3>3. v[k - i] = s[(k - i) + i - 1]
        BY <1>2, <3>1
      <3>4. QED
        BY <3>2, <3>3, <2>3
    <2>4. QED
      BY <2>1, <2>2, <2>3
  <1>7. QED
    BY <1>5, <1>6 DEF t

LEMMA InsertedSet ==
    ASSUME NEW S, NEW s \in Seq(S), NEW i \in 1..(Len(s) + 1), NEW e \in S
    PROVE  /\ ToSet(InsertAt(s, i, e)) = ToSet(s) \cup {e}
           /\ IsInjective(s) /\ e \notin ToSet(s) => IsInjective(InsertAt(s, i, e))
  <1> DEFINE t == InsertAt(s, i, e)
  <1>1. /\ t \in Seq(S) /\ DOMAIN t = 1..(Len(s) + 1) /\ DOMAIN s = 1..Len(s)
        /\ \A k \in 1..(Len(s) + 1) : t[k] = IF k < i THEN s[k] ELSE IF k = i THEN e ELSE s[k - 1]
    <2>1. t \in Seq(S)
      BY Inserted
    <2>2. Len(t) = Len(s) + 1
      BY Inserted
    <2>3. \A k \in 1..(Len(s) + 1) : t[k] = IF k < i THEN s[k] ELSE IF k = i THEN e ELSE s[k - 1]
      BY Inserted
    <2> HIDE DEF t
    <2>4. DOMAIN t = 1..(Len(s) + 1) /\ DOMAIN s = 1..Len(s)
      BY <2>1, <2>2
    <2>5. QED
      BY <2>1, <2>3, <2>4
  <1> HIDE DEF t
  <1>2. ASSUME NEW k \in DOMAIN t PROVE t[k] \in ToSet(s) \cup {e}
    <2>1. CASE k < i
      BY <1>1, <2>1 DEF ToSet
    <2>2. CASE k = i
      BY <1>1, <2>2
    <2>3. CASE k > i
      <3>1. k - 1 \in DOMAIN s
        BY <1>1, <2>3
      <3>2. QED
        BY <1>1, <2>3, <3>1 DEF ToSet
    <2>4. QED
      BY <1>1, <2>1, <2>2, <2>3
  <1>3. ASSUME NEW k \in DOMAIN s PROVE \E m \in DOMAIN t : t[m] = s[k]
    <2>1. CASE k < i
      BY <1>1, <2>1
    <2>2. CASE k >= i
      <3>1. k + 1 \in DOMAIN t /\ t[k + 1] = s[(k + 1) - 1]
        BY <1>1, <2>2
      <3>2. QED
        BY <3>1, <1>1
    <2>3. QED
      BY <1>1, <2>1, <2>2
  <1>4. i \in DOMAIN t /\ t[i] = e
    BY <1>1
  <1>5. ToSet(t) = ToSet(s) \cup {e}
    BY <1>2, <1>3, <1>4 DEF ToSet
  <1>6. ASSUME IsInjective(s), e \notin ToSet(s), NEW j \in DOMAIN t, NEW k \in DOMAIN t, t[j] = t[k]
        PROVE  j = k
    <2> DEFINE From(m) == IF m < i THEN m ELSE m - 1
    <2>1. ASSUME NEW m \in DOMAIN t, m # i PROVE From(m) \in DOMAIN s /\ t[m] = s[From(m)]
      BY <1>1, <2>1
    <2>2. CASE j = i
      BY <1>4, <2>1, <2>2, <1>6 DEF ToSet
    <2>3. CASE k = i
      BY <1>4, <2>1, <2>3, <1>6 DEF ToSet
    <2>4. CASE j # i /\ k # i
      <3>1. From(j) = From(k)
        <4> HIDE DEF From
        <4>1. QED
          BY <2>1, <2>4, <1>6 DEF IsInjective
      <3>2. j \in Int /\ k \in Int
        BY <1>1
      <3>3. QED
        BY <3>1, <3>2, <2>4
    <2>5. QED
      BY <2>2, <2>3, <2>4
  <1>7. IsInjective(s) /\ e \notin ToSet(s) => IsInjective(t)
    BY <1>6 DEF IsInjective
  <1>8. QED
    BY <1>5, <1>7 DEF t

LEMMA Removed ==
    ASSUME NEW S, NEW s \in Seq(S), NEW i \in 1..Len(s)
    PROVE  /\ RemoveAt(s, i) \in Seq(S)
           /\ Len(RemoveAt(s, i)) = Len(s) - 1
           /\ \A k \in 1..(Len(s) - 1) : RemoveAt(s, i)[k] = IF k < i THEN s[k] ELSE s[k + 1]
  <1> DEFINE t == RemoveAt(s, i)
             u == SubSeq(s, 1, i - 1)
             v == SubSeq(s, i + 1, Len(s))
  <1>1. u \in Seq(S) /\ Len(u) = i - 1 /\ \A k \in 1..(i - 1) : u[k] = s[k]
    OBVIOUS
  <1>2. v \in Seq(S) /\ Len(v) = Len(s) - i /\ \A k \in 1..Len(v) : v[k] = s[k + i]
    <2>1. v \in Seq(S) /\ Len(v) = Len(s) - i
      OBVIOUS
    <2>2. ASSUME NEW k \in 1..Len(v) PROVE v[k] = s[k + i]
      BY <2>1
    <2>3. QED
      BY <2>1, <2>2
  <1>3. t = u \o v
    BY DEF RemoveAt
  <1> HIDE DEF t, u, v
  <1>4. t \in Seq(S) /\ Len(t) = Len(s) - 1
    <2>1. u \in Seq(S) /\ v \in Seq(S)
      BY <1>1, <1>2
    <2>2. t \in Seq(S) /\ Len(t) = Len(u) + Len(v)
      BY <2>1, <1>3
    <2>3. Len(u) = i - 1 /\ Len(v) = Len(s) - i
      BY <1>1, <1>2
    <2>4. QED
      BY <2>2, <2>3
  <1>5. ASSUME NEW k \in 1..(Len(s) - 1)
        PROVE  t[k] = IF k < i THEN s[k] ELSE s[k + 1]
    <2>1. CASE k < i
      <3>1. k \in 1..Len(u) /\ u[k] = s[k]
        BY <1>1, <2>1
      <3>2. u \in Seq(S) /\ v \in Seq(S)
        BY <1>1, <1>2
      <3>3. t[k] = u[k]
        BY <1>3, <3>1, <3>2
      <3>4. QED
        BY <2>1, <3>1, <3>3
    <2>2. CASE k >= i
      <3>1. k - i + 1 \in 1..Len(v)
        BY <1>2, <2>2
      <3>2. t[k] = v[k - i + 1]
        <4>1. u \in Seq(S) /\ v \in Seq(S) /\ Len(u) = i - 1
          BY <1>1, <1>2
        <4>2. Len(u) < k /\ k <= Len(u) + Len(v)
          BY <4>1, <1>2, <2>2
        <4>3. t[k] = v[k - Len(u)]
          BY <1>3, <4>1, <4>2
        <4>4. k - Len(u) = k - i + 1
          BY <4>1
        <4>5. QED
          BY <4>3, <4>4
      <3>3. v[k - i + 1] = s[(k - i + 1) + i]
        BY <1>2, <3>1
      <3>4. QED
        BY <3>2, <3>3, <2>2
    <2>3. QED
      BY <2>1, <2>2
  <1>6. QED
    BY <1>4, <1>5 DEF t

\* An element of a sequence without duplicates is gone when it has been removed.
LEMMA RemovedSet ==
    ASSUME NEW S, NEW s \in Seq(S), NEW i \in 1..Len(s), IsInjective(s)
    PROVE  /\ ToSet(RemoveAt(s, i)) = ToSet(s) \ {s[i]}
           /\ IsInjective(RemoveAt(s, i))
  <1> DEFINE t == RemoveAt(s, i)
             From(k) == IF k < i THEN k ELSE k + 1
  <1>1. /\ t \in Seq(S) /\ DOMAIN t = 1..(Len(s) - 1) /\ DOMAIN s = 1..Len(s)
        /\ \A k \in DOMAIN t : t[k] = IF k < i THEN s[k] ELSE s[k + 1]
    <2>1. t \in Seq(S)
      BY Removed
    <2>2. Len(t) = Len(s) - 1
      BY Removed
    <2>3. \A k \in 1..(Len(s) - 1) : t[k] = IF k < i THEN s[k] ELSE s[k + 1]
      BY Removed
    <2> HIDE DEF t
    <2>4. DOMAIN t = 1..(Len(s) - 1) /\ DOMAIN s = 1..Len(s)
      BY <2>1, <2>2
    <2>5. QED
      BY <2>1, <2>3, <2>4
  <1> HIDE DEF t
  <1>2. ASSUME NEW k \in DOMAIN t PROVE From(k) \in DOMAIN s /\ From(k) # i /\ t[k] = s[From(k)]
    BY <1>1, <1>2
  <1>3. ASSUME NEW k \in DOMAIN s, k # i PROVE \E m \in DOMAIN t : t[m] = s[k]
    <2>1. CASE k < i
      BY <1>1, <2>1
    <2>2. CASE k > i
      <3>1. k - 1 \in DOMAIN t /\ t[k - 1] = s[(k - 1) + 1]
        BY <1>1, <2>2
      <3>2. QED
        BY <3>1, <1>1
    <2>3. QED
      BY <1>1, <1>3, <2>1, <2>2
  <1>4. ASSUME NEW j \in DOMAIN t, NEW k \in DOMAIN t, t[j] = t[k]
        PROVE  j = k
    <2>1. From(j) = From(k)
      <3> HIDE DEF From
      <3>1. QED
        BY <1>2, <1>4 DEF IsInjective
    <2>2. j \in Int /\ k \in Int
      BY <1>1
    <2>3. QED
      BY <2>1, <2>2
  <1>5. ToSet(t) = ToSet(s) \ {s[i]}
    <2> HIDE DEF From
    <2>1. ASSUME NEW k \in DOMAIN t PROVE t[k] \in ToSet(s) \ {s[i]}
      BY <1>1, <1>2 DEF ToSet, IsInjective
    <2>2. ASSUME NEW x \in ToSet(s) \ {s[i]} PROVE x \in ToSet(t)
      <3>1. PICK k \in DOMAIN s : x = s[k] /\ k # i
        BY <2>2 DEF ToSet
      <3>2. QED
        BY <3>1, <1>3 DEF ToSet
    <2>3. QED
      BY <2>1, <2>2 DEF ToSet
  <1>6. QED
    BY <1>4, <1>5 DEF t, IsInjective

\* What an appended element adds.
LEMMA AppendedSet ==
    ASSUME NEW S, NEW s \in Seq(S), NEW e \in S
    PROVE  /\ ToSet(Append(s, e)) = ToSet(s) \cup {e}
           /\ IsInjective(s) /\ e \notin ToSet(s) => IsInjective(Append(s, e))
  <1>1. /\ Append(s, e) \in Seq(S) /\ DOMAIN Append(s, e) = 1..(Len(s) + 1) /\ DOMAIN s = 1..Len(s)
        /\ \A k \in DOMAIN s : Append(s, e)[k] = s[k]
        /\ Append(s, e)[Len(s) + 1] = e
        /\ Len(s) \in Nat
    OBVIOUS
  <1> DEFINE t == Append(s, e)
  <1> HIDE DEF t
  <1>2. ASSUME NEW k \in DOMAIN t PROVE t[k] \in ToSet(s) \cup {e}
    BY <1>1 DEF ToSet, t
  <1>3. ASSUME NEW x \in ToSet(s) \cup {e} PROVE x \in ToSet(t)
    BY <1>1 DEF ToSet, t
  <1>4. ASSUME IsInjective(s), e \notin ToSet(s), NEW j \in DOMAIN t, NEW k \in DOMAIN t, t[j] = t[k]
        PROVE  j = k
    <2>1. ASSUME NEW m \in DOMAIN t, m # Len(s) + 1 PROVE m \in DOMAIN s /\ t[m] = s[m] /\ t[m] # e
      <3>1. m \in DOMAIN s
        BY <1>1, <2>1 DEF t
      <3>2. QED
        BY <3>1, <1>1, <1>4 DEF t, ToSet
    <2>2. t[Len(s) + 1] = e
      BY <1>1 DEF t
    <2>3. QED
      BY <2>1, <2>2, <1>4 DEF IsInjective
  <1>5. QED
    <2>1. ToSet(t) = ToSet(s) \cup {e}
      <3>1. \A x \in ToSet(t) : x \in ToSet(s) \cup {e}
        BY <1>2 DEF ToSet
      <3>2. QED
        BY <1>3, <3>1
    <2>2. IsInjective(s) /\ e \notin ToSet(s) => IsInjective(t)
      BY <1>4 DEF IsInjective
    <2>3. QED
      BY <2>1, <2>2 DEF t

LEMMA Joined ==
    ASSUME NEW S, NEW x \in Seq(S), NEW y \in Seq(S)
    PROVE  /\ x \o y \in Seq(S)
           /\ Len(x \o y) = Len(x) + Len(y)
           /\ \A i \in 1..Len(x) : (x \o y)[i] = x[i]
           /\ \A i \in (Len(x) + 1)..(Len(x) + Len(y)) : i - Len(x) \in 1..Len(y) /\ (x \o y)[i] = y[i - Len(x)]
  <1>1. ASSUME NEW i \in (Len(x) + 1)..(Len(x) + Len(y)) PROVE i - Len(x) \in 1..Len(y) /\ (x \o y)[i] = y[i - Len(x)]
    <2>1. Len(x) < i /\ i <= Len(x) + Len(y) /\ i \in Int /\ Len(x) \in Nat /\ Len(y) \in Nat
      OBVIOUS
    <2>2. QED
      BY <2>1
  <1>2. QED
    BY <1>1

\* Two sequences and an element behind them.
LEMMA Concatenated ==
    ASSUME NEW S, NEW a \in Seq(S), NEW z \in Seq(S), NEW e \in S
    PROVE  /\ a \o z \o <<e>> \in Seq(S)
           /\ Len(a \o z \o <<e>>) = Len(a) + Len(z) + 1
           /\ DOMAIN (a \o z \o <<e>>) = 1..(Len(a) + Len(z) + 1)
           /\ \A i \in 1..Len(a) : (a \o z \o <<e>>)[i] = a[i]
           /\ (a \o z \o <<e>>)[Len(a) + Len(z) + 1] = e
           /\ \A i \in (Len(a) + 1)..(Len(a) + Len(z)) :
                 i - Len(a) \in 1..Len(z) /\ (a \o z \o <<e>>)[i] = z[i - Len(a)]
  <1>1. PICK t : t = a \o z
    OBVIOUS
  <1>2. PICK u : u = <<e>>
    OBVIOUS
  <1>3. PICK s : s = t \o u
    OBVIOUS
  <1>4. /\ t \in Seq(S) /\ Len(t) = Len(a) + Len(z) /\ Len(a) \in Nat /\ Len(z) \in Nat
        /\ \A i \in 1..Len(a) : t[i] = a[i]
        /\ \A i \in (Len(a) + 1)..(Len(a) + Len(z)) : i - Len(a) \in 1..Len(z) /\ t[i] = z[i - Len(a)]
    BY <1>1, Joined
  <1>5. u \in Seq(S) /\ Len(u) = 1 /\ u[1] = e
    BY <1>2
  <1>6. /\ s \in Seq(S) /\ Len(s) = Len(t) + Len(u)
        /\ \A i \in 1..Len(t) : s[i] = t[i]
        /\ \A i \in (Len(t) + 1)..(Len(t) + Len(u)) : s[i] = u[i - Len(t)]
    <2>1. t \in Seq(S) /\ u \in Seq(S)
      BY <1>4, <1>5
    <2>2. QED
      BY <2>1, <1>3, Joined
  <1>7. Len(s) = Len(a) + Len(z) + 1 /\ DOMAIN s = 1..(Len(a) + Len(z) + 1)
    BY <1>4, <1>5, <1>6
  <1>8. s[Len(a) + Len(z) + 1] = e
    <2>1. s[Len(t) + 1] = u[(Len(t) + 1) - Len(t)]
      BY <1>4, <1>5, <1>6
    <2>2. (Len(t) + 1) - Len(t) = 1 /\ Len(t) + 1 = Len(a) + Len(z) + 1
      BY <1>4
    <2>3. QED
      BY <2>1, <2>2, <1>5
  <1>9. \A i \in 1..Len(a) : s[i] = a[i]
    BY <1>4, <1>6
  <1>10. ASSUME NEW i \in (Len(a) + 1)..(Len(a) + Len(z)) PROVE i - Len(a) \in 1..Len(z) /\ s[i] = z[i - Len(a)]
    BY <1>4, <1>6
  <1>11. QED
    BY <1>1, <1>2, <1>3, <1>6, <1>7, <1>8, <1>9, <1>10

-----------------------------------------------------------------------------
(* Programs *)

LEMMA ProgramTypes ==
    ASSUME IsProgram
    PROVE  /\ Final \in Nat /\ Final > 1
           /\ \A a \in Allocs : Size(a) \in Nat /\ Size(a) > 0
           /\ \A p \in Steps :
                /\ Inputs(p) \subseteq Allocs
                /\ StepOf(p).outputs \in Seq(Allocs)
                /\ IsInjective(StepOf(p).outputs)
                /\ Outputs(p) \subseteq Allocs
                /\ IsZero(p) \in BOOLEAN
           /\ ~IsZero(Final) /\ Outputs(Final) = {}
  <1>1. Final \in Nat /\ Final > 1
    <2>1. program.kernels \in Seq(KernelStep) /\ program.kernels # <<>>
      BY DEF IsProgram
    <2>2. Len(program.kernels) \in Nat /\ Len(program.kernels) > 0
      BY <2>1
    <2>3. QED
      BY <2>2 DEF Final
  <1>2. \A a \in Allocs : Size(a) \in Nat /\ Size(a) > 0
    BY DEF IsProgram, Size
  <1>3. ASSUME NEW p \in Steps, p # Final
        PROVE  /\ StepOf(p) \in KernelStep
               /\ p \in 1..(Final - 1)
    <2>1. p \in 1..(Final - 1)
      BY <1>1, <1>3 DEF Steps
    <2>2. p \in 1..Len(program.kernels)
      BY <2>1, <1>1 DEF Final, IsProgram
    <2>3. program.kernels[p] \in KernelStep
      BY <2>2 DEF IsProgram
    <2>4. QED
      BY <2>1, <2>3, <1>3 DEF StepOf
  <1>4. /\ Inputs(Final) \subseteq Allocs
        /\ StepOf(Final).outputs = <<>>
        /\ IsZero(Final) = FALSE
    BY DEF StepOf, Inputs, IsZero
  <1>5. Outputs(Final) = {}
    BY <1>4 DEF Outputs, ToSet
  <1>6. ASSUME NEW p \in Steps
        PROVE  /\ Inputs(p) \subseteq Allocs
               /\ StepOf(p).outputs \in Seq(Allocs)
               /\ IsInjective(StepOf(p).outputs)
               /\ Outputs(p) \subseteq Allocs
               /\ IsZero(p) \in BOOLEAN
    <2>1. CASE p = Final
      <3>1. IsInjective(<<>>) /\ <<>> \in Seq(Allocs)
        BY DEF IsInjective
      <3>2. QED
        BY <2>1, <1>4, <1>5, <3>1
    <2>2. CASE p # Final
      <3>1. StepOf(p) \in KernelStep /\ p \in 1..(Final - 1)
        BY <2>2, <1>3
      <3>2. StepOf(p).outputs \in Seq(Allocs) /\ Inputs(p) \subseteq Allocs /\ IsZero(p) \in BOOLEAN
        BY <3>1 DEF KernelStep, Inputs, IsZero
      <3>3. Outputs(p) \subseteq Allocs
        BY <3>2 DEF Outputs, ToSet
      <3>4. IsInjective(StepOf(p).outputs)
        BY <3>1 DEF IsProgram
      <3>5. QED
        BY <3>2, <3>3, <3>4
    <2>3. QED
      BY <2>1, <2>2
  <1>7. QED
    BY <1>1, <1>2, <1>4, <1>5, <1>6

LEMMA WriterFacts ==
    ASSUME IsProgram, NEW p \in Steps, NEW a
    PROVE  /\ MostRecentWriter(a, p) \in 0..(p - 1)
           /\ MostRecentWriter(a, p) # 0 =>
                MostRecentWriter(a, p) \in Steps /\ a \in Outputs(MostRecentWriter(a, p))
           /\ \A q \in 1..(p - 1) : a \in Outputs(q) => q <= MostRecentWriter(a, p)
  <1> DEFINE W == {q \in 1..(p - 1) : a \in Outputs(q)}
  <1>1. Final \in Nat /\ p \in 1..Final
    BY ProgramTypes DEF Steps
  <1>2. {0} \cup W \in SUBSET (0..(p - 1)) /\ p - 1 \in Nat
    BY <1>1
  <1>3. MostRecentWriter(a, p) = Max({0} \cup W)
    BY DEF MostRecentWriter
  <1>4. Max({0} \cup W) \in {0} \cup W /\ \A y \in {0} \cup W : y <= Max({0} \cup W)
    <2> HIDE DEF W
    <2>1. QED
      BY <1>2, MaxOf
  <1>5. QED
    BY <1>1, <1>2, <1>3, <1>4 DEF Steps

\* A zero step writes one alloc, as the first of several steps, and reads nothing.
LEMMA ZeroFacts ==
    ASSUME IsProgram, NEW z \in Steps, IsZero(z)
    PROVE  /\ Inputs(z) = {} /\ z < Final
           /\ \E a \in Allocs : Outputs(z) = {a} /\ Len(StepOf(z).outputs) = 1 /\ StepOf(z).outputs[1] = a
           /\ \A a \in Outputs(z) :
                /\ MostRecentWriter(a, z) = 0
                /\ \A q \in 1..(z - 1) : a \notin Outputs(q)
                /\ \E q \in (z + 1)..(Final - 1) : a \in Outputs(q)
  <1>1. z \in 1..(Final - 1) /\ Final \in Nat
    BY ProgramTypes DEF Steps
  <1>2. /\ Inputs(z) = {} /\ Len(StepOf(z).outputs) = 1
        /\ \A a \in Outputs(z) : MostRecentWriter(a, z) = 0
        /\ Outputs(z) \subseteq UNION {Outputs(q) : q \in (z + 1)..(Final - 1)}
    BY <1>1 DEF IsProgram
  <1>3. StepOf(z).outputs \in Seq(Allocs)
    BY ProgramTypes
  <1>4. Outputs(z) = {StepOf(z).outputs[1]} /\ StepOf(z).outputs[1] \in Allocs
    BY <1>2, <1>3 DEF Outputs, ToSet
  <1>5. ASSUME NEW a \in Outputs(z)
        PROVE  /\ \A q \in 1..(z - 1) : a \notin Outputs(q)
               /\ \E q \in (z + 1)..(Final - 1) : a \in Outputs(q)
    <2>1. \A q \in 1..(z - 1) : a \in Outputs(q) => q <= 0
      BY <1>2, WriterFacts
    <2>2. \A q \in 1..(z - 1) : a \notin Outputs(q)
      BY <2>1, <1>1
    <2>3. QED
      BY <2>2, <1>2
  <1>6. QED
    BY <1>1, <1>2, <1>4, <1>5

\* A step waits for earlier steps that do something, among them the last writer of what it
\* reads.
LEMMA DependencyFacts ==
    ASSUME IsProgram, NEW p \in Steps
    PROVE  /\ Dependencies(p) \subseteq {q \in 1..(p - 1) : ~IsZero(q)}
           /\ \A a \in Inputs(p) : ~IsInput(a) =>
                /\ MostRecentWriter(a, p) # 0
                /\ MostRecentWriter(a, p) \in Dependencies(p)
                /\ \A q \in Steps : a \in Outputs(q) => q <= MostRecentWriter(a, p)
           /\ \A a \in Outputs(p) : MostRecentWriter(a, p) # 0 /\ ~IsZero(MostRecentWriter(a, p)) =>
                MostRecentWriter(a, p) \in Dependencies(p)
  <1>0. Final \in Nat /\ Final > 1 /\ p \in 1..Final /\ Outputs(Final) = {}
    BY ProgramTypes DEF Steps
  <1>1. ASSUME NEW a \in Inputs(p), ~IsInput(a)
        PROVE  /\ MostRecentWriter(a, p) # 0
               /\ \A q \in Steps : a \in Outputs(q) => q <= MostRecentWriter(a, p)
               /\ ~IsZero(MostRecentWriter(a, p))
    <2> DEFINE w == MostRecentWriter(a, p)
    <2>1. w # 0 /\ \A q \in p..(Final - 1) : a \notin Outputs(q)
      BY <1>1 DEF IsProgram
    <2>2. /\ w \in 0..(p - 1) /\ w \in Steps /\ a \in Outputs(w)
          /\ \A q \in 1..(p - 1) : a \in Outputs(q) => q <= w
      BY <2>1, WriterFacts
    <2> HIDE DEF w
    <2>3. ASSUME NEW q \in Steps, a \in Outputs(q) PROVE q <= w
      <3>1. q \in 1..(p - 1)
        BY <2>1, <2>3, <1>0 DEF Steps
      <3>2. QED
        BY <3>1, <2>2, <2>3
    <2>4. ASSUME IsZero(w) PROVE FALSE
      <3>1. PICK q \in (w + 1)..(Final - 1) : a \in Outputs(q)
        BY <2>2, <2>4, ZeroFacts
      <3>2. q \in Steps /\ q > w
        BY <3>1, <2>2, <1>0 DEF Steps
      <3>3. q \in Int /\ w \in Int
        BY <2>2, <3>1
      <3>4. QED
        BY <3>1, <3>2, <3>3, <2>3
    <2>5. QED
      BY <2>1, <2>3, <2>4 DEF w
  <1>2. Dependencies(p) \subseteq {q \in 1..(p - 1) : ~IsZero(q)}
    <2>1. ASSUME NEW a \in Inputs(p), ~IsInput(a)
          PROVE  MostRecentWriter(a, p) \in {q \in 1..(p - 1) : ~IsZero(q)}
      BY <1>1, <2>1, WriterFacts, <1>0
    <2>2. ASSUME NEW a \in Outputs(p), MostRecentWriter(a, p) # 0, ~IsZero(MostRecentWriter(a, p))
          PROVE  MostRecentWriter(a, p) \in {q \in 1..(p - 1) : ~IsZero(q)}
      BY <2>2, WriterFacts, <1>0
    <2>3. QED
      BY <2>1, <2>2 DEF Dependencies
  <1>3. QED
    BY <1>1, <1>2 DEF Dependencies

-----------------------------------------------------------------------------
(* Free locs *)

\* emplace puts l behind some of the locs.
LEMMA FreeLocFacts ==
    ASSUME NEW list, NEW S, NEW free \in Seq(S), NEW l \in S
    PROVE  /\ FreeLoc(free, list, l) \in Seq(S)
           /\ ToSet(FreeLoc(free, list, l)) = ToSet(free) \cup {l}
           /\ IsInjective(free) /\ l \notin ToSet(free) => IsInjective(FreeLoc(free, list, l))
  <1> DEFINE smaller == {i \in DOMAIN free : list[free[i]].byte_size <= list[l].byte_size}
             i == Max({0} \cup smaller) + 1
  <1>1. {0} \cup smaller \in SUBSET (0..Len(free)) /\ Len(free) \in Nat
    OBVIOUS
  <1>2. Max({0} \cup smaller) \in {0} \cup smaller
    <2> HIDE DEF smaller
    <2>1. QED
      BY <1>1, MaxOf
  <1>3. i \in 1..(Len(free) + 1)
    BY <1>1, <1>2
  <1>4. FreeLoc(free, list, l) = InsertAt(free, i, l)
    BY DEF FreeLoc
  <1> HIDE DEF i, smaller
  <1>5. QED
    BY <1>3, <1>4, Inserted, InsertedSet

LEMMA FreeLocsDefined ==
    ASSUME NEW list, NEW S, NEW free \in Seq(S), NEW order \in Seq(S)
    PROVE  \E freed :
              /\ FreeLocs(free, list, order) = freed[Len(order)]
              /\ freed[0] = free
              /\ \A k \in 1..Len(order) : freed[k] = FreeLoc(freed[k - 1], list, order[k])
  <1> DEFINE n == Len(order)
             D == Seq(S)
             Is(f) == f = [k \in 0..n |-> IF k = 0 THEN free ELSE FreeLoc(f[k - 1], list, order[k])]
             F == [x \in (1..n) \X D |-> FreeLoc(x[2], list, order[x[1]])]
  <1>1. n \in Nat /\ free \in D /\ \A k \in 1..n : order[k] \in S
    OBVIOUS
  <1>2. F \in StepsIn(n, D)
    <2> SUFFICES ASSUME NEW x \in (1..n) \X D PROVE FreeLoc(x[2], list, order[x[1]]) \in D
      BY DEF StepsIn
    <2>1. x[2] \in Seq(S) /\ order[x[1]] \in S
      BY <1>1
    <2>2. QED
      BY <2>1, FreeLocFacts
  <1> HIDE DEF n, D
  <1>3. PICK f : IsRun(f, n, D, free, F)
    <2> HIDE DEF F
    <2>1. QED
      BY <1>1, <1>2, Repeated
  <1>4. ASSUME NEW k \in 1..n
        PROVE  f[k] = FreeLoc(f[k - 1], list, order[k])
    <2>1. f[k - 1] \in D
      BY <1>1, <1>3 DEF IsRun
    <2>2. QED
      BY <1>3, <2>1 DEF IsRun
  <1>5. Is(f)
    BY <1>1, <1>3, <1>4 DEF IsRun
  <1>6. Is(CHOOSE g : Is(g))
    <2> HIDE DEF Is
    <2>1. QED
      BY <1>5
  <1>7. FreeLocs(free, list, order) = (CHOOSE g : Is(g))[n]
    BY DEF FreeLocs, n
  <1>8. ASSUME NEW g, Is(g)
        PROVE  g[0] = free /\ \A k \in 1..n : g[k] = FreeLoc(g[k - 1], list, order[k])
    BY <1>1, <1>8
  <1>9. QED
    <2> HIDE DEF Is
    <2>1. QED
      BY <1>6, <1>7, <1>8 DEF n

LEMMA FreeLocsFacts ==
    ASSUME NEW list, NEW S, NEW free \in Seq(S), NEW order \in Seq(S)
    PROVE  /\ FreeLocs(free, list, order) \in Seq(S)
           /\ ToSet(FreeLocs(free, list, order)) = ToSet(free) \cup ToSet(order)
           /\ IsInjective(free) /\ IsInjective(order) /\ ToSet(free) \cap ToSet(order) = {} =>
                IsInjective(FreeLocs(free, list, order))
  <1> DEFINE n == Len(order)
             First(k) == {order[i] : i \in 1..k}
             Fine == IsInjective(free) /\ IsInjective(order) /\ ToSet(free) \cap ToSet(order) = {}
  <1>1. n \in Nat /\ \A k \in 1..n : order[k] \in S
    OBVIOUS
  <1>2. PICK freed :
           /\ FreeLocs(free, list, order) = freed[n]
           /\ freed[0] = free
           /\ \A k \in 1..n : freed[k] = FreeLoc(freed[k - 1], list, order[k])
    BY FreeLocsDefined
  <1> DEFINE T == {k \in 0..n : /\ freed[k] \in Seq(S)
                                /\ ToSet(freed[k]) = ToSet(free) \cup First(k)
                                /\ Fine => IsInjective(freed[k])}
  <1>3. 0 \in T
    <2>1. First(0) = {}
      OBVIOUS
    <2>2. QED
      BY <1>1, <1>2, <2>1
  <1>4. ASSUME NEW k \in 1..n, k - 1 \in T
        PROVE  k \in T
    <2>1. /\ freed[k - 1] \in Seq(S)
          /\ ToSet(freed[k - 1]) = ToSet(free) \cup First(k - 1)
          /\ Fine => IsInjective(freed[k - 1])
      BY <1>4
    <2>2. freed[k] = FreeLoc(freed[k - 1], list, order[k]) /\ order[k] \in S
      BY <1>1, <1>2
    <2>3. /\ freed[k] \in Seq(S)
          /\ ToSet(freed[k]) = ToSet(freed[k - 1]) \cup {order[k]}
          /\ IsInjective(freed[k - 1]) /\ order[k] \notin ToSet(freed[k - 1]) => IsInjective(freed[k])
      <3>1. ASSUME NEW f \in Seq(S), NEW e \in S
            PROVE  /\ FreeLoc(f, list, e) \in Seq(S)
                   /\ ToSet(FreeLoc(f, list, e)) = ToSet(f) \cup {e}
                   /\ IsInjective(f) /\ e \notin ToSet(f) => IsInjective(FreeLoc(f, list, e))
        BY FreeLocFacts
      <3>2. PICK f : f = freed[k - 1]
        OBVIOUS
      <3>3. PICK e : e = order[k]
        OBVIOUS
      <3>4. f \in Seq(S) /\ e \in S /\ freed[k] = FreeLoc(f, list, e)
        BY <2>1, <2>2, <3>2, <3>3
      <3>5. /\ freed[k] \in Seq(S)
            /\ ToSet(freed[k]) = ToSet(f) \cup {e}
            /\ IsInjective(f) /\ e \notin ToSet(f) => IsInjective(freed[k])
        BY <3>1, <3>4
      <3>6. QED
        BY <3>2, <3>3, <3>5
    <2>4. First(k) = First(k - 1) \cup {order[k]}
      OBVIOUS
    <2>5. ASSUME Fine PROVE order[k] \notin ToSet(freed[k - 1])
      <3>1. order[k] \in ToSet(order) /\ DOMAIN order = 1..n
        BY DEF ToSet
      <3>2. order[k] \notin ToSet(free)
        BY <3>1, <2>5
      <3>3. ASSUME NEW i \in 1..(k - 1), order[i] = order[k] PROVE FALSE
        <4>1. i \in DOMAIN order /\ k \in DOMAIN order /\ i # k
          BY <3>1
        <4>2. QED
          BY <4>1, <3>3, <2>5 DEF IsInjective
      <3>4. QED
        BY <3>2, <3>3, <2>1
    <2>6. k \in 0..n
      OBVIOUS
    <2>7. QED
      <3> HIDE DEF First, Fine
      <3>1. QED
        BY <2>1, <2>3, <2>4, <2>5, <2>6
  <1>5. n \in T
    <2> HIDE DEF T
    <2>1. 0..n \subseteq T
      BY <1>1, <1>3, <1>4, UpTo
    <2>2. QED
      BY <2>1, <1>1
  <1>6. First(n) = ToSet(order)
    BY DEF ToSet
  <1>7. QED
    BY <1>2, <1>5, <1>6

-----------------------------------------------------------------------------
(* Zero inputs *)

LEMMA ZeroInputsDefined ==
    ASSUME IsProgram, NEW p \in Steps
    PROVE  \E zeros :
              /\ ZeroInputs(p) = zeros[Len(StepOf(p).outputs)]
              /\ zeros[0] = <<>>
              /\ \A k \in 1..Len(StepOf(p).outputs) :
                    zeros[k] = IF IsCleared(StepOf(p).outputs[k], p)
                               THEN Append(zeros[k - 1], StepOf(p).outputs[k]) ELSE zeros[k - 1]
  <1> DEFINE outs == StepOf(p).outputs
             n == Len(outs)
             D == Seq(Allocs)
             Next(s, k) == IF IsCleared(outs[k], p) THEN Append(s, outs[k]) ELSE s
             Is(f) == f = [k \in 0..n |-> IF k = 0 THEN <<>> ELSE Next(f[k - 1], k)]
             F == [x \in (1..n) \X D |-> Next(x[2], x[1])]
  <1>0. outs \in Seq(Allocs)
    BY ProgramTypes
  <1>1. n \in Nat /\ <<>> \in D /\ \A k \in 1..n : outs[k] \in Allocs
    BY <1>0
  <1> HIDE DEF outs
  <1>2. F \in StepsIn(n, D)
    <2> SUFFICES ASSUME NEW x \in (1..n) \X D PROVE Next(x[2], x[1]) \in D
      BY DEF StepsIn
    <2>1. x[2] \in Seq(Allocs) /\ outs[x[1]] \in Allocs
      BY <1>1
    <2>2. QED
      BY <2>1
  <1> HIDE DEF n, D
  <1>3. PICK f : IsRun(f, n, D, <<>>, F)
    <2> HIDE DEF F
    <2>1. QED
      BY <1>1, <1>2, Repeated
  <1>4. ASSUME NEW k \in 1..n
        PROVE  f[k] = Next(f[k - 1], k)
    <2>1. f[k - 1] \in D
      BY <1>1, <1>3 DEF IsRun
    <2>2. QED
      BY <1>3, <2>1 DEF IsRun
  <1>5. Is(f)
    <2> HIDE DEF Next, F
    <2>1. QED
      BY <1>1, <1>3, <1>4 DEF IsRun
  <1>6. Is(CHOOSE g : Is(g))
    <2> HIDE DEF Is
    <2>1. QED
      BY <1>5
  <1>7. ZeroInputs(p) = (CHOOSE g : Is(g))[n]
    BY DEF ZeroInputs, n, outs
  <1> HIDE DEF Next
  <1>8. ASSUME NEW g, Is(g)
        PROVE  g[0] = <<>> /\ \A k \in 1..n : g[k] = Next(g[k - 1], k)
    BY <1>1, <1>8
  <1>9. QED
    <2> HIDE DEF Is
    <2>1. QED
      BY <1>6, <1>7, <1>8 DEF n, outs, Next

LEMMA ZeroInputsFacts ==
    ASSUME IsProgram, NEW p \in Steps
    PROVE  /\ ZeroInputs(p) \in Seq(Allocs)
           /\ IsInjective(ZeroInputs(p))
           /\ ToSet(ZeroInputs(p)) = {a \in Outputs(p) : IsCleared(a, p)}
  <1> DEFINE outs == StepOf(p).outputs
             n == Len(outs)
             Cleared(k) == {a \in {outs[i] : i \in 1..k} : IsCleared(a, p)}
  <1>0. outs \in Seq(Allocs) /\ IsInjective(outs)
    BY ProgramTypes
  <1>1. n \in Nat /\ \A k \in 1..n : outs[k] \in Allocs
    BY <1>0
  <1>2. PICK zeros :
           /\ ZeroInputs(p) = zeros[n]
           /\ zeros[0] = <<>>
           /\ \A k \in 1..n : zeros[k] = IF IsCleared(outs[k], p) THEN Append(zeros[k - 1], outs[k]) ELSE zeros[k - 1]
    BY ZeroInputsDefined
  <1> DEFINE T == {k \in 0..n : /\ zeros[k] \in Seq(Allocs)
                                /\ ToSet(zeros[k]) = Cleared(k)
                                /\ IsInjective(zeros[k])}
  <1>3. 0 \in T
    <2>1. Cleared(0) = {}
      OBVIOUS
    <2>2. ToSet(<<>>) = {} /\ IsInjective(<<>>) /\ <<>> \in Seq(Allocs)
      BY DEF ToSet, IsInjective
    <2>3. 0 \in 0..n
      BY <1>1
    <2>4. QED
      <3> HIDE DEF Cleared
      <3>1. QED
        BY <1>2, <2>1, <2>2, <2>3
  <1>4. ASSUME NEW k \in 1..n, k - 1 \in T
        PROVE  k \in T
    <2>1. PICK s \in Seq(Allocs) : s = zeros[k - 1] /\ ToSet(s) = Cleared(k - 1) /\ IsInjective(s)
      BY <1>4
    <2>2. PICK e \in Allocs : e = outs[k]
      BY <1>1
    <2>3. zeros[k] = IF IsCleared(e, p) THEN Append(s, e) ELSE s
      BY <1>2, <2>1, <2>2
    <2>4. Cleared(k) = IF IsCleared(e, p) THEN Cleared(k - 1) \cup {e} ELSE Cleared(k - 1)
      BY <2>2
    <2>5. e \notin Cleared(k - 1)
      <3>1. ASSUME NEW i \in 1..(k - 1), outs[i] = outs[k] PROVE FALSE
        <4>1. i \in DOMAIN outs /\ k \in DOMAIN outs /\ i # k
          BY <1>0, <1>1
        <4>2. QED
          BY <4>1, <3>1, <1>0 DEF IsInjective
      <3>2. QED
        BY <3>1, <2>2
    <2>6. k \in 0..n
      OBVIOUS
    <2> HIDE DEF Cleared
    <2>7. CASE IsCleared(e, p)
      <3>1. zeros[k] = Append(s, e) /\ Cleared(k) = Cleared(k - 1) \cup {e}
        BY <2>3, <2>4, <2>7
      <3>2. ToSet(Append(s, e)) = ToSet(s) \cup {e} /\ IsInjective(Append(s, e)) /\ Append(s, e) \in Seq(Allocs)
        BY <2>1, <2>5, AppendedSet
      <3>3. QED
        BY <3>1, <3>2, <2>1, <2>6
    <2>8. CASE ~IsCleared(e, p)
      BY <2>1, <2>3, <2>4, <2>6, <2>8
    <2>9. QED
      BY <2>7, <2>8
  <1>5. n \in T
    <2> HIDE DEF T
    <2>1. 0..n \subseteq T
      BY <1>1, <1>3, <1>4, UpTo
    <2>2. QED
      BY <2>1, <1>1
  <1>6. Cleared(n) = {a \in Outputs(p) : IsCleared(a, p)}
    <2>1. {outs[i] : i \in 1..n} = Outputs(p)
      BY <1>0 DEF Outputs, ToSet
    <2>2. QED
      BY <2>1
  <1>7. QED
    BY <1>2, <1>5, <1>6

-----------------------------------------------------------------------------
(* Total sizes *)

Sized(list) == \A l \in DOMAIN list : list[l].byte_size \in Nat

IsTotal(total, list) ==
    /\ total \in [0..Len(list) -> Nat]
    /\ TotalSize(list) = total[Len(list)]
    /\ total[0] = 0
    /\ \A l \in 1..Len(list) : total[l] = total[l - 1] + list[l].byte_size

LEMMA TotalSizeDefined ==
    ASSUME NEW L, NEW list \in Seq(L), Sized(list)
    PROVE  \E total : IsTotal(total, list)
  <1> DEFINE n == Len(list)
             D == Nat
             Next(t, l) == t + list[l].byte_size
             Is(f) == f = [l \in 0..n |-> IF l = 0 THEN 0 ELSE Next(f[l - 1], l)]
             F == [x \in (1..n) \X D |-> Next(x[2], x[1])]
  <1>1. n \in Nat /\ 0 \in D /\ \A l \in 1..n : list[l].byte_size \in Nat
    BY DEF Sized
  <1>2. F \in StepsIn(n, D)
    <2> SUFFICES ASSUME NEW x \in (1..n) \X D PROVE Next(x[2], x[1]) \in D
      BY DEF StepsIn
    <2>1. x[2] \in Nat /\ list[x[1]].byte_size \in Nat
      BY <1>1
    <2>2. QED
      BY <2>1
  <1> HIDE DEF n, D
  <1>3. PICK f : IsRun(f, n, D, 0, F)
    <2> HIDE DEF F
    <2>1. QED
      BY <1>1, <1>2, Repeated
  <1>4. ASSUME NEW k \in 1..n
        PROVE  f[k] = Next(f[k - 1], k)
    <2>1. f[k - 1] \in D
      BY <1>1, <1>3 DEF IsRun
    <2>2. QED
      BY <1>3, <2>1 DEF IsRun
  <1>5. Is(f)
    <2> HIDE DEF Next, F
    <2>1. QED
      BY <1>1, <1>3, <1>4 DEF IsRun
  <1>6. TotalSize(list) = (CHOOSE g : Is(g))[n]
    BY DEF TotalSize, n
  <1> HIDE DEF Next
  <1>7. Is(CHOOSE g : Is(g))
    <2> HIDE DEF Is
    <2>1. QED
      BY <1>5
  <1>8. ASSUME NEW g, Is(g)
        PROVE  /\ g[0] = 0 /\ \A k \in 1..n : g[k] = Next(g[k - 1], k)
               /\ g = [l \in 0..n |-> g[l]]
    <2>1. g[0] = 0 /\ \A k \in 1..n : g[k] = Next(g[k - 1], k)
      BY <1>1, <1>8
    <2>2. g = [l \in 0..n |-> g[l]]
      BY <1>8
    <2>3. QED
      BY <2>1, <2>2
  <1>9. PICK g : Is(g) /\ TotalSize(list) = g[n]
    <2> HIDE DEF Is
    <2>1. QED
      BY <1>6, <1>7
  <1>10. g[0] = 0 /\ (\A k \in 1..n : g[k] = Next(g[k - 1], k)) /\ g = [l \in 0..n |-> g[l]]
    <2> HIDE DEF Is
    <2>1. QED
      BY <1>8, <1>9
  <1> DEFINE T == {k \in 0..n : g[k] \in Nat}
  <1>11. 0 \in T
    BY <1>1, <1>10
  <1>12. ASSUME NEW k \in 1..n, k - 1 \in T PROVE k \in T
    <2>1. k \in 0..n /\ g[k - 1] \in Nat /\ list[k].byte_size \in Nat
      BY <1>1, <1>12
    <2>2. g[k] = g[k - 1] + list[k].byte_size
      BY <1>10 DEF Next
    <2>3. QED
      BY <2>1, <2>2
  <1>13. 0..n \subseteq T
    <2> HIDE DEF T
    <2>1. QED
      BY <1>1, <1>11, <1>12, UpTo
  <1>14. g \in [0..n -> Nat]
    BY <1>10, <1>13
  <1>15. IsTotal(g, list)
    BY <1>9, <1>10, <1>14 DEF n, Next, IsTotal
  <1>16. QED
    BY <1>15

LEMMA TotalSizeNat ==
    ASSUME NEW L, NEW list \in Seq(L), Sized(list)
    PROVE  TotalSize(list) \in Nat
  <1>1. PICK f : IsTotal(f, list)
    BY TotalSizeDefined
  <1>2. QED
    BY <1>1 DEF IsTotal

\* The terms of a sum in another order.
LEMMA SumsReordered ==
    ASSUME NEW a \in Nat, NEW b \in Nat, NEW c \in Nat, NEW d \in Nat
    PROVE  (a + b - c) + d = (a + d) + b - c
  OBVIOUS

\* Two lists of the same length whose sizes differ in at most one place.
LEMMA TotalSizeChanged ==
    ASSUME NEW L, NEW s \in Seq(L), NEW t \in Seq(L), Sized(s), Sized(t), Len(s) = Len(t),
           NEW i \in 1..Len(s), \A l \in 1..Len(s) : l # i => t[l].byte_size = s[l].byte_size
    PROVE  TotalSize(t) = TotalSize(s) + t[i].byte_size - s[i].byte_size
  <1> DEFINE n == Len(s)
  <1>1. n \in Nat /\ Len(t) = n /\ i \in 1..n
    OBVIOUS
  <1>2. PICK f : IsTotal(f, s)
    BY TotalSizeDefined
  <1>3. PICK g : IsTotal(g, t)
    BY TotalSizeDefined, <1>1
  <1>4. \A l \in 1..n : s[l].byte_size \in Nat /\ t[l].byte_size \in Nat
    BY <1>1 DEF Sized
  <1> DEFINE T == {k \in 0..n : g[k] = IF k < i THEN f[k] ELSE f[k] + t[i].byte_size - s[i].byte_size}
  <1>5. 0 \in T
    BY <1>1, <1>2, <1>3 DEF IsTotal
  <1>6. ASSUME NEW k \in 1..n, k - 1 \in T PROVE k \in T
    <2>a. f[k] = f[k - 1] + s[k].byte_size
      BY <1>1, <1>2 DEF IsTotal
    <2>b. g[k] = g[k - 1] + t[k].byte_size
      BY <1>1, <1>3 DEF IsTotal
    <2>0. /\ f[k] = f[k - 1] + s[k].byte_size /\ g[k] = g[k - 1] + t[k].byte_size
          /\ k - 1 \in 0..n
      BY <1>1, <2>a, <2>b
    <2>1. /\ f[k] = f[k - 1] + s[k].byte_size /\ g[k] = g[k - 1] + t[k].byte_size
          /\ f[k - 1] \in Nat /\ g[k - 1] \in Nat /\ s[k].byte_size \in Nat /\ t[k].byte_size \in Nat
          /\ s[i].byte_size \in Nat /\ t[i].byte_size \in Nat
      BY <2>0, <1>1, <1>2, <1>3, <1>4 DEF IsTotal
    <2>2. k # i => t[k].byte_size = s[k].byte_size
      OBVIOUS
    <2>3. g[k - 1] = IF k - 1 < i THEN f[k - 1] ELSE f[k - 1] + t[i].byte_size - s[i].byte_size
      BY <1>6
    <2>4. k \in 0..n /\ k \in Int /\ i \in Int
      BY <1>1
    <2>5. CASE k < i
      BY <2>1, <2>2, <2>3, <2>4, <2>5
    <2>6. CASE k = i
      BY <2>1, <2>3, <2>4, <2>6
    <2>7. CASE k > i
      <3>1. ~(k - 1 < i) /\ ~(k < i) /\ k # i
        BY <2>4, <2>7
      <3>2. g[k - 1] = f[k - 1] + t[i].byte_size - s[i].byte_size /\ t[k].byte_size = s[k].byte_size
        BY <2>2, <2>3, <3>1
      <3>3. g[k] = (f[k - 1] + t[i].byte_size - s[i].byte_size) + s[k].byte_size
        <4>1. g[k] = g[k - 1] + t[k].byte_size
          BY <2>1
        <4>2. QED
          BY <3>2, <4>1
      <3>4. g[k] = (f[k - 1] + s[k].byte_size) + t[i].byte_size - s[i].byte_size
        <4>1. PICK a, b, c, d : a = f[k - 1] /\ b = t[i].byte_size /\ c = s[i].byte_size /\ d = s[k].byte_size
          OBVIOUS
        <4>2. a \in Nat /\ b \in Nat /\ c \in Nat /\ d \in Nat
          BY <2>1, <4>1
        <4>3. (a + b - c) + d = (a + d) + b - c
          BY <4>2, SumsReordered
        <4>4. QED
          BY <3>3, <4>1, <4>3
      <3>5. g[k] = f[k] + t[i].byte_size - s[i].byte_size
        BY <2>0, <3>4
      <3>6. QED
        BY <2>4, <3>1, <3>5
    <2>8. QED
      BY <2>4, <2>5, <2>6, <2>7
  <1>7. n \in T
    <2> HIDE DEF T
    <2>1. 0..n \subseteq T
      BY <1>1, <1>5, <1>6, UpTo
    <2>2. QED
      BY <2>1, <1>1
  <1>8. QED
    BY <1>1, <1>2, <1>3, <1>7 DEF IsTotal

LEMMA TotalSizeSame ==
    ASSUME NEW L, NEW s \in Seq(L), NEW M, NEW t \in Seq(M), Sized(s), Sized(t), Len(s) = Len(t),
           \A l \in 1..Len(s) : t[l].byte_size = s[l].byte_size
    PROVE  TotalSize(t) = TotalSize(s)
  <1> DEFINE n == Len(s)
  <1>1. n \in Nat /\ Len(t) = n
    OBVIOUS
  <1>2. PICK f : IsTotal(f, s)
    BY TotalSizeDefined
  <1>3. PICK g : IsTotal(g, t)
    BY TotalSizeDefined, <1>1
  <1> DEFINE T == {k \in 0..n : g[k] = f[k]}
  <1>4. 0 \in T
    BY <1>1, <1>2, <1>3 DEF IsTotal
  <1>5. ASSUME NEW k \in 1..n, k - 1 \in T PROVE k \in T
    <2>1. f[k] = f[k - 1] + s[k].byte_size /\ g[k] = g[k - 1] + t[k].byte_size
      BY <1>1, <1>2, <1>3 DEF IsTotal
    <2>2. k \in 0..n /\ g[k - 1] = f[k - 1]
      BY <1>1, <1>5
    <2>3. QED
      BY <2>1, <2>2, <1>5
  <1>6. n \in T
    <2> HIDE DEF T
    <2>1. 0..n \subseteq T
      BY <1>1, <1>4, <1>5, UpTo
    <2>2. QED
      BY <2>1, <1>1
  <1>7. QED
    BY <1>1, <1>2, <1>3, <1>6 DEF IsTotal

LEMMA TotalSizeAppended ==
    ASSUME NEW L, NEW s \in Seq(L), NEW e \in L, Sized(s), e.byte_size \in Nat
    PROVE  TotalSize(Append(s, e)) = TotalSize(s) + e.byte_size
  <1> DEFINE n == Len(s)
             t == Append(s, e)
  <1>1. /\ n \in Nat /\ t \in Seq(L) /\ Len(t) = n + 1
        /\ t[n + 1] = e /\ \A l \in 1..n : t[l] = s[l]
    OBVIOUS
  <1> HIDE DEF t
  <1>2. PICK f : IsTotal(f, s)
    BY TotalSizeDefined
  <1>3. Sized(t)
    <2> SUFFICES ASSUME NEW l \in 1..(n + 1) PROVE t[l].byte_size \in Nat
      BY <1>1 DEF Sized
    <2>1. CASE l = n + 1
      BY <1>1, <2>1
    <2>2. CASE l # n + 1
      <3>1. l \in 1..n
        BY <1>1, <2>2
      <3>2. QED
        BY <3>1, <1>1 DEF Sized
    <2>3. QED
      BY <2>1, <2>2
  <1>4. PICK g : IsTotal(g, t)
    BY TotalSizeDefined, <1>1, <1>3
  <1> DEFINE T == {k \in 0..n : g[k] = f[k]}
  <1>5. 0 \in T
    BY <1>1, <1>2, <1>4 DEF IsTotal
  <1>6. ASSUME NEW k \in 1..n, k - 1 \in T PROVE k \in T
    <2>1. k \in 1..(n + 1)
      BY <1>1
    <2>2. f[k] = f[k - 1] + s[k].byte_size /\ g[k] = g[k - 1] + t[k].byte_size /\ t[k] = s[k] /\ k \in 0..n
      BY <1>1, <1>2, <1>4, <2>1 DEF IsTotal
    <2>3. QED
      BY <2>2, <1>6
  <1>7. n \in T
    <2> HIDE DEF T
    <2>1. 0..n \subseteq T
      BY <1>1, <1>5, <1>6, UpTo
    <2>2. QED
      BY <2>1, <1>1
  <1>8. g[n + 1] = g[(n + 1) - 1] + t[n + 1].byte_size /\ (n + 1) - 1 = n
    BY <1>1, <1>4 DEF IsTotal
  <1>9. QED
    BY <1>1, <1>2, <1>4, <1>7, <1>8 DEF t, IsTotal

-----------------------------------------------------------------------------
(* Plans *)

LEMMA AlignUpFacts ==
    ASSUME NEW s \in Nat
    PROVE  AlignUp(s) \in Nat /\ AlignUp(s) >= s
  <1>1. Alignment \in Nat /\ Alignment > 0
    BY FifoAssumption
  <1> DEFINE q == (s + Alignment - 1) \div Alignment
             r == (s + Alignment - 1) % Alignment
  <1>2. /\ q \in Nat /\ r \in 0..(Alignment - 1)
        /\ s + Alignment - 1 = Alignment * q + r
    BY <1>1
  <1> HIDE DEF q, r
  <1>3. q * Alignment = Alignment * q /\ Alignment * q \in Nat
    BY <1>1, <1>2
  <1>4. AlignUp(s) = q * Alignment
    BY DEF AlignUp, q
  <1>5. QED
    BY <1>1, <1>2, <1>3, <1>4

\* A loc; what C holds are times at which something was in the cache.
LocOf(C) == [byte_size : Nat, is_io : BOOLEAN, contents : Allocs \cup {NoAlloc}, input : Allocs \cup {NoAlloc}, cache : C]

\* ValuesFit for one loc; what holds an input has been marked as such.
LocFits(loc) ==
    /\ loc.contents # NoAlloc =>
          IF IsTmp(loc.contents) THEN loc.byte_size >= Size(loc.contents) ELSE loc.byte_size = Size(loc.contents)
    /\ loc.input # NoAlloc => loc.is_io /\ loc.byte_size = Size(loc.input)

\* The invariant of the memory.
Memory(C) ==
    /\ 0 \in C /\ locs \in Seq(LocOf(C))
    /\ \A l \in DOMAIN locs : LocFits(locs[l])
    /\ free_locs \in Seq(DOMAIN locs) /\ IsInjective(free_locs)
    /\ DOMAIN value_locs \subseteq Allocs
    /\ \A a \in DOMAIN value_locs :
          value_locs[a] \in DOMAIN locs /\ value_locs[a] \notin ToSet(free_locs) /\ locs[value_locs[a]].contents = a

\* A plan leaves alone what is in use and what is still free, and accounts for what it adds.
Plans(C) ==
    {plan \in [outputs : Seq(Nat), locs : Seq(LocOf(C)), free : Seq(DOMAIN locs), mem_needed : Nat] :
        /\ Len(plan.locs) >= Len(locs)
        /\ IsInjective(plan.free) /\ ToSet(plan.free) \subseteq ToSet(free_locs)
        /\ \A l \in DOMAIN locs : l \in ToSet(plan.free) \/ l \notin ToSet(free_locs) => plan.locs[l] = locs[l]
        /\ \A l \in DOMAIN plan.locs : LocFits(plan.locs[l])
        /\ TotalSize(plan.locs) = TotalSize(locs) + plan.mem_needed}

\* Locs that go on from others: none is lost or shrinks, what an input was in stays its loc.
Grown(old, new) ==
    /\ \A l \in DOMAIN old :
          /\ l \in DOMAIN new
          /\ new[l].input = old[l].input /\ new[l].byte_size >= old[l].byte_size
          /\ old[l].contents # NoAlloc => new[l].contents # NoAlloc
    /\ \A l \in DOMAIN new : l \notin DOMAIN old => new[l].input = NoAlloc

LEMMA GrownFrom ==
    ASSUME NEW C, NEW old \in Seq(LocOf(C)), NEW D, NEW list \in Seq(LocOf(D)), NEW E, NEW new \in Seq(LocOf(E)),
           Grown(old, list), Grown(list, new)
    PROVE  Grown(old, new)
  <1>1. ASSUME NEW l \in DOMAIN old
        PROVE  /\ l \in DOMAIN new
               /\ new[l].input = old[l].input /\ new[l].byte_size >= old[l].byte_size
               /\ old[l].contents # NoAlloc => new[l].contents # NoAlloc
    <2>1. /\ l \in DOMAIN list
          /\ list[l].input = old[l].input /\ list[l].byte_size >= old[l].byte_size
          /\ old[l].contents # NoAlloc => list[l].contents # NoAlloc
      BY DEF Grown
    <2>2. /\ l \in DOMAIN new
          /\ new[l].input = list[l].input /\ new[l].byte_size >= list[l].byte_size
          /\ list[l].contents # NoAlloc => new[l].contents # NoAlloc
      BY <2>1 DEF Grown
    <2>3. old[l] \in LocOf(C) /\ list[l] \in LocOf(D) /\ new[l] \in LocOf(E)
      BY <2>1, <2>2
    <2>4. old[l].byte_size \in Nat /\ list[l].byte_size \in Nat /\ new[l].byte_size \in Nat
      BY <2>3 DEF LocOf
    <2>5. new[l].byte_size >= old[l].byte_size
      BY <2>1, <2>2, <2>4
    <2>6. QED
      BY <2>1, <2>2, <2>5
  <1>2. ASSUME NEW l \in DOMAIN new, l \notin DOMAIN old
        PROVE  new[l].input = NoAlloc
    BY <1>2 DEF Grown
  <1>3. QED
    BY <1>1, <1>2 DEF Grown

LEMMA GrownSame ==
    ASSUME NEW C, NEW list \in Seq(LocOf(C))
    PROVE  Grown(list, list)
  <1>1. \A l \in DOMAIN list : list[l] \in LocOf(C)
    OBVIOUS
  <1>2. \A l \in DOMAIN list : list[l].byte_size \in Nat
    BY <1>1 DEF LocOf
  <1>3. \A l \in DOMAIN list : list[l].byte_size >= list[l].byte_size
    BY <1>2
  <1>4. QED
    BY <1>3 DEF Grown

\* The output a has been given the loc l.
PlacedAt(old, new, a, l) ==
    /\ Grown(old.locs, new.locs)
    /\ new.outputs = Append(old.outputs, l)
    /\ l \in DOMAIN new.locs /\ l \notin ToSet(new.free) /\ new.locs[l].contents = a
    /\ ToSet(new.free) \subseteq ToSet(old.free)
    /\ Len(new.locs) >= Len(old.locs)
    /\ \A m \in DOMAIN old.locs : m \notin ToSet(old.free) => new.locs[m] = old.locs[m]

LEMMA LocsSized ==
    ASSUME NEW C, NEW list \in Seq(LocOf(C))
    PROVE  Sized(list)
  <1> SUFFICES ASSUME NEW l \in DOMAIN list PROVE list[l].byte_size \in Nat
    BY DEF Sized
  <1>1. list[l] \in LocOf(C)
    OBVIOUS
  <1>2. QED
    BY <1>1 DEF LocOf

LEMMA PlanOutputInUse ==
    ASSUME IsProgram, NEW C, Memory(C), NEW plan \in Plans(C), NEW a \in DOMAIN value_locs
    PROVE  /\ PlanOutput(plan, a) \in Plans(C)
           /\ PlacedAt(plan, PlanOutput(plan, a), a, value_locs[a])
  <1> DEFINE new == PlanOutput(plan, a)
             l == value_locs[a]
  <1>1. new = [plan EXCEPT !.outputs = Append(@, l)]
    BY DEF PlanOutput
  <1>2. /\ plan \in [outputs : Seq(Nat), locs : Seq(LocOf(C)), free : Seq(DOMAIN locs), mem_needed : Nat]
        /\ Len(plan.locs) >= Len(locs)
        /\ IsInjective(plan.free) /\ ToSet(plan.free) \subseteq ToSet(free_locs)
        /\ \A m \in DOMAIN locs : m \in ToSet(plan.free) \/ m \notin ToSet(free_locs) => plan.locs[m] = locs[m]
        /\ \A m \in DOMAIN plan.locs : LocFits(plan.locs[m])
        /\ TotalSize(plan.locs) = TotalSize(locs) + plan.mem_needed
    BY DEF Plans
  <1>3. l \in DOMAIN locs /\ l \notin ToSet(free_locs) /\ locs[l].contents = a
    BY DEF Memory
  <1>4. locs \in Seq(LocOf(C))
    BY DEF Memory
  <1> HIDE DEF new, l
  <1>5. l \in Nat /\ l \in DOMAIN plan.locs
    BY <1>2, <1>3, <1>4
  <1>6. /\ new.outputs = Append(plan.outputs, l) /\ new.locs = plan.locs /\ new.free = plan.free
        /\ new.mem_needed = plan.mem_needed
        /\ new \in [outputs : Seq(Nat), locs : Seq(LocOf(C)), free : Seq(DOMAIN locs), mem_needed : Nat]
    <2>1. plan \in [outputs : Seq(Nat), locs : Seq(LocOf(C)), free : Seq(DOMAIN locs), mem_needed : Nat]
      BY <1>2
    <2>2. plan.outputs \in Seq(Nat)
      BY <2>1
    <2>3. PICK o : o = Append(plan.outputs, l)
      OBVIOUS
    <2>6. o \in Seq(Nat)
      BY <1>5, <2>2, <2>3
    <2>4. new = [plan EXCEPT !.outputs = o]
      BY <1>1, <2>3
    <2>5. QED
      BY <2>1, <2>3, <2>4, <2>6
  <1>7. new \in Plans(C)
    BY <1>2, <1>6 DEF Plans
  <1>8. plan.locs[l].contents = a /\ l \notin ToSet(plan.free)
    BY <1>2, <1>3
  <1>9. PlacedAt(plan, new, a, l)
    <2>1. Grown(plan.locs, new.locs)
      BY <1>2, <1>6, GrownSame
    <2>2. QED
      BY <1>2, <1>5, <1>6, <1>8, <2>1 DEF PlacedAt
  <1>10. QED
    BY <1>7, <1>9 DEF new, l

LEMMA PlanOutputNew ==
    ASSUME IsProgram, NEW C, Memory(C), NEW plan \in Plans(C), NEW a \in Allocs, NEW want \in Nat,
           IF IsTmp(a) THEN want >= Size(a) ELSE want = Size(a)
    PROVE  LET new == [outputs |-> Append(plan.outputs, Len(plan.locs) + 1),
                       locs |-> Append(plan.locs, [NewLoc(want, FALSE) EXCEPT !.contents = a]),
                       free |-> plan.free,
                       mem_needed |-> plan.mem_needed + want]
           IN new \in Plans(C) /\ PlacedAt(plan, new, a, Len(plan.locs) + 1)
  <1> DEFINE n == Len(plan.locs)
             loc == [NewLoc(want, FALSE) EXCEPT !.contents = a]
             new == [outputs |-> Append(plan.outputs, n + 1), locs |-> Append(plan.locs, loc),
                     free |-> plan.free, mem_needed |-> plan.mem_needed + want]
  <1>1. /\ plan.outputs \in Seq(Nat) /\ plan.locs \in Seq(LocOf(C)) /\ plan.free \in Seq(DOMAIN locs)
        /\ plan.mem_needed \in Nat
        /\ Len(plan.locs) >= Len(locs)
        /\ IsInjective(plan.free) /\ ToSet(plan.free) \subseteq ToSet(free_locs)
        /\ \A m \in DOMAIN locs : m \in ToSet(plan.free) \/ m \notin ToSet(free_locs) => plan.locs[m] = locs[m]
        /\ \A m \in DOMAIN plan.locs : LocFits(plan.locs[m])
        /\ TotalSize(plan.locs) = TotalSize(locs) + plan.mem_needed
    BY DEF Plans
  <1>2. locs \in Seq(LocOf(C)) /\ 0 \in C /\ NoAlloc \notin Allocs
    BY DEF Memory, IsProgram
  <1>3. loc \in LocOf(C) /\ loc.contents = a /\ loc.input = NoAlloc /\ loc.byte_size = want
    BY <1>2 DEF NewLoc, LocOf
  <1>4. LocFits(loc)
    BY <1>3 DEF LocFits
  <1> HIDE DEF loc
  <1> DEFINE list == Append(plan.locs, loc)
             outputs == Append(plan.outputs, n + 1)
  <1>5. /\ n \in Nat /\ list \in Seq(LocOf(C)) /\ Len(list) = n + 1 /\ DOMAIN list = 1..(n + 1)
        /\ list[n + 1] = loc /\ \A m \in 1..n : list[m] = plan.locs[m]
    BY <1>1, <1>3
  <1>6. outputs \in Seq(Nat)
    BY <1>1, <1>5
  <1>7. TotalSize(list) = TotalSize(plan.locs) + want
    BY <1>1, <1>3, LocsSized, TotalSizeAppended
  <1>8. TotalSize(plan.locs) \in Nat /\ TotalSize(locs) \in Nat
    BY <1>1, <1>2, LocsSized, TotalSizeNat
  <1>9. DOMAIN plan.locs = 1..n /\ DOMAIN locs = 1..Len(locs) /\ Len(locs) \in Nat
    BY <1>1, <1>2
  <1> HIDE DEF list, outputs
  <1>10. /\ new.outputs = outputs /\ new.locs = list /\ new.free = plan.free
         /\ new.mem_needed = plan.mem_needed + want
         /\ new \in [outputs : Seq(Nat), locs : Seq(LocOf(C)), free : Seq(DOMAIN locs), mem_needed : Nat]
    BY <1>1, <1>5, <1>6 DEF list, outputs
  <1> HIDE DEF new, n
  <1>11. \A m \in DOMAIN list : LocFits(list[m])
    <2> SUFFICES ASSUME NEW m \in 1..(n + 1) PROVE LocFits(list[m])
      BY <1>5
    <2>1. CASE m = n + 1
      BY <1>4, <1>5, <2>1
    <2>2. CASE m # n + 1
      <3>1. m \in 1..n
        BY <1>5, <2>2
      <3>2. QED
        BY <3>1, <1>1, <1>5, <1>9
    <2>3. QED
      BY <2>1, <2>2
  <1>12. \A m \in DOMAIN locs : m \in ToSet(plan.free) \/ m \notin ToSet(free_locs) => list[m] = locs[m]
    <2> SUFFICES ASSUME NEW m \in DOMAIN locs, m \in ToSet(plan.free) \/ m \notin ToSet(free_locs)
                 PROVE  list[m] = locs[m]
      OBVIOUS
    <2>1. m \in 1..n
      BY <1>1, <1>5, <1>9 DEF n
    <2>2. plan.locs[m] = locs[m]
      BY <1>1
    <2>3. QED
      BY <2>1, <2>2, <1>5
  <1>13. TotalSize(list) = TotalSize(locs) + (plan.mem_needed + want)
    BY <1>1, <1>7, <1>8
  <1>14. Len(list) >= Len(locs)
    BY <1>1, <1>5, <1>9 DEF n
  <1>15. new \in Plans(C)
    BY <1>1, <1>10, <1>11, <1>12, <1>13, <1>14 DEF Plans
  <1>16. n + 1 \notin ToSet(plan.free)
    <2> SUFFICES ASSUME NEW i \in DOMAIN plan.free, plan.free[i] = n + 1 PROVE FALSE
      BY DEF ToSet
    <2>1. plan.free[i] \in DOMAIN locs
      BY <1>1
    <2>2. QED
      BY <2>1, <1>1, <1>5, <1>9 DEF n
  <1>17. PlacedAt(plan, new, a, n + 1)
    <2>1. Len(new.locs) >= Len(plan.locs)
      BY <1>5, <1>10 DEF n
    <2>2. \A m \in DOMAIN plan.locs : m \notin ToSet(plan.free) => new.locs[m] = plan.locs[m]
      BY <1>5, <1>9, <1>10
    <2>3. n + 1 \in DOMAIN new.locs /\ new.locs[n + 1].contents = a
      BY <1>3, <1>5, <1>10
    <2>4. new.outputs = Append(plan.outputs, n + 1)
      BY <1>10 DEF outputs
    <2>5. Grown(plan.locs, list)
      <3>1. Grown(plan.locs, plan.locs)
        BY <1>1, GrownSame
      <3>2. ASSUME NEW m \in DOMAIN plan.locs
            PROVE  m \in DOMAIN list /\ list[m] = plan.locs[m]
        BY <1>5, <1>9
      <3>3. ASSUME NEW m \in DOMAIN list, m \notin DOMAIN plan.locs
            PROVE  list[m].input = NoAlloc
        BY <1>3, <1>5, <1>9, <3>3
      <3>4. QED
        BY <3>1, <3>2, <3>3 DEF Grown
    <2>6. QED
      BY <2>1, <2>2, <2>3, <2>4, <2>5, <1>10, <1>16 DEF PlacedAt
  <1>18. QED
    BY <1>15, <1>17 DEF new, n, loc

\* want bytes are there already, or the loc grows.
LEMMA PlanOutputFree ==
    ASSUME IsProgram, NEW C, Memory(C), NEW plan \in Plans(C), NEW a \in Allocs, NEW want \in Nat,
           IF IsTmp(a) THEN want >= Size(a) ELSE want = Size(a),
           NEW i \in DOMAIN plan.free, NEW l, l = plan.free[i], NEW fits \in BOOLEAN,
           IF fits THEN Fits(a, plan.locs[l].byte_size, want)
           ELSE plan.locs[l].byte_size < want /\ ~plan.locs[l].is_io
    PROVE  LET new == [outputs |-> Append(plan.outputs, l),
                       locs |-> [plan.locs EXCEPT ![l].contents = a,
                                                  ![l].is_io = @ \/ ~IsTmp(a),
                                                  ![l].byte_size = IF fits THEN @ ELSE want],
                       free |-> UseFree(plan.free, i),
                       mem_needed |-> plan.mem_needed + (IF fits THEN 0 ELSE want - plan.locs[l].byte_size)]
           IN new \in Plans(C) /\ PlacedAt(plan, new, a, l)
  <1> DEFINE list == [plan.locs EXCEPT ![l].contents = a,
                                       ![l].is_io = @ \/ ~IsTmp(a),
                                       ![l].byte_size = IF fits THEN @ ELSE want]
             outputs == Append(plan.outputs, l)
             free == RemoveAt(plan.free, i)
             grown == IF fits THEN 0 ELSE want - plan.locs[l].byte_size
             new == [outputs |-> outputs, locs |-> list, free |-> UseFree(plan.free, i),
                     mem_needed |-> plan.mem_needed + grown]
  <1>1. /\ plan.outputs \in Seq(Nat) /\ plan.locs \in Seq(LocOf(C)) /\ plan.free \in Seq(DOMAIN locs)
        /\ plan.mem_needed \in Nat
        /\ Len(plan.locs) >= Len(locs)
        /\ IsInjective(plan.free) /\ ToSet(plan.free) \subseteq ToSet(free_locs)
        /\ \A m \in DOMAIN locs : m \in ToSet(plan.free) \/ m \notin ToSet(free_locs) => plan.locs[m] = locs[m]
        /\ \A m \in DOMAIN plan.locs : LocFits(plan.locs[m])
        /\ TotalSize(plan.locs) = TotalSize(locs) + plan.mem_needed
    BY DEF Plans
  <1>2. locs \in Seq(LocOf(C)) /\ NoAlloc \notin Allocs
    BY DEF Memory, IsProgram
  <1>3. i \in 1..Len(plan.free) /\ l \in DOMAIN locs /\ l \in ToSet(plan.free)
    BY <1>1 DEF ToSet
  <1>4. l \in DOMAIN plan.locs /\ l \in Nat
    <2>1. /\ DOMAIN locs = 1..Len(locs) /\ DOMAIN plan.locs = 1..Len(plan.locs)
          /\ Len(locs) \in Nat /\ Len(plan.locs) \in Nat
      BY <1>1, <1>2
    <2>2. Len(plan.locs) >= Len(locs) /\ l \in DOMAIN locs
      BY <1>1, <1>3
    <2>3. QED
      BY <2>1, <2>2
  <1>5. PICK loc : loc = plan.locs[l]
    OBVIOUS
  <1>6. loc \in LocOf(C) /\ LocFits(loc)
    BY <1>1, <1>4, <1>5
  <1>7. PICK size : size = IF fits THEN loc.byte_size ELSE want
    OBVIOUS
  <1> DEFINE next == [byte_size |-> size, is_io |-> loc.is_io \/ ~IsTmp(a), contents |-> a,
                      input |-> loc.input, cache |-> loc.cache]
  <1>8. loc.byte_size \in Nat /\ size \in Nat
    BY <1>6, <1>7 DEF LocOf
  <1>9. next \in LocOf(C)
    BY <1>6, <1>8 DEF LocOf
  <1>10. LocFits(next)
    <2>1. IF fits THEN Fits(a, loc.byte_size, want) ELSE loc.byte_size < want /\ ~loc.is_io
      BY <1>5
    <2>2. Size(a) \in Nat
      BY ProgramTypes
    <2>3. IF IsTmp(a) THEN size >= Size(a) ELSE size = Size(a)
      <3>1. CASE fits
        <4>1. size = loc.byte_size /\ Fits(a, size, want)
          BY <2>1, <1>7, <3>1
        <4>2. QED
          BY <4>1, <2>2, <1>8 DEF Fits
      <3>2. CASE ~fits
        BY <1>7, <3>2
      <3>3. QED
        BY <3>1, <3>2
    <2>4. loc.input # NoAlloc => fits /\ loc.is_io /\ loc.byte_size = Size(loc.input)
      BY <2>1, <1>6 DEF LocFits
    <2>5. QED
      BY <2>3, <2>4, <1>7 DEF LocFits
  <1>11. /\ list[l] = next
         /\ list \in Seq(LocOf(C)) /\ Len(list) = Len(plan.locs) /\ DOMAIN list = DOMAIN plan.locs
         /\ \A m \in DOMAIN plan.locs : m # l => list[m] = plan.locs[m]
    <2>1. list = [plan.locs EXCEPT ![l] = next]
      <3>1. PICK q : q = plan.locs
        OBVIOUS
      <3>2. q \in Seq(LocOf(C)) /\ l \in DOMAIN q /\ q[l] = loc
        BY <1>1, <1>4, <1>5, <3>1
      <3>3. PICK io : io = (loc.is_io \/ ~IsTmp(a))
        OBVIOUS
      <3>4. [loc EXCEPT !.contents = a, !.is_io = io, !.byte_size = size] = next
        <4>1. PICK r : r = [loc EXCEPT !.contents = a, !.is_io = io, !.byte_size = size]
          OBVIOUS
        <4>2. /\ r.byte_size = size /\ r.is_io = io /\ r.contents = a /\ r.input = loc.input /\ r.cache = loc.cache
          BY <1>6, <4>1 DEF LocOf
        <4>3. r \in LocOf(C)
          BY <1>6, <1>8, <3>3, <4>1 DEF LocOf
        <4>4. r = [byte_size |-> r.byte_size, is_io |-> r.is_io, contents |-> r.contents,
                   input |-> r.input, cache |-> r.cache]
          BY <4>3 DEF LocOf
        <4>5. QED
          BY <4>1, <4>2, <4>4, <3>3
      <3>5. list = [q EXCEPT ![l].contents = a, ![l].is_io = io, ![l].byte_size = size]
        BY <1>6, <1>7, <3>1, <3>2, <3>3 DEF LocOf
      <3>6. [q EXCEPT ![l].contents = a, ![l].is_io = io, ![l].byte_size = size]
             = [q EXCEPT ![l] = [loc EXCEPT !.contents = a, !.is_io = io, !.byte_size = size]]
        BY <3>2
      <3>7. QED
        BY <3>1, <3>4, <3>5, <3>6
    <2> HIDE DEF list, next
    <2>2. QED
      BY <2>1, <1>1, <1>4, <1>9
  <1>12. plan.locs[l].byte_size = loc.byte_size /\ list[l].byte_size = size
    <2>1. next.byte_size = size
      OBVIOUS
    <2> HIDE DEF list, next
    <2>2. QED
      BY <2>1, <1>5, <1>11
  <1>13. TotalSize(list) = TotalSize(plan.locs) + size - loc.byte_size
    <2> HIDE DEF list, next
    <2>1. Sized(list) /\ Sized(plan.locs)
      BY <1>1, <1>11, LocsSized
    <2>2. l \in 1..Len(plan.locs) /\ \A m \in 1..Len(plan.locs) : m # l => list[m].byte_size = plan.locs[m].byte_size
      BY <1>1, <1>4, <1>11
    <2>3. TotalSize(list) = TotalSize(plan.locs) + list[l].byte_size - plan.locs[l].byte_size
      <3>1. PICK s, t : s = plan.locs /\ t = list
        OBVIOUS
      <3>2. PICK T : T = LocOf(C)
        OBVIOUS
      <3>3. s \in Seq(T) /\ t \in Seq(T) /\ Len(s) = Len(t)
        BY <1>1, <1>11, <3>1, <3>2
      <3>4. Sized(s) /\ Sized(t)
        BY <2>1, <3>1
      <3>5. l \in 1..Len(s) /\ \A m \in 1..Len(s) : m # l => t[m].byte_size = s[m].byte_size
        BY <2>2, <3>1
      <3>6. TotalSize(t) = TotalSize(s) + t[l].byte_size - s[l].byte_size
        BY <3>3, <3>4, <3>5, TotalSizeChanged
      <3>7. QED
        BY <3>1, <3>6
    <2>4. QED
      BY <2>3, <1>12
  <1>14. grown \in Nat /\ size - loc.byte_size = grown
    BY <1>5, <1>7, <1>8
  <1>15. outputs \in Seq(Nat)
    BY <1>1, <1>4
  <1>16. free \in Seq(DOMAIN locs) /\ ToSet(free) = ToSet(plan.free) \ {l} /\ IsInjective(free)
    <2>1. PICK D : D = DOMAIN locs
      OBVIOUS
    <2>2. PICK s : s = plan.free
      OBVIOUS
    <2>3. s \in Seq(D) /\ i \in 1..Len(s) /\ IsInjective(s) /\ s[i] = l
      BY <1>1, <1>3, <2>1, <2>2
    <2>4. RemoveAt(s, i) \in Seq(D)
      BY <2>3, Removed
    <2>5. ToSet(RemoveAt(s, i)) = ToSet(s) \ {l} /\ IsInjective(RemoveAt(s, i))
      BY <2>3, RemovedSet
    <2>6. QED
      BY <2>1, <2>2, <2>4, <2>5
  <1>17. TotalSize(plan.locs) \in Nat /\ TotalSize(locs) \in Nat
    BY <1>1, <1>2, LocsSized, TotalSizeNat
  <1>18. TotalSize(list) = TotalSize(locs) + (plan.mem_needed + grown)
    <2> HIDE DEF list, grown
    <2>1. QED
      BY <1>1, <1>8, <1>13, <1>14, <1>17
  <1> HIDE DEF list, outputs, free, grown, next
  <1>19. /\ new.outputs = outputs /\ new.locs = list /\ new.free = free
         /\ new.mem_needed = plan.mem_needed + grown
         /\ new \in [outputs : Seq(Nat), locs : Seq(LocOf(C)), free : Seq(DOMAIN locs), mem_needed : Nat]
    <2>1. new.outputs = outputs /\ new.locs = list /\ new.mem_needed = plan.mem_needed + grown
      OBVIOUS
    <2>2. UseFree(plan.free, i) = free
      BY DEF free, UseFree
    <2>3. plan.mem_needed + grown \in Nat
      <3>1. plan.mem_needed \in Nat
        BY <1>1
      <3>2. grown \in Nat
        BY <1>14
      <3>3. QED
        BY <3>1, <3>2
    <2>4. new = [outputs |-> outputs, locs |-> list, free |-> free, mem_needed |-> plan.mem_needed + grown]
      BY <2>2
    <2> HIDE DEF new
    <2>5. new.free = free
      BY <2>4
    <2>6. QED
      BY <1>11, <1>15, <1>16, <2>1, <2>3, <2>4, <2>5
  <1> HIDE DEF new
  <1>20. \A m \in DOMAIN list : LocFits(list[m])
    BY <1>1, <1>10, <1>11
  <1>21. \A m \in DOMAIN locs : m \in ToSet(free) \/ m \notin ToSet(free_locs) => list[m] = locs[m]
    <2> SUFFICES ASSUME NEW m \in DOMAIN locs, m \in ToSet(free) \/ m \notin ToSet(free_locs)
                 PROVE  list[m] = locs[m]
      OBVIOUS
    <2>1. m # l /\ (m \in ToSet(plan.free) \/ m \notin ToSet(free_locs))
      BY <1>1, <1>3, <1>16
    <2>2. m \in DOMAIN plan.locs
      BY <1>1, <1>2
    <2>3. QED
      BY <2>1, <2>2, <1>1, <1>11
  <1>22. new \in Plans(C)
    <2>1. Len(list) >= Len(locs)
      BY <1>1, <1>11
    <2>2. ToSet(free) \subseteq ToSet(free_locs)
      BY <1>1, <1>16
    <2>3. QED
      BY <1>16, <1>18, <1>19, <1>20, <1>21, <2>1, <2>2 DEF Plans
  <1>23. PlacedAt(plan, new, a, l)
    <2>1. Len(new.locs) >= Len(plan.locs)
      BY <1>1, <1>11, <1>19
    <2>2. \A m \in DOMAIN plan.locs : m \notin ToSet(plan.free) => new.locs[m] = plan.locs[m]
      BY <1>3, <1>11, <1>19
    <2>3. l \in DOMAIN new.locs /\ new.locs[l].contents = a
      BY <1>4, <1>11, <1>19 DEF next
    <2>4. l \notin ToSet(new.free) /\ ToSet(new.free) \subseteq ToSet(plan.free)
      BY <1>16, <1>19
    <2>5. new.outputs = Append(plan.outputs, l)
      BY <1>19 DEF outputs
    <2>6. Grown(plan.locs, list)
      <3>1. Grown(plan.locs, plan.locs)
        BY <1>1, GrownSame
      <3>2. /\ list[l].input = plan.locs[l].input /\ list[l].byte_size >= plan.locs[l].byte_size
            /\ list[l].contents # NoAlloc
        <4>1. list[l].input = plan.locs[l].input /\ list[l].contents = a
          BY <1>5, <1>11 DEF next
        <4>2. size >= loc.byte_size
          BY <1>5, <1>7, <1>8
        <4>3. QED
          BY <1>2, <1>12, <4>1, <4>2
      <3>3. QED
        BY <1>11, <3>1, <3>2 DEF Grown
    <2>7. QED
      BY <2>1, <2>2, <2>3, <2>4, <2>5, <2>6, <1>19 DEF PlacedAt
  <1>24. QED
    BY <1>22, <1>23 DEF new, list, outputs, grown

LEMMA PlanOutputFacts ==
    ASSUME IsProgram, NEW C, Memory(C), NEW plan \in Plans(C), NEW a \in Allocs
    PROVE  /\ PlanOutput(plan, a) \in Plans(C)
           /\ \E l : PlacedAt(plan, PlanOutput(plan, a), a, l) /\ (a \in DOMAIN value_locs => l = value_locs[a])
  <1> DEFINE want == IF IsTmp(a) THEN AlignUp(Size(a)) ELSE Size(a)
             size(i) == plan.locs[plan.free[i]].byte_size
             fits == {i \in DOMAIN plan.free : Fits(a, size(i), want)}
             grows == {i \in DOMAIN plan.free : size(i) < want /\ ~plan.locs[plan.free[i]].is_io}
             i == IF fits # {} THEN Min(fits) ELSE Max(grows)
             l == plan.free[i]
             reused == [outputs |-> Append(plan.outputs, l),
                        locs |-> [plan.locs EXCEPT ![l].contents = a,
                                                   ![l].is_io = @ \/ ~IsTmp(a),
                                                   ![l].byte_size = IF fits # {} THEN @ ELSE want],
                        free |-> UseFree(plan.free, i),
                        mem_needed |-> plan.mem_needed + (IF fits # {} THEN 0 ELSE want - size(i))]
             added == [outputs |-> Append(plan.outputs, Len(plan.locs) + 1),
                       locs |-> Append(plan.locs, [NewLoc(want, FALSE) EXCEPT !.contents = a]),
                       free |-> plan.free,
                       mem_needed |-> plan.mem_needed + want]
  <1>1. PlanOutput(plan, a) = IF a \in DOMAIN value_locs
                              THEN [plan EXCEPT !.outputs = Append(@, value_locs[a])]
                              ELSE IF fits \cup grows # {} THEN reused ELSE added
    BY DEF PlanOutput
  <1>2. want \in Nat /\ IF IsTmp(a) THEN want >= Size(a) ELSE want = Size(a)
    BY ProgramTypes, AlignUpFacts
  <1>3. plan.free \in Seq(DOMAIN locs)
    BY DEF Plans
  <1>4. CASE a \in DOMAIN value_locs
    BY <1>4, PlanOutputInUse
  <1>5. CASE a \notin DOMAIN value_locs /\ fits \cup grows = {}
    <2>1. PlanOutput(plan, a) = added
      <3> HIDE DEF fits, grows, added, reused
      <3>1. QED
        BY <1>1, <1>5
    <2> HIDE DEF want
    <2>2. added \in Plans(C) /\ PlacedAt(plan, added, a, Len(plan.locs) + 1)
      BY <1>2, PlanOutputNew
    <2> HIDE DEF added
    <2>3. QED
      BY <1>5, <2>1, <2>2
  <1>6. CASE a \notin DOMAIN value_locs /\ fits \cup grows # {}
    <2>1. PlanOutput(plan, a) = reused
      <3> HIDE DEF fits, grows, added, reused
      <3>1. QED
        BY <1>1, <1>6
    <2>2. i \in DOMAIN plan.free /\ IF fits # {} THEN i \in fits ELSE i \in grows
      <3>1. fits \in SUBSET Nat /\ grows \in SUBSET (0..Len(plan.free)) /\ Len(plan.free) \in Nat
        BY <1>3
      <3>2. fits \subseteq DOMAIN plan.free /\ grows \subseteq DOMAIN plan.free
        OBVIOUS
      <3> HIDE DEF fits, grows
      <3>3. CASE fits # {}
        BY <3>1, <3>2, <3>3, MinOf
      <3>4. CASE fits = {}
        <4>1. grows # {}
          BY <3>4, <1>6
        <4>2. Max(grows) \in grows
          BY <3>1, <4>1, MaxOf
        <4>3. QED
          BY <4>2, <3>2, <3>4
      <3>5. QED
        BY <3>3, <3>4
    <2>3. PICK found \in BOOLEAN : found = (fits # {})
      OBVIOUS
    <2>4. PICK j : j = i
      OBVIOUS
    <2>5. IF found THEN Fits(a, plan.locs[plan.free[j]].byte_size, want)
          ELSE plan.locs[plan.free[j]].byte_size < want /\ ~plan.locs[plan.free[j]].is_io
      BY <2>2, <2>3, <2>4
    <2> DEFINE given == [outputs |-> Append(plan.outputs, plan.free[j]),
                         locs |-> [plan.locs EXCEPT ![plan.free[j]].contents = a,
                                                    ![plan.free[j]].is_io = @ \/ ~IsTmp(a),
                                                    ![plan.free[j]].byte_size = IF found THEN @ ELSE want],
                         free |-> UseFree(plan.free, j),
                         mem_needed |-> plan.mem_needed + (IF found THEN 0 ELSE want - plan.locs[plan.free[j]].byte_size)]
    <2>6. reused = given
      <3> HIDE DEF want, i, fits
      <3>1. QED
        BY <2>3, <2>4
    <2>7. j \in DOMAIN plan.free
      BY <2>2, <2>4
    <2> HIDE DEF want, reused, i, fits
    <2>8. given \in Plans(C) /\ PlacedAt(plan, given, a, plan.free[j])
      BY <1>2, <2>5, <2>7, PlanOutputFree
    <2> HIDE DEF given
    <2>9. QED
      BY <1>6, <2>1, <2>6, <2>8
  <1>7. QED
    BY <1>4, <1>5, <1>6

PlanOf(plan, p, k) == Len(plan.outputs) = k /\ \A i \in 1..k :
    /\ plan.outputs[i] \in DOMAIN plan.locs /\ plan.outputs[i] \notin ToSet(plan.free)
    /\ plan.locs[plan.outputs[i]].contents = StepOf(p).outputs[i]
    /\ StepOf(p).outputs[i] \in DOMAIN value_locs => plan.outputs[i] = value_locs[StepOf(p).outputs[i]]

\* A plan gives each output of the step a loc of its own, that of its value if it has one.
LEMMA PlanFacts ==
    ASSUME IsProgram, NEW C, Memory(C), NEW p \in Steps
    PROVE  Plan(p) \in Plans(C) /\ PlanOf(Plan(p), p, Len(StepOf(p).outputs)) /\ Grown(locs, Plan(p).locs)
  <1> DEFINE outs == StepOf(p).outputs
             n == Len(outs)
             D == Plans(C)
             first == [outputs |-> <<>>, locs |-> locs, free |-> free_locs, mem_needed |-> 0]
             Is(f) == f = [k \in 0..n |-> IF k = 0 THEN first ELSE PlanOutput(f[k - 1], outs[k])]
             F == [x \in (1..n) \X D |-> PlanOutput(x[2], outs[x[1]])]
  <1>0. outs \in Seq(Allocs)
    BY ProgramTypes
  <1>1. n \in Nat /\ \A k \in 1..n : outs[k] \in Allocs
    BY <1>0
  <1>2. first \in D
    <2>1. locs \in Seq(LocOf(C)) /\ free_locs \in Seq(DOMAIN locs) /\ IsInjective(free_locs)
          /\ \A l \in DOMAIN locs : LocFits(locs[l])
      BY DEF Memory
    <2>2. TotalSize(locs) \in Nat
      BY <2>1, LocsSized, TotalSizeNat
    <2>3. TotalSize(locs) = TotalSize(locs) + 0 /\ Len(locs) >= Len(locs)
      BY <2>1, <2>2
    <2>4. first \in [outputs : Seq(Nat), locs : Seq(LocOf(C)), free : Seq(DOMAIN locs), mem_needed : Nat]
      BY <2>1
    <2>5. QED
      BY <2>1, <2>3, <2>4 DEF Plans
  <1> HIDE DEF outs, n, first
  <1>3. F \in StepsIn(n, D)
    <2> SUFFICES ASSUME NEW x \in (1..n) \X D PROVE PlanOutput(x[2], outs[x[1]]) \in D
      BY DEF StepsIn
    <2>1. x[2] \in Plans(C) /\ outs[x[1]] \in Allocs
      BY <1>1
    <2>2. QED
      BY <2>1, PlanOutputFacts
  <1> HIDE DEF D
  <1>4. PICK f : IsRun(f, n, D, first, F)
    <2> HIDE DEF F
    <2>1. QED
      BY <1>1, <1>2, <1>3, Repeated
  <1>5. ASSUME NEW k \in 1..n
        PROVE  f[k] = PlanOutput(f[k - 1], outs[k])
    <2>1. f[k - 1] \in D
      BY <1>1, <1>4 DEF IsRun
    <2>2. QED
      BY <1>4, <2>1 DEF IsRun
  <1>6. Is(f)
    <2> HIDE DEF F
    <2>1. QED
      BY <1>1, <1>4, <1>5 DEF IsRun
  <1>7. Plan(p) = (CHOOSE g : Is(g))[n]
    BY DEF Plan, n, outs, first
  <1>8. Is(CHOOSE g : Is(g))
    <2> HIDE DEF Is
    <2>1. QED
      BY <1>6
  <1>9. PICK g : Is(g) /\ Plan(p) = g[n]
    <2> HIDE DEF Is
    <2>1. QED
      BY <1>7, <1>8
  <1>10. g[0] = first /\ \A k \in 1..n : g[k] = PlanOutput(g[k - 1], outs[k])
    BY <1>1, <1>9
  <1> DEFINE T == {k \in 0..n : g[k] \in Plans(C) /\ PlanOf(g[k], p, k) /\ Grown(locs, g[k].locs)}
  <1>15. locs \in Seq(LocOf(C))
    BY DEF Memory
  <1>11. 0 \in T
    <2>1. PlanOf(first, p, 0)
      BY DEF PlanOf, first
    <2>2. first \in Plans(C)
      BY <1>2 DEF D
    <2>3. Grown(locs, first.locs)
      BY <1>15, GrownSame DEF first
    <2>4. QED
      BY <1>1, <1>10, <2>1, <2>2, <2>3
  <1>12. ASSUME NEW k \in 1..n, k - 1 \in T PROVE k \in T
    <2>1. PICK old \in Plans(C) : old = g[k - 1] /\ PlanOf(old, p, k - 1) /\ Grown(locs, old.locs)
      BY <1>12
    <2>2. PICK a \in Allocs : a = outs[k]
      BY <1>1
    <2>3. PICK new : new = PlanOutput(old, a)
      OBVIOUS
    <2>4. new \in Plans(C) /\ \E l : PlacedAt(old, new, a, l) /\ (a \in DOMAIN value_locs => l = value_locs[a])
      BY <2>3, PlanOutputFacts
    <2>5. PICK l : PlacedAt(old, new, a, l) /\ (a \in DOMAIN value_locs => l = value_locs[a])
      BY <2>4
    <2>6. /\ old.outputs \in Seq(Nat) /\ old.locs \in Seq(LocOf(C))
          /\ new.outputs \in Seq(Nat) /\ new.locs \in Seq(LocOf(C))
      BY <2>4 DEF Plans
    <2>7. Len(old.outputs) = k - 1 /\ \A i \in 1..(k - 1) :
              /\ old.outputs[i] \in DOMAIN old.locs /\ old.outputs[i] \notin ToSet(old.free)
              /\ old.locs[old.outputs[i]].contents = outs[i]
              /\ outs[i] \in DOMAIN value_locs => old.outputs[i] = value_locs[outs[i]]
      BY <2>1 DEF PlanOf, outs
    <2>8. new.outputs = Append(old.outputs, l) /\ Len(new.outputs) = k
      <3>1. new.outputs = Append(old.outputs, l)
        BY <2>5 DEF PlacedAt
      <3>2. QED
        BY <3>1, <2>6, <2>7
    <2>9. ASSUME NEW i \in 1..k
          PROVE  /\ new.outputs[i] \in DOMAIN new.locs /\ new.outputs[i] \notin ToSet(new.free)
                 /\ new.locs[new.outputs[i]].contents = outs[i]
                 /\ outs[i] \in DOMAIN value_locs => new.outputs[i] = value_locs[outs[i]]
      <3>1. CASE i = k
        <4>1. new.outputs[i] = l
          BY <2>6, <2>7, <2>8, <3>1
        <4>2. QED
          BY <4>1, <2>2, <2>5, <3>1 DEF PlacedAt
      <3>2. CASE i # k
        <4>1. i \in 1..(k - 1)
          BY <3>2
        <4>2. PICK m : m = old.outputs[i]
          OBVIOUS
        <4>3. /\ m \in DOMAIN old.locs /\ m \notin ToSet(old.free) /\ old.locs[m].contents = outs[i]
              /\ outs[i] \in DOMAIN value_locs => m = value_locs[outs[i]]
          BY <2>7, <4>1, <4>2
        <4>4. new.outputs[i] = m
          BY <2>6, <2>7, <2>8, <4>1, <4>2
        <4>5. new.locs[m] = old.locs[m] /\ m \notin ToSet(new.free) /\ Len(new.locs) >= Len(old.locs)
          BY <4>3, <2>5 DEF PlacedAt
        <4>6. m \in DOMAIN new.locs
          BY <4>3, <4>5, <2>6
        <4>7. QED
          BY <4>3, <4>4, <4>5, <4>6
      <3>3. QED
        BY <3>1, <3>2
    <2>10. PlanOf(new, p, k)
      BY <2>8, <2>9 DEF PlanOf, outs
    <2>11. g[k] = new /\ k \in 0..n
      BY <1>1, <1>10, <2>1, <2>2, <2>3
    <2>12. Grown(locs, new.locs)
      <3>1. Grown(old.locs, new.locs)
        BY <2>5 DEF PlacedAt
      <3>2. QED
        BY <1>15, <2>1, <2>6, <3>1, GrownFrom
    <2>13. QED
      BY <2>4, <2>10, <2>11, <2>12
  <1>13. n \in T
    <2> HIDE DEF T
    <2>1. 0..n \subseteq T
      BY <1>1, <1>11, <1>12, UpTo
    <2>2. QED
      BY <2>1, <1>1
  <1>14. QED
    BY <1>9, <1>13 DEF n, outs

-----------------------------------------------------------------------------
(* The choice of a step *)

\* A sequence that enumerates a finite set contains each element once.
LEMMA EnumerationFacts ==
    ASSUME NEW A, IsFiniteSet(A), NEW order \in [1..Cardinality(A) -> A], IsInjective(order)
    PROVE  order \in Seq(A) /\ Len(order) = Cardinality(A) /\ ToSet(order) = A
  <1> DEFINE n == Cardinality(A)
  <1>1. n \in Nat
    BY FS_CardinalityType
  <1>2. order \in Seq(A) /\ Len(order) = n /\ DOMAIN order = 1..n
    BY <1>1
  <1>3. IsFiniteSet(1..n) /\ Cardinality(1..n) = n
    BY <1>1, FS_Interval
  <1>4. order \in Injection(1..n, A)
    BY DEF Injection, IsInjective
  <1>5. order \in Surjection(1..n, A)
    BY <1>3, <1>4, FS_Injection
  <1>6. ToSet(order) = A
    BY <1>2, <1>5 DEF Surjection, ToSet
  <1>7. QED
    BY <1>2, <1>6

LEMMA OrdersEnumerate ==
    ASSUME NEW A, IsFiniteSet(A), NEW order \in SetToSeqs(A)
    PROVE  order \in Seq(A) /\ IsInjective(order) /\ Len(order) = Cardinality(A) /\ ToSet(order) = A
  <1>1. order \in [1..Cardinality(A) -> A] /\ \A i, j \in 1..Cardinality(A) : i # j => order[i] # order[j]
    BY DEF SetToSeqs
  <1>2. IsInjective(order)
    BY <1>1 DEF IsInjective
  <1>3. QED
    BY <1>1, <1>2, EnumerationFacts

\* BestOf takes a step within the budget if there is one.
LEMMA BestFacts ==
    ASSUME NEW A, IsFiniteSet(A), A # {}, NEW order \in SetToSeqs(A),
           mem_available \in Nat, \A p \in A : MemNeeded(p) \in Nat
    PROVE  /\ BestOf(order) \in A
           /\ MemNeeded(BestOf(order)) <= mem_available \/ \A p \in A : mem_available < MemNeeded(p)
  <1> DEFINE n == Len(order) - 1
             Is(f) == f = [k \in 0..n |-> IF k = 0 THEN order[1] ELSE BetterOf(order[k + 1], f[k - 1])]
             F == [x \in (1..n) \X A |-> BetterOf(order[x[1] + 1], x[2])]
  <1>0. order \in Seq(A) /\ ToSet(order) = A
    BY OrdersEnumerate
  <1>1. n \in Nat /\ \A k \in 0..n : order[k + 1] \in A
    <2>1. Len(order) # 0
      <3>1. DOMAIN order # {}
        BY <1>0 DEF ToSet
      <3>2. QED
        BY <3>1, <1>0
    <2>2. n \in Nat
      BY <2>1, <1>0
    <2>3. ASSUME NEW k \in 0..n PROVE order[k + 1] \in A
      <3>1. k + 1 \in 1..Len(order)
        BY <2>2
      <3>2. QED
        BY <3>1, <1>0
    <2>4. QED
      BY <2>2, <2>3
  <1>2. order[1] \in A
    BY <1>1
  <1> HIDE DEF n
  <1>3. \A p, q \in A : BetterOf(p, q) \in {p, q}
    BY DEF BetterOf
  <1>4. F \in StepsIn(n, A)
    <2> SUFFICES ASSUME NEW x \in (1..n) \X A PROVE BetterOf(order[x[1] + 1], x[2]) \in A
      BY DEF StepsIn
    <2>1. x[2] \in A /\ x[1] \in 0..n
      BY <1>1
    <2>2. order[x[1] + 1] \in A
      BY <2>1, <1>1
    <2>3. QED
      BY <2>1, <2>2, <1>3
  <1>5. PICK f : IsRun(f, n, A, order[1], F)
    <2> HIDE DEF F
    <2>1. QED
      BY <1>1, <1>2, <1>4, Repeated
  <1>6. ASSUME NEW k \in 1..n
        PROVE  f[k] = BetterOf(order[k + 1], f[k - 1])
    <2>1. f[k - 1] \in A
      BY <1>1, <1>5 DEF IsRun
    <2>2. QED
      BY <1>5, <2>1 DEF IsRun
  <1>7. Is(f)
    <2> HIDE DEF F
    <2>1. QED
      BY <1>1, <1>5, <1>6 DEF IsRun
  <1>8. BestOf(order) = (CHOOSE g : Is(g))[n]
    BY DEF BestOf, n
  <1>9. Is(CHOOSE g : Is(g))
    <2> HIDE DEF Is
    <2>1. QED
      BY <1>7
  <1>10. PICK g : Is(g) /\ BestOf(order) = g[n]
    <2> HIDE DEF Is
    <2>1. QED
      BY <1>8, <1>9
  <1>11. g[0] = order[1] /\ \A k \in 1..n : g[k] = BetterOf(order[k + 1], g[k - 1])
    BY <1>1, <1>10
  <1> DEFINE T == {k \in 0..n : /\ g[k] \in A
                                /\ \/ MemNeeded(g[k]) <= mem_available
                                   \/ \A i \in 1..(k + 1) : mem_available < MemNeeded(order[i])}
  <1>12. 0 \in T
    <2>1. MemNeeded(order[1]) \in Nat
      BY <1>2
    <2>2. \/ MemNeeded(g[0]) <= mem_available
          \/ \A i \in 1..(0 + 1) : mem_available < MemNeeded(order[i])
      <3>1. CASE MemNeeded(order[1]) <= mem_available
        BY <1>11, <3>1
      <3>2. CASE mem_available < MemNeeded(order[1])
        <4>1. \A i \in 1..(0 + 1) : i = 1
          OBVIOUS
        <4>2. QED
          BY <3>2, <4>1
      <3>3. QED
        BY <3>1, <3>2, <2>1
    <2>3. QED
      BY <1>1, <1>2, <1>11, <2>2
  <1>13. ASSUME NEW k \in 1..n, k - 1 \in T PROVE k \in T
    <2>1. PICK q \in A : q = g[k - 1]
      BY <1>13
    <2>2. PICK p \in A : p = order[k + 1]
      <3>1. k \in 0..n
        BY <1>1
      <3>2. QED
        BY <3>1, <1>1
    <2>3. g[k] = BetterOf(p, q)
      BY <1>11, <2>1, <2>2
    <2>4. PICK r \in A : r = g[k] /\ (r = p \/ r = q)
      BY <1>3, <2>3
    <2>5. MemNeeded(p) \in Nat /\ MemNeeded(q) \in Nat /\ MemNeeded(r) \in Nat
      OBVIOUS
    <2>6. \/ MemNeeded(q) <= mem_available
          \/ \A i \in 1..((k - 1) + 1) : mem_available < MemNeeded(order[i])
      BY <1>13, <2>1
    <2>7. \/ MemNeeded(r) <= mem_available
          \/ \A i \in 1..(k + 1) : mem_available < MemNeeded(order[i])
      <3>1. CASE MemNeeded(q) <= mem_available
        <4>1. ASSUME BetterPlan(p, q) PROVE MemNeeded(p) <= mem_available
          <5>1. ~(mem_available < MemNeeded(q))
            BY <3>1, <2>5
          <5>2. QED
            BY <4>1, <5>1 DEF BetterPlan
        <4>2. r = IF BetterPlan(p, q) THEN p ELSE q
          BY <2>3, <2>4 DEF BetterOf
        <4>3. QED
          BY <3>1, <4>1, <4>2
      <3>2. CASE mem_available < MemNeeded(q)
        <4>1. \A i \in 1..((k - 1) + 1) : mem_available < MemNeeded(order[i])
          BY <2>5, <2>6, <3>2
        <4>2. CASE MemNeeded(p) <= mem_available
          <5>1. BetterPlan(p, q)
            BY <3>2, <4>2 DEF BetterPlan
          <5>2. r = p
            BY <5>1, <2>3, <2>4 DEF BetterOf
          <5>3. QED
            BY <5>2, <4>2
        <4>3. CASE mem_available < MemNeeded(p)
          <5>1. ASSUME NEW i \in 1..(k + 1) PROVE mem_available < MemNeeded(order[i])
            <6>1. CASE i = k + 1
              BY <6>1, <2>2, <4>3
            <6>2. CASE i # k + 1
              <7>1. i \in 1..((k - 1) + 1)
                BY <6>2
              <7>2. QED
                BY <7>1, <4>1
            <6>3. QED
              BY <6>1, <6>2
          <5>2. QED
            BY <5>1
        <4>4. QED
          BY <4>2, <4>3, <2>5
      <3>3. QED
        BY <3>1, <3>2, <2>5
    <2>8. k \in 0..n
      BY <1>1
    <2>9. QED
      BY <2>4, <2>7, <2>8
  <1>14. n \in T
    <2> HIDE DEF T
    <2>1. 0..n \subseteq T
      BY <1>1, <1>12, <1>13, UpTo
    <2>2. QED
      BY <2>1, <1>1
  <1>15. ASSUME \A i \in 1..(n + 1) : mem_available < MemNeeded(order[i]), NEW p \in A
         PROVE  mem_available < MemNeeded(p)
    <2>1. PICK i \in DOMAIN order : order[i] = p
      BY <1>0 DEF ToSet
    <2>2. i \in 1..(n + 1)
      BY <2>1, <1>0 DEF n
    <2>3. QED
      BY <2>1, <2>2, <1>15
  <1>16. BestOf(order) \in A /\ (\/ MemNeeded(BestOf(order)) <= mem_available
                                 \/ \A i \in 1..(n + 1) : mem_available < MemNeeded(order[i]))
    BY <1>10, <1>14
  <1>17. QED
    BY <1>15, <1>16

-----------------------------------------------------------------------------
(* The program stays the same *)

LEMMA SameProgram ==
    ASSUME UNCHANGED program
    PROVE  /\ Final' = Final /\ Steps' = Steps /\ Allocs' = Allocs
           /\ \A a : Size(a)' = Size(a) /\ IsTmp(a)' = IsTmp(a) /\ IsInput(a)' = IsInput(a)
           /\ \A p : /\ StepOf(p)' = StepOf(p) /\ Inputs(p)' = Inputs(p) /\ Outputs(p)' = Outputs(p)
                     /\ IsZero(p)' = IsZero(p)
                     /\ \A a : MostRecentWriter(a, p)' = MostRecentWriter(a, p)
                     /\ Dependencies(p)' = Dependencies(p)
           /\ IsProgram' = IsProgram
  <1>1. Final' = Final
    BY DEF Final
  <1>2. Steps' = Steps
    BY <1>1 DEF Steps
  <1>3. Allocs' = Allocs
    BY DEF Allocs
  <1>4. \A a : Size(a)' = Size(a) /\ IsTmp(a)' = IsTmp(a) /\ IsInput(a)' = IsInput(a)
    BY DEF Size, IsTmp, IsInput
  <1>5. \A p : StepOf(p)' = StepOf(p)
    BY <1>1, <1>3, <1>4 DEF StepOf
  <1>6. \A p : Inputs(p)' = Inputs(p)
    BY <1>5 DEF Inputs
  <1>7. \A p : Outputs(p)' = Outputs(p)
    BY <1>5 DEF Outputs
  <1>8. \A p : IsZero(p)' = IsZero(p)
    BY <1>5 DEF IsZero
  <1>9. \A p, a : MostRecentWriter(a, p)' = MostRecentWriter(a, p)
    <2> SUFFICES ASSUME NEW p, NEW a PROVE MostRecentWriter(a, p)' = MostRecentWriter(a, p)
      OBVIOUS
    <2>1. {q \in 1..(p - 1) : a \in Outputs(q)}' = {q \in 1..(p - 1) : a \in Outputs(q)}
      BY <1>7
    <2>2. QED
      BY <2>1 DEF MostRecentWriter
  <1>10. \A p : Dependencies(p)' = Dependencies(p)
    <2> SUFFICES ASSUME NEW p PROVE Dependencies(p)' = Dependencies(p)
      OBVIOUS
    <2>1. \A a : MostRecentWriter(a, p)' = MostRecentWriter(a, p)
      BY <1>9
    <2>2. {MostRecentWriter(a, p) : a \in {b \in Inputs(p) : ~IsInput(b)}}'
            = {MostRecentWriter(a, p) : a \in {b \in Inputs(p) : ~IsInput(b)}}
      BY <2>1, <1>4, <1>6
    <2>3. {MostRecentWriter(a, p) : a \in Outputs(p)}' = {MostRecentWriter(a, p) : a \in Outputs(p)}
      BY <2>1, <1>7
    <2>4. QED
      BY <2>2, <2>3, <1>8 DEF Dependencies
  <1>11. IsProgram' = IsProgram
    BY <1>1, <1>2, <1>3, <1>4, <1>5, <1>6, <1>7, <1>8, <1>9 DEF IsProgram, KernelStep
  <1>12. QED
    BY <1>1, <1>2, <1>3, <1>4, <1>5, <1>6, <1>7, <1>8, <1>9, <1>10, <1>11

-----------------------------------------------------------------------------
(* The invariant *)

\* An entry of the schedule.
Entries == [step : Steps, outputs : Seq(Nat)]

FifoTypes ==
    /\ IsProgram
    /\ phase \in {"schedule", "retire", "finalize", "done"}
    /\ size_goal \in Nat /\ mem_available \in Nat
    /\ pending \subseteq {p \in Steps : ~IsZero(p)}
    /\ scheduled \in Seq(Entries)
    /\ running \in 1..(Len(scheduled) + 1)

MemoryKept == \E C : Memory(C)

\* A step that does something is pending or scheduled; no step is scheduled twice.
StepsOnce ==
    /\ \A p \in Steps : ~IsZero(p) => p \in pending \/ \E i \in DOMAIN scheduled : scheduled[i].step = p
    /\ \A p \in Steps : \A i \in DOMAIN scheduled : scheduled[i].step = p =>
          p \notin pending /\ \A j \in DOMAIN scheduled : scheduled[j].step = p => j = i

\* A step is scheduled when those that it depends on have retired, and with them all that
\* wrote its outputs before; a zero step goes before the step that needs it.
StepsOrdered ==
    \A p \in Steps : \A i \in DOMAIN scheduled : scheduled[i].step = p =>
        /\ Dependencies(p) \subseteq Retired
        /\ \A a \in Outputs(p) : \A q \in 1..(p - 1) : a \in Outputs(q) /\ ~IsZero(q) => q \in Retired
        /\ IsZero(p) =>
              \E u \in Steps : \E j \in DOMAIN scheduled :
                 /\ j > i /\ scheduled[j].step = u
                 /\ \A a \in Outputs(p) : a \in Outputs(u) /\ MostRecentWriter(a, u) = p

\* The outputs of a running step are in locs of their own.
OutputsHeld ==
    \A p \in Steps : \A i \in Running : scheduled[i].step = p =>
        /\ Len(scheduled[i].outputs) = Len(StepOf(p).outputs)
        /\ \A k \in 1..Len(StepOf(p).outputs) :
              /\ scheduled[i].outputs[k] \in DOMAIN locs
              /\ scheduled[i].outputs[k] \notin ToSet(free_locs)
              /\ locs[scheduled[i].outputs[k]].contents = StepOf(p).outputs[k]

\* The steps that are still to read a.
Readers(a) == {p \in Steps : a \in Inputs(p) /\ p \notin Retired}
ReadersCounted ==
    /\ refs \in [Allocs -> Nat]
    /\ \A a \in Allocs : refs[a] = Cardinality(Readers(a)) + (IF a \in Inputs(Final) THEN 1 ELSE 0)

\* A value that has been written is known as long as it is to be read.
ValuesAlive ==
    \A a \in Allocs :
        /\ IsInput(a) \/ \E q \in Retired : ~IsZero(q) /\ a \in Outputs(q)
        /\ Readers(a) # {}
        => a \in DOMAIN value_locs

FifoInv ==
    /\ FifoTypes /\ MemoryKept /\ StepsOnce /\ StepsOrdered /\ OutputsHeld /\ ReadersCounted /\ ValuesAlive
    /\ BudgetKept /\ NoEmptyTurn

-----------------------------------------------------------------------------
(* What is scheduled *)

LEMMA RetiredFacts ==
    ASSUME FifoTypes
    PROVE  /\ Retired \subseteq Steps
           /\ Len(scheduled) \in Nat /\ running \in Nat /\ DOMAIN scheduled = 1..Len(scheduled)
           /\ \A i \in DOMAIN scheduled : scheduled[i] \in Entries
           /\ \A p : p \in Retired <=> \E i \in DOMAIN scheduled : i < running /\ scheduled[i].step = p
           /\ Running = {} <=> running = Len(scheduled) + 1
           /\ \A i : i \in Running <=> i \in DOMAIN scheduled /\ i >= running
  <1>1. /\ scheduled \in Seq(Entries)
        /\ running \in 1..(Len(scheduled) + 1)
    BY DEF FifoTypes
  <1>2. Len(scheduled) \in Nat /\ DOMAIN scheduled = 1..Len(scheduled) /\ running \in Nat
    BY <1>1
  <1>3. \A i \in DOMAIN scheduled : scheduled[i] \in Entries
    BY <1>1
  <1>4. \A i \in 1..(running - 1) : i \in DOMAIN scheduled /\ i < running
    BY <1>1, <1>2
  <1>5. \A i \in DOMAIN scheduled : i < running => i \in 1..(running - 1)
    BY <1>1, <1>2
  <1>6. \A p : p \in Retired <=> \E i \in DOMAIN scheduled : i < running /\ scheduled[i].step = p
    BY <1>4, <1>5 DEF Retired
  <1>7. Running = {} <=> running = Len(scheduled) + 1
    <2>1. CASE running = Len(scheduled) + 1
      BY <1>2, <2>1 DEF Running
    <2>2. CASE running # Len(scheduled) + 1
      <3>1. running \in running..Len(scheduled)
        BY <1>1, <1>2, <2>2
      <3>2. QED
        BY <3>1, <2>2 DEF Running
    <2>3. QED
      BY <2>1, <2>2
  <1>8. \A i : i \in Running <=> i \in DOMAIN scheduled /\ i >= running
    BY <1>1, <1>2 DEF Running
  <1>9. Retired \subseteq Steps
    BY <1>3, <1>6 DEF Entries
  <1>10. QED
    BY <1>2, <1>3, <1>6, <1>7, <1>8, <1>9

\* The zero steps that go before p, as Apply puts them there.
ZeroEntries(p) ==
    LET plan == Plan(p)
        At(a) == plan.outputs[CHOOSE i \in DOMAIN plan.outputs : StepOf(p).outputs[i] = a]
    IN [i \in DOMAIN ZeroInputs(p) |->
           [step |-> MostRecentWriter(ZeroInputs(p)[i], p), outputs |-> <<At(ZeroInputs(p)[i])>>]]

Entry(p) == [step |-> p, outputs |-> Plan(p).outputs]

\* An entry of the schedule leaves the value of a in the loc l.
Puts(e, a, l) == \E k \in DOMAIN e.outputs : e.outputs[k] = l /\ StepOf(e.step).outputs[k] = a

\* The entry clears the output a of p in the loc l, where p is to leave it.
Clears(entry, p, a, l) ==
    /\ Puts(Entry(p), a, l)
    /\ a \in Outputs(p) /\ IsZero(MostRecentWriter(a, p)) /\ MostRecentWriter(a, p) \in Steps
    /\ entry.step = MostRecentWriter(a, p) /\ entry.outputs = <<l>>
    /\ l \in DOMAIN Plan(p).locs /\ l \notin ToSet(Plan(p).free) /\ Plan(p).locs[l].contents = a

LEMMA ZeroEntriesFacts ==
    ASSUME IsProgram, NEW C, Memory(C), NEW p \in Steps
    PROVE  /\ ZeroEntries(p) \in Seq(Entries)
           /\ \A k \in DOMAIN ZeroEntries(p) : \E a, l : Clears(ZeroEntries(p)[k], p, a, l)
           /\ \A j, k \in DOMAIN ZeroEntries(p) : ZeroEntries(p)[j].step = ZeroEntries(p)[k].step => j = k
           /\ \A a \in Outputs(p) : IsCleared(a, p) =>
                 \E k \in DOMAIN ZeroEntries(p) : \E l : Clears(ZeroEntries(p)[k], p, a, l)
  <1> DEFINE outs == StepOf(p).outputs
             plan == Plan(p)
             zeros == ZeroInputs(p)
             z == ZeroEntries(p)
             Index(a) == CHOOSE i \in DOMAIN plan.outputs : outs[i] = a
  <1>1. plan \in Plans(C) /\ PlanOf(plan, p, Len(outs)) /\ outs \in Seq(Allocs)
    BY PlanFacts, ProgramTypes
  <1>2. zeros \in Seq(Allocs) /\ IsInjective(zeros) /\ ToSet(zeros) = {a \in Outputs(p) : IsCleared(a, p)}
    BY ZeroInputsFacts
  <1>3. z = [i \in DOMAIN zeros |->
               [step |-> MostRecentWriter(zeros[i], p), outputs |-> <<plan.outputs[Index(zeros[i])]>>]]
    BY DEF ZeroEntries
  <1>4. plan.outputs \in Seq(Nat) /\ DOMAIN plan.outputs = 1..Len(outs) /\ DOMAIN outs = 1..Len(outs)
    BY <1>1 DEF Plans, PlanOf
  <1>5. ASSUME NEW a \in Outputs(p)
        PROVE  Index(a) \in DOMAIN plan.outputs /\ outs[Index(a)] = a
    <2>1. PICK i \in DOMAIN outs : outs[i] = a
      BY DEF Outputs, ToSet
    <2>2. i \in DOMAIN plan.outputs
      BY <1>4
    <2>3. QED
      BY <2>1, <2>2
  <1> HIDE DEF outs, plan, zeros, z, Index
  <1>6. ASSUME NEW k \in DOMAIN zeros
        PROVE  /\ \E l : Clears(z[k], p, zeros[k], l)
               /\ z[k] \in Entries
    <2>1. PICK a : a = zeros[k]
      OBVIOUS
    <2>2. a \in Outputs(p) /\ IsCleared(a, p)
      BY <1>2, <2>1 DEF ToSet
    <2>3. MostRecentWriter(a, p) \in Steps /\ IsZero(MostRecentWriter(a, p))
      BY <2>2, WriterFacts DEF IsCleared
    <2>4. PICK i : i = Index(a)
      OBVIOUS
    <2>5. i \in 1..Len(outs) /\ outs[i] = a /\ i \in DOMAIN plan.outputs
      BY <1>4, <1>5, <2>2, <2>4
    <2>6. PICK l : l = plan.outputs[i]
      OBVIOUS
    <2>7. l \in DOMAIN plan.locs /\ l \notin ToSet(plan.free) /\ plan.locs[l].contents = a
      BY <1>1, <2>5, <2>6 DEF PlanOf, outs
    <2>8. l \in Nat
      BY <1>4, <2>5, <2>6
    <2>9. z[k] = [step |-> MostRecentWriter(a, p), outputs |-> <<l>>]
      BY <1>3, <2>1, <2>4, <2>6
    <2>10. z[k].step = MostRecentWriter(a, p) /\ z[k].outputs = <<l>> /\ <<l>> \in Seq(Nat)
      BY <2>8, <2>9
    <2>11. Puts(Entry(p), a, l)
      <3>1. Entry(p).step = p /\ Entry(p).outputs = plan.outputs
        BY DEF Entry, plan
      <3>2. QED
        BY <2>5, <2>6, <3>1 DEF Puts, outs
    <2>12. Clears(z[k], p, a, l)
      BY <2>2, <2>3, <2>7, <2>10, <2>11 DEF Clears, plan
    <2>13. QED
      BY <2>1, <2>3, <2>9, <2>10, <2>12 DEF Entries
  <1>7. DOMAIN z = DOMAIN zeros
    BY <1>3
  <1>8. z \in Seq(Entries)
    <2>1. DOMAIN zeros = 1..Len(zeros) /\ Len(zeros) \in Nat
      BY <1>2
    <2>2. z \in [1..Len(zeros) -> Entries]
      BY <1>3, <1>6, <2>1
    <2>3. QED
      BY <2>1, <2>2
  <1>9. ASSUME NEW j \in DOMAIN z, NEW k \in DOMAIN z, z[j].step = z[k].step
        PROVE  j = k
    <2>1. PICK a, l : a = zeros[j] /\ Clears(z[j], p, a, l)
      BY <1>6, <1>7
    <2>2. PICK b, m : b = zeros[k] /\ Clears(z[k], p, b, m)
      BY <1>6, <1>7
    <2>3. PICK w \in Steps : w = z[j].step /\ IsZero(w)
      BY <2>1 DEF Clears
    <2>4. w = MostRecentWriter(a, p) /\ w = MostRecentWriter(b, p) /\ w # 0
      BY <2>1, <2>2, <2>3, <1>9, ProgramTypes DEF Clears, Steps
    <2>5. a \in Outputs(w) /\ b \in Outputs(w)
      BY <2>4, WriterFacts
    <2>6. a = b
      BY <2>3, <2>5, ZeroFacts
    <2>7. QED
      BY <2>1, <2>2, <2>6, <1>2, <1>7 DEF IsInjective
  <1>10. ASSUME NEW a \in Outputs(p), IsCleared(a, p)
         PROVE  \E k \in DOMAIN z : \E l : Clears(z[k], p, a, l)
    <2>1. a \in ToSet(zeros)
      BY <1>2, <1>10
    <2>2. PICK k \in DOMAIN zeros : zeros[k] = a
      BY <2>1 DEF ToSet
    <2>3. QED
      BY <1>6, <1>7, <2>2
  <1>11. QED
    BY <1>6, <1>7, <1>8, <1>9, <1>10 DEF z

\* The parts of the schedule after Apply(p).
AppliedParts(p, s, n, m) ==
    /\ n \in Nat /\ m \in Nat /\ n = Len(scheduled) /\ DOMAIN ZeroEntries(p) = 1..m /\ DOMAIN scheduled = 1..n
    /\ s \in Seq(Entries) /\ Len(s) = n + m + 1 /\ DOMAIN s = 1..(n + m + 1)
    /\ \A i \in 1..n : s[i] = scheduled[i]
    /\ s[n + m + 1] = Entry(p)
    /\ \A i \in (n + 1)..(n + m) :
          /\ i - n \in 1..m /\ s[i] = ZeroEntries(p)[i - n]
          /\ \E a, l : Clears(s[i], p, a, l)

LEMMA AppliedFacts ==
    ASSUME FifoTypes, NEW C, Memory(C), NEW p \in Steps
    PROVE  \E n, m : AppliedParts(p, scheduled \o ZeroEntries(p) \o <<Entry(p)>>, n, m)
  <1>1. IsProgram /\ scheduled \in Seq(Entries)
    BY DEF FifoTypes
  <1>2. ZeroEntries(p) \in Seq(Entries) /\ \A k \in DOMAIN ZeroEntries(p) : \E a, l : Clears(ZeroEntries(p)[k], p, a, l)
    BY <1>1, ZeroEntriesFacts DEF Entries
  <1>3. Entry(p) \in Entries
    <2>1. Plan(p) \in Plans(C)
      BY <1>1, PlanFacts
    <2>2. Plan(p).outputs \in Seq(Nat)
      BY <2>1 DEF Plans
    <2>3. QED
      BY <2>2 DEF Entry, Entries
  <1>4. PICK z \in Seq(Entries) : z = ZeroEntries(p)
    BY <1>2
  <1>5. PICK e \in Entries : e = Entry(p)
    BY <1>3
  <1>6. PICK n : n = Len(scheduled)
    OBVIOUS
  <1>7. PICK m : m = Len(z)
    OBVIOUS
  <1>8. n \in Nat /\ m \in Nat /\ DOMAIN z = 1..m /\ DOMAIN scheduled = 1..n
    BY <1>1, <1>6, <1>7
  <1>9. PICK s : s = scheduled \o z \o <<e>>
    OBVIOUS
  <1>10. /\ s \in Seq(Entries) /\ Len(s) = n + m + 1 /\ DOMAIN s = 1..(n + m + 1)
         /\ \A i \in 1..n : s[i] = scheduled[i]
         /\ s[n + m + 1] = e
         /\ \A i \in (n + 1)..(n + m) : i - n \in 1..m /\ s[i] = z[i - n]
    BY <1>1, <1>6, <1>7, <1>9, Concatenated
  <1>11. ASSUME NEW i \in (n + 1)..(n + m) PROVE \E a, l : Clears(s[i], p, a, l)
    <2>1. PICK k : k = i - n
      OBVIOUS
    <2>2. k \in 1..m /\ s[i] = z[k]
      BY <1>10, <2>1
    <2>3. k \in DOMAIN ZeroEntries(p) /\ s[i] = ZeroEntries(p)[k]
      BY <1>4, <1>8, <2>2
    <2>4. QED
      BY <2>3, <1>2
  <1>12. AppliedParts(p, s, n, m)
    BY <1>4, <1>5, <1>6, <1>8, <1>10, <1>11 DEF AppliedParts
  <1>13. s = scheduled \o ZeroEntries(p) \o <<Entry(p)>>
    BY <1>4, <1>5, <1>9
  <1>14. QED
    BY <1>12, <1>13

-----------------------------------------------------------------------------
(* Memory *)

LEMMA ReduceByFacts ==
    ASSUME NEW mem \in Nat, NEW used \in Nat
    PROVE  /\ ReduceBy(mem, used) \in Nat
           /\ ReduceBy(mem, used) > 0 => ReduceBy(mem, used) = mem - used
  <1> DEFINE S == {mem, used}
             x == Min(S)
  <1>1. S \in SUBSET Nat /\ S # {}
    OBVIOUS
  <1>2. x \in S /\ \A y \in S : x <= y
    <2> HIDE DEF S
    <2>1. QED
      BY <1>1, MinOf
  <1>3. ReduceBy(mem, used) = mem - x
    BY DEF ReduceBy
  <1> HIDE DEF x
  <1>4. QED
    BY <1>2, <1>3

LEMMA ElementsOf ==
    ASSUME NEW S, NEW s \in Seq(S), NEW T, \A i \in DOMAIN s : s[i] \in T
    PROVE  s \in Seq(T)
  OBVIOUS

SameButCache(x, y) ==
    x.byte_size = y.byte_size /\ x.is_io = y.is_io /\ x.contents = y.contents /\ x.input = y.input

\* What is loaded into the cache changes in nothing else.
IsCachedFrom(new, list, loaded, now) ==
    new = [l \in DOMAIN list |-> IF l \in loaded THEN [list[l] EXCEPT !.cache = now] ELSE list[l]]

SameLocs(new, list, C) ==
    /\ new \in Seq(LocOf(C)) /\ Len(new) = Len(list) /\ DOMAIN new = DOMAIN list
    /\ \A l \in DOMAIN list : SameButCache(new[l], list[l])
    /\ TotalSize(new) = TotalSize(list)

LEMMA CachedFacts ==
    ASSUME NEW C, NEW list \in Seq(LocOf(C)), NEW loaded, NEW now, NEW new, IsCachedFrom(new, list, loaded, now)
    PROVE  SameLocs(new, list, C \cup {now})
  <1>10. new = [l \in DOMAIN list |-> IF l \in loaded THEN [list[l] EXCEPT !.cache = now] ELSE list[l]]
    BY DEF IsCachedFrom
  <1>1. ASSUME NEW l \in DOMAIN list
        PROVE  new[l] \in LocOf(C \cup {now}) /\ SameButCache(new[l], list[l])
    <2>1. PICK x \in LocOf(C) : x = list[l]
      OBVIOUS
    <2>2. CASE l \in loaded
      <3>1. PICK y : y = [x EXCEPT !.cache = now]
        OBVIOUS
      <3>2. y \in LocOf(C \cup {now})
        BY <2>1, <3>1 DEF LocOf
      <3>3. y.byte_size = x.byte_size /\ y.is_io = x.is_io /\ y.contents = x.contents /\ y.input = x.input
        BY <2>1, <3>1 DEF LocOf
      <3>4. new[l] = y
        BY <1>10, <2>1, <2>2, <3>1
      <3>5. QED
        BY <2>1, <3>2, <3>3, <3>4 DEF SameButCache
    <2>3. CASE l \notin loaded
      <3>1. new[l] = x
        BY <1>10, <2>1, <2>3
      <3>2. x \in LocOf(C \cup {now})
        BY <2>1 DEF LocOf
      <3>3. QED
        BY <2>1, <3>1, <3>2 DEF SameButCache
    <2>4. QED
      BY <2>2, <2>3
  <1>2. DOMAIN list = 1..Len(list) /\ Len(list) \in Nat
    OBVIOUS
  <1> DEFINE L == LocOf(C \cup {now})
  <1>3. new \in [1..Len(list) -> L]
    BY <1>1, <1>2, <1>10
  <1> HIDE DEF L
  <1>4. new \in Seq(L) /\ Len(new) = Len(list)
    BY <1>2, <1>3
  <1>5. DOMAIN new = DOMAIN list
    BY <1>2, <1>3
  <1>6. Sized(new) /\ Sized(list)
    BY <1>4, LocsSized DEF L
  <1>7. \A l \in 1..Len(list) : new[l].byte_size = list[l].byte_size
    BY <1>1, <1>2 DEF SameButCache
  <1>8. TotalSize(new) = TotalSize(list)
    <2> DEFINE M == LocOf(C)
    <2>1. list \in Seq(M)
      OBVIOUS
    <2> HIDE DEF M
    <2>2. QED
      BY <1>4, <1>6, <1>7, <2>1, TotalSizeSame
  <1>9. QED
    BY <1>1, <1>4, <1>5, <1>8 DEF L, SameLocs

LEMMA SameFits ==
    ASSUME NEW x, NEW y, SameButCache(x, y)
    PROVE  LocFits(x) = LocFits(y)
  BY DEF SameButCache, LocFits

LEMMA SameGrown ==
    ASSUME NEW C, NEW list \in Seq(LocOf(C)), NEW new, DOMAIN new = DOMAIN list,
           \A l \in DOMAIN list : SameButCache(new[l], list[l])
    PROVE  Grown(list, new)
  <1>1. Grown(list, list)
    BY GrownSame
  <1>2. QED
    BY <1>1 DEF Grown, SameButCache

LEMMA LocFitsPrime ==
    ASSUME UNCHANGED program
    PROVE  /\ \A x : LocFits(x)' = LocFits(x)
           /\ \A l : LocFits(locs[l])' = LocFits(locs'[l])
           /\ \A C : LocOf(C)' = LocOf(C)
  <1>1. \A x : LocFits(x)' = LocFits(x)
    BY DEF LocFits, IsTmp, Size
  <1>2. \A l : LocFits(locs[l])' = LocFits(locs'[l])
    BY DEF LocFits, IsTmp, Size
  <1>3. \A C : LocOf(C)' = LocOf(C)
    BY DEF LocOf, Allocs
  <1>4. QED
    BY <1>1, <1>2, <1>3

\* What Apply does to the memory: no loc in use is touched.
LEMMA ApplyMemory ==
    ASSUME FifoTypes, NEW C, Memory(C), NEW p \in Steps, Apply(p), UNCHANGED <<program, size_goal, value_locs>>
    PROVE  /\ MemoryKept'
           /\ Len(locs') = Len(Plan(p).locs) /\ DOMAIN locs' = DOMAIN Plan(p).locs
           /\ \A l \in DOMAIN locs' : locs'[l].contents = Plan(p).locs[l].contents
           /\ \A l \in DOMAIN locs : l \notin ToSet(free_locs) =>
                 l \in DOMAIN locs' /\ l \notin ToSet(free_locs') /\ locs'[l].contents = locs[l].contents
           /\ mem_available' \in Nat
           /\ BudgetKept => BudgetKept'
           /\ Grown(locs, locs')
  <1>1. PICK plan : plan = Plan(p)
    OBVIOUS
  <1>2. IsProgram /\ mem_available \in Nat /\ size_goal \in Nat
    BY DEF FifoTypes
  <1>3. plan \in Plans(C)
    BY <1>1, <1>2, PlanFacts
  <1>4. /\ plan.outputs \in Seq(Nat) /\ plan.locs \in Seq(LocOf(C)) /\ plan.free \in Seq(DOMAIN locs)
        /\ plan.mem_needed \in Nat
        /\ Len(plan.locs) >= Len(locs)
        /\ IsInjective(plan.free) /\ ToSet(plan.free) \subseteq ToSet(free_locs)
        /\ \A m \in DOMAIN locs : m \in ToSet(plan.free) \/ m \notin ToSet(free_locs) => plan.locs[m] = locs[m]
        /\ \A m \in DOMAIN plan.locs : LocFits(plan.locs[m])
        /\ TotalSize(plan.locs) = TotalSize(locs) + plan.mem_needed
    BY <1>3 DEF Plans
  <1>5. /\ 0 \in C /\ locs \in Seq(LocOf(C))
        /\ free_locs \in Seq(DOMAIN locs)
        /\ DOMAIN value_locs \subseteq Allocs
        /\ \A a \in DOMAIN value_locs :
              value_locs[a] \in DOMAIN locs /\ value_locs[a] \notin ToSet(free_locs) /\ locs[value_locs[a]].contents = a
    BY DEF Memory
  <1>6. PICK new : new = locs'
    OBVIOUS
  <1>7. PICK now : now = memtime'
    OBVIOUS
  <1>8. PICK loaded : loaded = {value_locs[a] : a \in Inputs(p)}
    OBVIOUS
  <1>9. /\ new = [l \in DOMAIN plan.locs |-> IF l \in loaded THEN [plan.locs[l] EXCEPT !.cache = now] ELSE plan.locs[l]]
        /\ free_locs' = plan.free
        /\ mem_available' = ReduceBy(mem_available, plan.mem_needed)
    BY <1>1, <1>6, <1>7, <1>8 DEF Apply
  <1>10. /\ new \in Seq(LocOf(C \cup {now})) /\ Len(new) = Len(plan.locs) /\ DOMAIN new = DOMAIN plan.locs
         /\ \A l \in DOMAIN plan.locs : SameButCache(new[l], plan.locs[l])
         /\ TotalSize(new) = TotalSize(plan.locs)
    <2>1. PICK list \in Seq(LocOf(C)) : list = plan.locs
      BY <1>4
    <2>2. IsCachedFrom(new, list, loaded, now)
      BY <1>9, <2>1 DEF IsCachedFrom
    <2>3. SameLocs(new, list, C \cup {now})
      BY <2>2, CachedFacts
    <2>4. QED
      BY <2>1, <2>3 DEF SameLocs
  <1>11. \A l \in DOMAIN locs : l \in DOMAIN new
    BY <1>4, <1>5, <1>10
  <1>12. \A l \in DOMAIN locs : l \notin ToSet(free_locs) =>
            l \notin ToSet(plan.free) /\ new[l].contents = locs[l].contents
    BY <1>4, <1>10, <1>11 DEF SameButCache
  <1>13. \A l \in DOMAIN new : LocFits(new[l])
    BY <1>4, <1>10, SameFits
  <1>14. plan.free \in Seq(DOMAIN new)
    <2>1. \A i \in DOMAIN plan.free : plan.free[i] \in DOMAIN new
      BY <1>4, <1>11
    <2>2. QED
      BY <1>4, <2>1, ElementsOf
  <1>15. Memory(C \cup {now})'
    <2>1. 0 \in C \cup {now} /\ locs' \in Seq(LocOf(C \cup {now})')
      BY <1>5, <1>6, <1>10, LocFitsPrime
    <2>2. \A l \in DOMAIN locs' : LocFits(locs[l])'
      BY <1>6, <1>13, LocFitsPrime
    <2>3. free_locs' \in Seq(DOMAIN locs') /\ IsInjective(free_locs')
      BY <1>4, <1>6, <1>9, <1>14
    <2>4. DOMAIN value_locs' \subseteq Allocs'
      BY <1>5, SameProgram
    <2>5. \A a \in DOMAIN value_locs' :
              value_locs'[a] \in DOMAIN locs' /\ value_locs'[a] \notin ToSet(free_locs') /\ locs'[value_locs'[a]].contents = a
      BY <1>5, <1>6, <1>9, <1>11, <1>12
    <2>6. QED
      BY <2>1, <2>2, <2>3, <2>4, <2>5 DEF Memory
  <1>16. mem_available' \in Nat
    BY <1>2, <1>4, <1>9, ReduceByFacts
  <1>17. ASSUME BudgetKept PROVE BudgetKept'
    <2>1. TotalSize(locs) \in Nat
      BY <1>5, LocsSized, TotalSizeNat
    <2>2. mem_available > 0 => TotalSize(locs) + mem_available <= size_goal
      BY <1>17 DEF BudgetKept
    <2>3. mem_available' > 0 => mem_available' = mem_available - plan.mem_needed
      BY <1>2, <1>4, <1>9, ReduceByFacts
    <2>4. TotalSize(locs') = TotalSize(locs) + plan.mem_needed
      BY <1>4, <1>6, <1>10
    <2>5. mem_available' > 0 => TotalSize(locs') + mem_available' <= size_goal'
      BY <1>2, <1>4, <1>16, <2>1, <2>2, <2>3, <2>4
    <2>6. QED
      BY <2>5 DEF BudgetKept
  <1>18. MemoryKept'
    BY <1>15 DEF MemoryKept
  <1>19. \A l \in DOMAIN new : new[l].contents = plan.locs[l].contents
    BY <1>10 DEF SameButCache
  <1>20. Grown(locs, new)
    <2>1. Grown(locs, plan.locs)
      BY <1>1, <1>2, PlanFacts
    <2>2. Grown(plan.locs, new)
      BY <1>4, <1>10, SameGrown
    <2>3. QED
      BY <1>4, <1>5, <1>10, <2>1, <2>2, GrownFrom
  <1>21. QED
    BY <1>1, <1>6, <1>9, <1>10, <1>11, <1>12, <1>16, <1>17, <1>18, <1>19, <1>20

-----------------------------------------------------------------------------
(* A step is scheduled *)

\* Two steps do not update the same value.
LEMMA UpdatesOnce ==
    ASSUME IsProgram, NEW p \in Steps, NEW q \in Steps, NEW a, a \in Outputs(p), a \in Outputs(q),
           MostRecentWriter(a, p) = MostRecentWriter(a, q)
    PROVE  p = q
  <1>1. Final \in Nat /\ p \in 1..Final /\ q \in 1..Final
    BY ProgramTypes DEF Steps
  <1>2. CASE p < q
    <2>1. p \in 1..(q - 1)
      BY <1>1, <1>2
    <2>2. p <= MostRecentWriter(a, q) /\ MostRecentWriter(a, p) \in 0..(p - 1)
      BY <2>1, WriterFacts
    <2>3. QED
      BY <2>2, <1>1
  <1>3. CASE q < p
    <2>1. q \in 1..(p - 1)
      BY <1>1, <1>3
    <2>2. q <= MostRecentWriter(a, p) /\ MostRecentWriter(a, q) \in 0..(q - 1)
      BY <2>1, WriterFacts
    <2>3. QED
      BY <2>2, <1>1
  <1>4. QED
    BY <1>1, <1>2, <1>3

\* A zero step that p needs is scheduled for p alone.
LEMMA ZeroEntriesNew ==
    ASSUME FifoTypes, StepsOnce, StepsOrdered, NEW C, Memory(C), NEW p \in pending,
           NEW k \in DOMAIN ZeroEntries(p), NEW i \in DOMAIN scheduled
    PROVE  scheduled[i].step # ZeroEntries(p)[k].step
  <1> SUFFICES ASSUME scheduled[i].step = ZeroEntries(p)[k].step PROVE FALSE
    OBVIOUS
  <1>1. IsProgram /\ p \in Steps
    BY DEF FifoTypes
  <1>2. PICK a, l : Clears(ZeroEntries(p)[k], p, a, l)
    BY <1>1, ZeroEntriesFacts
  <1>3. PICK z \in Steps : z = MostRecentWriter(a, p) /\ IsZero(z) /\ scheduled[i].step = z /\ a \in Outputs(p)
    BY <1>2 DEF Clears
  <1>4. a \in Outputs(z)
    <2>1. z # 0
      BY <1>1, ProgramTypes DEF Steps
    <2>2. QED
      BY <1>1, <1>3, <2>1, WriterFacts
  <1>5. PICK u \in Steps, j \in DOMAIN scheduled :
           scheduled[j].step = u /\ \A b \in Outputs(z) : b \in Outputs(u) /\ MostRecentWriter(b, u) = z
    BY <1>3 DEF StepsOrdered
  <1>6. u = p
    BY <1>1, <1>3, <1>4, <1>5, UpdatesOnce
  <1>7. QED
    BY <1>5, <1>6 DEF StepsOnce

LEMMA ApplyParts ==
    ASSUME FifoTypes, NEW C, Memory(C), NEW p \in Steps, Apply(p)
    PROVE  \E s, n, m : AppliedParts(p, s, n, m) /\ s = scheduled' /\ running' = IF Running = {} THEN n + m + 1 ELSE running
  <1>1. scheduled' = scheduled \o ZeroEntries(p) \o <<Entry(p)>>
    BY DEF Apply, ZeroEntries, Entry
  <1>2. PICK n, m : AppliedParts(p, scheduled', n, m)
    BY <1>1, AppliedFacts
  <1>3. running' = IF Running = {} THEN Len(scheduled') ELSE running
    BY DEF Apply
  <1>4. Len(scheduled') = n + m + 1
    BY <1>2 DEF AppliedParts
  <1>5. QED
    BY <1>2, <1>3, <1>4

\* Zero steps may be skipped, but whatever else has retired did so before.
LEMMA ApplyRetired ==
    ASSUME FifoTypes, NEW C, Memory(C), NEW p \in Steps, Apply(p), UNCHANGED program
    PROVE  /\ Retired \subseteq Retired'
           /\ \A q \in Retired' : q \in Retired \/ (q \in Steps /\ IsZero(q))
           /\ running' \in 1..Len(scheduled')
           /\ scheduled' \in Seq(Entries')
  <1>1. PICK s, n, m : AppliedParts(p, s, n, m) /\ s = scheduled' /\ running' = IF Running = {} THEN n + m + 1 ELSE running
    BY ApplyParts
  <1>2. /\ n \in Nat /\ m \in Nat /\ n = Len(scheduled) /\ Len(s) = n + m + 1
        /\ s \in Seq(Entries)
        /\ \A i \in 1..n : s[i] = scheduled[i]
        /\ \A i \in (n + 1)..(n + m) : \E a, l : Clears(s[i], p, a, l)
    BY <1>1 DEF AppliedParts
  <1>3. running \in Nat /\ running >= 1 /\ running <= n + 1 /\ (Running = {} <=> running = n + 1)
    BY <1>2, RetiredFacts DEF FifoTypes
  <1>4. running' \in 1..(n + m + 1) /\ running' >= running
    BY <1>1, <1>2, <1>3
  <1>5. Retired' = {s[i].step : i \in 1..(running' - 1)}
    BY <1>1 DEF Retired
  <1>6. Retired \subseteq Retired'
    <2> SUFFICES ASSUME NEW i \in 1..(running - 1) PROVE scheduled[i].step \in Retired'
      BY DEF Retired
    <2>1. i \in 1..(running' - 1) /\ i \in 1..n
      BY <1>2, <1>3, <1>4
    <2>2. s[i] = scheduled[i]
      BY <1>2, <2>1
    <2>3. QED
      BY <1>5, <2>1, <2>2
  <1>7. ASSUME NEW q \in Retired' PROVE q \in Retired \/ (q \in Steps /\ IsZero(q))
    <2>5. PICK r : r = running'
      OBVIOUS
    <2>6. r \in 1..(n + m + 1)
      BY <1>4, <2>5
    <2>1. PICK i \in 1..(r - 1) : q = s[i].step
      BY <1>5, <2>5
    <2>2. CASE i <= n
      <3>1. i \in 1..n
        BY <1>2, <2>6, <2>2
      <3>2. i \in 1..(running - 1)
        BY <1>1, <1>2, <1>3, <2>2, <2>5
      <3>3. s[i] = scheduled[i]
        BY <1>2, <3>1
      <3>4. QED
        BY <2>1, <3>2, <3>3 DEF Retired
    <2>3. CASE i > n
      <3>1. i \in (n + 1)..(n + m)
        BY <1>2, <2>6, <2>3
      <3>2. PICK a, l : Clears(s[i], p, a, l)
        BY <1>2, <3>1
      <3>3. QED
        BY <2>1, <3>2 DEF Clears
    <2>4. QED
      BY <1>2, <2>6, <2>2, <2>3
  <1>8. Entries' = Entries
    BY SameProgram DEF Entries
  <1>9. QED
    BY <1>1, <1>2, <1>4, <1>6, <1>7, <1>8


\* All that did something to the outputs of a runnable step before has retired.
LEMMA RunnableFacts ==
    ASSUME FifoTypes, StepsOrdered, NEW p \in Runnable
    PROVE  /\ p \in Steps /\ p \in pending /\ ~IsZero(p)
           /\ Dependencies(p) \subseteq Retired
           /\ \A a \in Outputs(p) : \A q \in 1..(p - 1) : a \in Outputs(q) /\ ~IsZero(q) => q \in Retired
  <1>1. p \in pending /\ Dependencies(p) \subseteq Retired
    BY DEF Runnable
  <1>2. IsProgram /\ p \in Steps /\ ~IsZero(p)
    BY <1>1 DEF FifoTypes
  <1>3. ASSUME NEW a \in Outputs(p), NEW q \in 1..(p - 1), a \in Outputs(q), ~IsZero(q)
        PROVE  q \in Retired
    <2>1. PICK w : w = MostRecentWriter(a, p)
      OBVIOUS
    <2>2. w \in 0..(p - 1) /\ q <= w
      BY <1>2, <1>3, <2>1, WriterFacts
    <2>3. p \in Nat
      BY <1>2, ProgramTypes DEF Steps
    <2>4. w # 0
      BY <2>2, <2>3
    <2>5. w \in Steps /\ a \in Outputs(w)
      BY <1>2, <2>1, <2>4, WriterFacts
    <2>6. CASE q = w
      <3>1. w \in Dependencies(p)
        BY <1>2, <1>3, <2>1, <2>4, <2>6, DependencyFacts
      <3>2. QED
        BY <3>1, <1>1, <2>6
    <2>7. CASE q # w
      <3>1. q \in 1..(w - 1)
        BY <2>2, <2>3, <2>7
      <3>2. ~IsZero(w)
        BY <1>2, <1>3, <2>5, <3>1, ZeroFacts
      <3>3. w \in Retired
        BY <1>1, <1>2, <2>1, <2>4, <3>2, DependencyFacts
      <3>4. PICK i \in DOMAIN scheduled : scheduled[i].step = w
        BY <3>3, RetiredFacts
      <3>5. QED
        BY <1>3, <2>5, <3>1, <3>4 DEF StepsOrdered
    <2>8. QED
      BY <2>6, <2>7
  <1>4. QED
    BY <1>1, <1>2, <1>3

LEMMA Positions ==
    ASSUME NEW p, NEW s, NEW n, NEW m, AppliedParts(p, s, n, m), NEW i \in DOMAIN s
    PROVE  \/ i \in 1..n /\ i \in DOMAIN scheduled /\ s[i] = scheduled[i]
           \/ /\ i \in (n + 1)..(n + m) /\ i - n \in DOMAIN ZeroEntries(p) /\ s[i] = ZeroEntries(p)[i - n]
              /\ \E a, l : Clears(s[i], p, a, l)
           \/ i = n + m + 1 /\ s[i] = Entry(p) /\ s[i].step = p
  <1>1. /\ n \in Nat /\ m \in Nat /\ DOMAIN ZeroEntries(p) = 1..m /\ DOMAIN scheduled = 1..n
        /\ i \in 1..(n + m + 1)
        /\ \A k \in 1..n : s[k] = scheduled[k]
        /\ s[n + m + 1] = Entry(p)
        /\ \A k \in (n + 1)..(n + m) :
              k - n \in 1..m /\ s[k] = ZeroEntries(p)[k - n] /\ \E a, l : Clears(s[k], p, a, l)
    BY DEF AppliedParts
  <1>2. i \in 1..n \/ i \in (n + 1)..(n + m) \/ i = n + m + 1
    BY <1>1
  <1>3. Entry(p).step = p
    BY DEF Entry
  <1>4. QED
    BY <1>1, <1>2, <1>3

\* What is cleared is cleared by a zero step, for p.
LEMMA ClearsFacts ==
    ASSUME IsProgram, NEW p \in Steps, NEW e, NEW a, NEW l, Clears(e, p, a, l)
    PROVE  /\ e.step \in Steps /\ IsZero(e.step) /\ e.outputs = <<l>>
           /\ Outputs(e.step) = {a} /\ Len(StepOf(e.step).outputs) = 1 /\ StepOf(e.step).outputs[1] = a
           /\ a \in Outputs(p) /\ MostRecentWriter(a, p) = e.step
           /\ Inputs(e.step) = {} /\ Dependencies(e.step) = {}
           /\ \A q \in 1..(e.step - 1) : a \notin Outputs(q)
  <1>1. PICK z \in Steps : z = e.step /\ z = MostRecentWriter(a, p) /\ IsZero(z) /\ a \in Outputs(p) /\ e.outputs = <<l>>
    BY DEF Clears
  <1>2. z # 0
    BY ProgramTypes DEF Steps
  <1>3. a \in Outputs(z)
    BY <1>1, <1>2, WriterFacts
  <1>4. /\ Inputs(z) = {}
        /\ Outputs(z) = {a} /\ Len(StepOf(z).outputs) = 1 /\ StepOf(z).outputs[1] = a
        /\ MostRecentWriter(a, z) = 0
        /\ \A q \in 1..(z - 1) : a \notin Outputs(q)
    BY <1>1, <1>3, ZeroFacts
  <1>5. Dependencies(z) = {}
    <2>1. \A b \in Outputs(z) : MostRecentWriter(b, z) = 0
      BY <1>4
    <2>2. QED
      BY <1>4, <2>1 DEF Dependencies
  <1>6. QED
    BY <1>1, <1>4, <1>5

\* Apply(p) puts a step that is not there yet at the end.
Applied(p, C) ==
    /\ FifoTypes /\ Memory(C) /\ StepsOnce /\ StepsOrdered /\ p \in Runnable
    /\ Apply(p) /\ UNCHANGED <<program, size_goal, value_locs, refs>>

LEMMA ApplyOnce ==
    ASSUME NEW C, NEW p, Applied(p, C)
    PROVE  StepsOnce'
  <1>1. /\ FifoTypes /\ IsProgram /\ Memory(C) /\ StepsOnce /\ StepsOrdered
        /\ p \in Steps /\ p \in pending /\ ~IsZero(p)
        /\ Apply(p) /\ UNCHANGED program
    BY RunnableFacts DEF Applied, FifoTypes
  <1>2. PICK s, n, m : AppliedParts(p, s, n, m) /\ s = scheduled'
    BY <1>1, ApplyParts
  <1>3. pending' = pending \ {p}
    BY <1>1 DEF Apply
  <1>4. Steps' = Steps /\ \A q : IsZero(q)' = IsZero(q)
    BY <1>1, SameProgram
  <1>5. /\ n \in Nat /\ m \in Nat /\ DOMAIN s = 1..(n + m + 1) /\ DOMAIN scheduled = 1..n
        /\ \A i \in 1..n : s[i] = scheduled[i]
        /\ s[n + m + 1].step = p
    BY <1>2 DEF AppliedParts, Entry
  <1>6. ASSUME NEW q \in Steps, ~IsZero(q)
        PROVE  q \in pending' \/ \E i \in DOMAIN s : s[i].step = q
    <2>1. CASE q = p
      BY <1>5, <2>1
    <2>2. CASE q # p
      <3>1. q \in pending \/ \E i \in DOMAIN scheduled : scheduled[i].step = q
        BY <1>1, <1>6 DEF StepsOnce
      <3>2. \A i \in DOMAIN scheduled : i \in DOMAIN s /\ s[i] = scheduled[i]
        BY <1>5
      <3>3. QED
        BY <1>3, <2>2, <3>1, <3>2
    <2>3. QED
      BY <2>1, <2>2
  <1>7. ASSUME NEW i \in DOMAIN s PROVE s[i].step \notin pending'
    <2>1. CASE i \in DOMAIN scheduled /\ s[i] = scheduled[i]
      <3>1. scheduled[i].step \in Steps
        BY <1>1, <2>1, RetiredFacts DEF Entries
      <3>2. QED
        BY <1>1, <1>3, <2>1, <3>1 DEF StepsOnce
    <2>2. CASE \E a, l : Clears(s[i], p, a, l)
      <3>1. IsZero(s[i].step)
        BY <1>1, <2>2, ClearsFacts
      <3>2. QED
        BY <1>1, <1>3, <3>1 DEF FifoTypes
    <2>3. QED
      BY <1>2, <1>3, <2>1, <2>2, Positions
  <1>8. ASSUME NEW i \in DOMAIN s, NEW j \in DOMAIN s, i < j, s[i].step = s[j].step
        PROVE  FALSE
    <2>1. CASE i \in DOMAIN scheduled /\ s[i] = scheduled[i]
      <3>0. scheduled[i].step \in Steps
        BY <1>1, <2>1, RetiredFacts DEF Entries
      <3>1. CASE j \in DOMAIN scheduled /\ s[j] = scheduled[j]
        <4>1. i = j
          BY <1>1, <1>8, <2>1, <3>0, <3>1 DEF StepsOnce
        <4>2. QED
          BY <1>5, <1>8, <4>1
      <3>2. CASE j - n \in DOMAIN ZeroEntries(p) /\ s[j] = ZeroEntries(p)[j - n]
        BY <1>1, <1>8, <2>1, <3>2, ZeroEntriesNew
      <3>3. CASE s[j].step = p
        BY <1>1, <1>8, <2>1, <3>0, <3>3 DEF StepsOnce
      <3>4. QED
        BY <1>2, <3>1, <3>2, <3>3, Positions
    <2>2. CASE /\ i \in (n + 1)..(n + m) /\ i - n \in DOMAIN ZeroEntries(p) /\ s[i] = ZeroEntries(p)[i - n]
               /\ \E a, l : Clears(s[i], p, a, l)
      <3>0. IsZero(s[i].step)
        BY <1>1, <2>2, ClearsFacts
      <3>1. j \notin 1..n
        BY <1>5, <1>8, <2>2
      <3>2. CASE j - n \in DOMAIN ZeroEntries(p) /\ s[j] = ZeroEntries(p)[j - n]
        <4>1. i - n = j - n
          BY <1>1, <1>8, <2>2, <3>2, ZeroEntriesFacts
        <4>2. QED
          BY <1>5, <1>8, <4>1
      <3>3. CASE s[j].step = p
        BY <1>1, <1>8, <3>0, <3>3
      <3>4. QED
        BY <1>2, <3>1, <3>2, <3>3, Positions
    <2>3. CASE i = n + m + 1
      BY <1>5, <1>8, <2>3
    <2>4. QED
      BY <1>2, <2>1, <2>2, <2>3, Positions
  <1>9. ASSUME NEW i \in DOMAIN s, NEW j \in DOMAIN s, s[i].step = s[j].step
        PROVE  j = i
    <2>1. i \in Nat /\ j \in Nat
      BY <1>5
    <2>2. QED
      BY <2>1, <1>8, <1>9
  <1>10. QED
    BY <1>2, <1>4, <1>6, <1>7, <1>9 DEF StepsOnce

LEMMA ApplyOrdered ==
    ASSUME NEW C, NEW p, Applied(p, C)
    PROVE  StepsOrdered'
  <1>1. /\ FifoTypes /\ IsProgram /\ Memory(C) /\ StepsOnce /\ StepsOrdered
        /\ p \in Steps /\ p \in pending /\ ~IsZero(p) /\ p \in Runnable
        /\ Apply(p) /\ UNCHANGED program
    BY RunnableFacts DEF Applied, FifoTypes
  <1>2. PICK s, n, m : AppliedParts(p, s, n, m) /\ s = scheduled'
    BY <1>1, ApplyParts
  <1>3. Retired \subseteq Retired'
    BY <1>1, ApplyRetired
  <1>5. /\ n \in Nat /\ m \in Nat /\ DOMAIN s = 1..(n + m + 1) /\ DOMAIN scheduled = 1..n
        /\ \A i \in 1..n : s[i] = scheduled[i]
        /\ s[n + m + 1].step = p
    BY <1>2 DEF AppliedParts, Entry
  <1>6. ASSUME NEW q \in Steps, NEW i \in DOMAIN s, s[i].step = q
        PROVE  /\ Dependencies(q) \subseteq Retired'
               /\ \A a \in Outputs(q) : \A r \in 1..(q - 1) : a \in Outputs(r) /\ ~IsZero(r) => r \in Retired'
               /\ IsZero(q) => \E u \in Steps : \E j \in DOMAIN s :
                                  /\ j > i /\ s[j].step = u
                                  /\ \A a \in Outputs(q) : a \in Outputs(u) /\ MostRecentWriter(a, u) = q
    <2>1. CASE i \in DOMAIN scheduled /\ s[i] = scheduled[i]
      <3>1. /\ Dependencies(q) \subseteq Retired
            /\ \A a \in Outputs(q) : \A r \in 1..(q - 1) : a \in Outputs(r) /\ ~IsZero(r) => r \in Retired
            /\ IsZero(q) => \E u \in Steps : \E j \in DOMAIN scheduled :
                               /\ j > i /\ scheduled[j].step = u
                               /\ \A a \in Outputs(q) : a \in Outputs(u) /\ MostRecentWriter(a, u) = q
        BY <1>1, <1>6, <2>1 DEF StepsOrdered
      <3>2. \A j \in DOMAIN scheduled : j \in DOMAIN s /\ s[j] = scheduled[j]
        BY <1>5
      <3>3. QED
        BY <1>3, <3>1, <3>2
    <2>2. CASE i \in (n + 1)..(n + m) /\ \E a, l : Clears(s[i], p, a, l)
      <3>1. PICK a, l : Clears(s[i], p, a, l)
        BY <2>2
      <3>2. /\ IsZero(q) /\ Outputs(q) = {a} /\ a \in Outputs(p) /\ MostRecentWriter(a, p) = q
            /\ Dependencies(q) = {} /\ \A r \in 1..(q - 1) : a \notin Outputs(r)
        BY <1>1, <1>6, <3>1, ClearsFacts
      <3>3. n + m + 1 > i /\ n + m + 1 \in DOMAIN s
        BY <1>5, <2>2
      <3>4. \E u \in Steps : \E j \in DOMAIN s :
               /\ j > i /\ s[j].step = u
               /\ \A b \in Outputs(q) : b \in Outputs(u) /\ MostRecentWriter(b, u) = q
        BY <1>1, <1>5, <3>2, <3>3
      <3>5. QED
        BY <3>2, <3>4
    <2>3. CASE q = p
      BY <1>1, <1>3, <2>3, RunnableFacts
    <2>4. QED
      BY <1>2, <1>6, <2>1, <2>2, <2>3, Positions
  <1>7. /\ Steps' = Steps
        /\ \A q : /\ Outputs(q)' = Outputs(q) /\ IsZero(q)' = IsZero(q) /\ Dependencies(q)' = Dependencies(q)
                  /\ \A a : MostRecentWriter(a, q)' = MostRecentWriter(a, q)
    BY <1>1, SameProgram
  <1>8. QED
    BY <1>2, <1>6, <1>7 DEF StepsOrdered

LEMMA ApplyHeld ==
    ASSUME NEW C, NEW p, Applied(p, C), OutputsHeld
    PROVE  OutputsHeld'
  <1>1. /\ FifoTypes /\ IsProgram /\ Memory(C) /\ StepsOnce /\ StepsOrdered
        /\ p \in Steps /\ p \in pending /\ ~IsZero(p) /\ p \in Runnable
        /\ Apply(p) /\ UNCHANGED <<program, size_goal, value_locs>> /\ OutputsHeld
    BY RunnableFacts DEF Applied, FifoTypes
  <1>2. PICK s, n, m : /\ AppliedParts(p, s, n, m) /\ s = scheduled'
                       /\ running' = IF Running = {} THEN n + m + 1 ELSE running
    BY <1>1, ApplyParts
  <1>3. /\ DOMAIN locs' = DOMAIN Plan(p).locs
        /\ \A l \in DOMAIN locs' : locs'[l].contents = Plan(p).locs[l].contents
        /\ \A l \in DOMAIN locs : l \notin ToSet(free_locs) =>
              l \in DOMAIN locs' /\ l \notin ToSet(free_locs') /\ locs'[l].contents = locs[l].contents
    BY <1>1, ApplyMemory
  <1>4. free_locs' = Plan(p).free
    BY <1>1 DEF Apply
  <1>5. /\ n \in Nat /\ m \in Nat /\ DOMAIN s = 1..(n + m + 1) /\ DOMAIN scheduled = 1..n
        /\ \A i \in 1..n : s[i] = scheduled[i]
        /\ Len(s) = n + m + 1 /\ s[n + m + 1] = Entry(p)
    BY <1>2 DEF AppliedParts
  <1>6. ASSUME NEW q \in Steps, NEW i \in DOMAIN s, i >= running', s[i].step = q
        PROVE  /\ Len(s[i].outputs) = Len(StepOf(q).outputs)
               /\ \A k \in 1..Len(StepOf(q).outputs) :
                     /\ s[i].outputs[k] \in DOMAIN locs' /\ s[i].outputs[k] \notin ToSet(free_locs')
                     /\ locs'[s[i].outputs[k]].contents = StepOf(q).outputs[k]
    <2>1. CASE i \in DOMAIN scheduled /\ s[i] = scheduled[i]
      <3>1. i >= running
        BY <1>2, <1>5, <1>6, <2>1
      <3>2. i \in Running
        BY <1>1, <2>1, <3>1, RetiredFacts
      <3>3. /\ Len(s[i].outputs) = Len(StepOf(q).outputs)
            /\ \A k \in 1..Len(StepOf(q).outputs) :
                  /\ s[i].outputs[k] \in DOMAIN locs /\ s[i].outputs[k] \notin ToSet(free_locs)
                  /\ locs[s[i].outputs[k]].contents = StepOf(q).outputs[k]
        BY <1>1, <1>6, <2>1, <3>2 DEF OutputsHeld
      <3>4. QED
        BY <1>3, <3>3
    <2>2. CASE \E a, l : Clears(s[i], p, a, l)
      <3>1. PICK a, l : Clears(s[i], p, a, l)
        BY <2>2
      <3>2. /\ s[i].outputs = <<l>> /\ Len(StepOf(q).outputs) = 1 /\ StepOf(q).outputs[1] = a
        BY <1>1, <1>6, <3>1, ClearsFacts
      <3>3. l \in DOMAIN Plan(p).locs /\ l \notin ToSet(Plan(p).free) /\ Plan(p).locs[l].contents = a
        BY <3>1 DEF Clears
      <3>4. QED
        BY <1>3, <1>4, <3>2, <3>3
    <2>3. CASE s[i] = Entry(p) /\ q = p
      <3>1. PICK plan : plan = Plan(p)
        OBVIOUS
      <3>2. PlanOf(plan, p, Len(StepOf(p).outputs)) /\ s[i].outputs = plan.outputs
        BY <1>1, <2>3, <3>1, PlanFacts DEF Entry
      <3>3. /\ Len(plan.outputs) = Len(StepOf(p).outputs)
            /\ \A k \in 1..Len(StepOf(p).outputs) :
                  /\ plan.outputs[k] \in DOMAIN plan.locs /\ plan.outputs[k] \notin ToSet(plan.free)
                  /\ plan.locs[plan.outputs[k]].contents = StepOf(p).outputs[k]
        BY <3>2 DEF PlanOf
      <3>4. QED
        BY <1>3, <1>4, <2>3, <3>1, <3>2, <3>3
    <2>4. QED
      BY <1>2, <1>6, <2>1, <2>2, <2>3, Positions
  <1>7. Steps' = Steps /\ \A q : StepOf(q)' = StepOf(q)
    BY <1>1, SameProgram
  <1>8. \A i \in Running' : i \in DOMAIN s /\ i >= running'
    <2>1. running' \in 1..Len(scheduled')
      BY <1>1, ApplyRetired
    <2>2. PICK r : r = running'
      OBVIOUS
    <2>3. Running' = r..(n + m + 1) /\ r \in 1..(n + m + 1)
      BY <1>2, <1>5, <2>1, <2>2 DEF Running
    <2>4. \A i \in r..(n + m + 1) : i \in 1..(n + m + 1) /\ i >= r
      BY <1>5, <2>3
    <2>5. QED
      BY <1>5, <2>2, <2>3, <2>4
  <1>9. ASSUME NEW q \in Steps, NEW i \in Running', s[i].step = q
        PROVE  /\ Len(s[i].outputs) = Len(StepOf(q).outputs)
               /\ \A k \in 1..Len(StepOf(q).outputs) :
                     /\ s[i].outputs[k] \in DOMAIN locs' /\ s[i].outputs[k] \notin ToSet(free_locs')
                     /\ locs'[s[i].outputs[k]].contents = StepOf(q).outputs[k]
    BY <1>6, <1>8, <1>9
  <1>10. QED
    BY <1>2, <1>7, <1>9 DEF OutputsHeld

\* A zero step that is passed over has read nothing.
LEMMA ApplyReaders ==
    ASSUME NEW C, NEW p, Applied(p, C)
    PROVE  /\ \A a : Readers(a)' = Readers(a)
           /\ ReadersCounted => ReadersCounted'
           /\ ValuesAlive => ValuesAlive'
  <1>1. /\ FifoTypes /\ IsProgram /\ Memory(C) /\ p \in Steps
        /\ Apply(p) /\ UNCHANGED program
    BY RunnableFacts DEF Applied, FifoTypes
  <1>2. Retired \subseteq Retired' /\ \A q \in Retired' : q \in Retired \/ (q \in Steps /\ IsZero(q))
    BY <1>1, ApplyRetired
  <1>3. /\ Steps' = Steps /\ Allocs' = Allocs /\ Final' = Final
        /\ \A q : Inputs(q)' = Inputs(q) /\ Outputs(q)' = Outputs(q) /\ IsZero(q)' = IsZero(q)
        /\ \A a : IsInput(a)' = IsInput(a)
    BY <1>1, SameProgram
  <1>4. ASSUME NEW a PROVE Readers(a)' = Readers(a)
    <2>1. ASSUME NEW q \in Steps, a \in Inputs(q)
          PROVE  q \in Retired' <=> q \in Retired
      <3>1. ~IsZero(q)
        BY <1>1, <2>1, ZeroFacts
      <3>2. QED
        BY <1>2, <3>1
    <2>2. Readers(a)' = {q \in Steps : a \in Inputs(q) /\ q \notin Retired'}
      BY <1>3 DEF Readers
    <2>3. QED
      BY <2>1, <2>2 DEF Readers
  <1>5. (refs = refs' /\ value_locs' = value_locs)
    BY DEF Applied
  <1>6. ReadersCounted => ReadersCounted'
    <2>1. ASSUME ReadersCounted, NEW a \in Allocs
          PROVE  refs'[a] = Cardinality(Readers(a)') + (IF a \in Inputs(Final) THEN 1 ELSE 0)
      <3>1. refs[a] = Cardinality(Readers(a)) + (IF a \in Inputs(Final) THEN 1 ELSE 0)
        BY <2>1 DEF ReadersCounted
      <3>2. QED
        BY <1>4, <1>5, <3>1
    <2>2. Inputs(Final)' = Inputs(Final)
      BY <1>3
    <2>3. ReadersCounted => refs' \in [Allocs' -> Nat]
      BY <1>3, <1>5 DEF ReadersCounted
    <2>4. QED
      BY <1>3, <2>1, <2>2, <2>3 DEF ReadersCounted
  <1>7. ASSUME ValuesAlive, NEW a \in Allocs, Readers(a)' # {},
               IsInput(a) \/ \E q \in Retired' : ~IsZero(q) /\ a \in Outputs(q)
        PROVE  a \in DOMAIN value_locs'
    <2>1. Readers(a) # {}
      BY <1>4, <1>7
    <2>2. IsInput(a) \/ \E q \in Retired : ~IsZero(q) /\ a \in Outputs(q)
      BY <1>2, <1>7
    <2>3. QED
      BY <1>5, <1>7, <2>1, <2>2 DEF ValuesAlive
  <1>8. ValuesAlive => ValuesAlive'
    BY <1>3, <1>7 DEF ValuesAlive
  <1>9. QED
    BY <1>4, <1>6, <1>8

LEMMA FifoInvParts ==
    ASSUME FifoInv
    PROVE  /\ FifoTypes /\ IsProgram /\ StepsOnce /\ StepsOrdered /\ OutputsHeld /\ ReadersCounted /\ ValuesAlive
           /\ BudgetKept /\ NoEmptyTurn
           /\ \E C : Memory(C)
  BY DEF FifoInv, FifoTypes, MemoryKept

LEMMA EligibleFacts ==
    ASSUME FifoInv
    PROVE  /\ IsFiniteSet(Eligible) /\ Eligible \subseteq Runnable
           /\ \A p \in Eligible : MemNeeded(p) \in Nat
  <1>1. IsProgram /\ \E C : Memory(C)
    BY FifoInvParts
  <1>2. Runnable \subseteq Steps /\ Eligible \subseteq Runnable
    BY FifoInvParts DEF Runnable, FifoTypes, Eligible
  <1>3. IsFiniteSet(Steps)
    BY <1>1, ProgramTypes, FS_Interval DEF Steps
  <1>4. ASSUME NEW p \in Eligible PROVE MemNeeded(p) \in Nat
    <2>1. PICK C : Memory(C)
      BY <1>1
    <2>2. Plan(p) \in Plans(C)
      BY <1>1, <1>2, <2>1, PlanFacts
    <2>3. QED
      BY <2>2 DEF Plans, MemNeeded
  <1>5. QED
    BY <1>2, <1>3, <1>4, FS_Subset

\* What ScheduleStep schedules.
LEMMA ScheduledStep ==
    ASSUME FifoInv, ScheduleStep
    PROVE  \E C : \E p \in Eligible :
              /\ Applied(p, C)
              /\ MemNeeded(p) <= mem_available \/ \A q \in Eligible : mem_available < MemNeeded(q)
  <1>1. PICK C : Memory(C)
    BY FifoInvParts
  <1>2. PICK p \in Best : Apply(p)
    BY DEF ScheduleStep
  <1>3. PICK order \in SetToSeqs(Eligible) : p = BestOf(order)
    BY <1>2 DEF Best
  <1>4. Eligible # {} /\ mem_available \in Nat
    BY FifoInvParts DEF ScheduleStep, FifoTypes
  <1>5. /\ p \in Eligible
        /\ MemNeeded(p) <= mem_available \/ \A q \in Eligible : mem_available < MemNeeded(q)
    BY <1>3, <1>4, EligibleFacts, BestFacts
  <1>6. Applied(p, C)
    BY <1>1, <1>2, <1>5, EligibleFacts, FifoInvParts DEF Applied, ScheduleStep
  <1>7. QED
    BY <1>5, <1>6

LEMMA ScheduleStepKeeps ==
    ASSUME FifoInv, ScheduleStep
    PROVE  FifoInv'
  <1>1. PICK C, p : p \in Eligible /\ Applied(p, C)
    BY ScheduledStep
  <1>2. /\ FifoTypes /\ IsProgram /\ Memory(C) /\ StepsOnce /\ StepsOrdered
        /\ OutputsHeld /\ ReadersCounted /\ ValuesAlive /\ BudgetKept
        /\ p \in Steps /\ p \in Runnable
        /\ Apply(p) /\ UNCHANGED <<program, size_goal, value_locs>> /\ UNCHANGED program
    BY <1>1, RunnableFacts, FifoInvParts DEF Applied
  <1>3. StepsOnce' /\ StepsOrdered' /\ OutputsHeld' /\ ReadersCounted' /\ ValuesAlive'
    BY <1>1, <1>2, ApplyOnce, ApplyOrdered, ApplyHeld, ApplyReaders
  <1>4. MemoryKept' /\ BudgetKept' /\ mem_available' \in Nat
    BY <1>2, ApplyMemory
  <1>5. running' \in 1..Len(scheduled') /\ scheduled' \in Seq(Entries')
    BY <1>2, ApplyRetired
  <1>6. FifoTypes'
    <2>1. IsProgram' /\ Steps' = Steps /\ \A q : IsZero(q)' = IsZero(q)
      BY <1>2, SameProgram
    <2>2. pending' \subseteq {q \in Steps : ~IsZero(q)}
      BY <1>2 DEF Apply, FifoTypes
    <2>3. pending' \subseteq {q \in Steps' : ~IsZero(q)'}
      BY <2>1, <2>2
    <2>4. size_goal' \in Nat
      BY <1>2 DEF FifoTypes
    <2>5. phase' \in {"schedule", "retire", "finalize", "done"}
      BY DEF ScheduleStep
    <2>6. running' \in 1..(Len(scheduled') + 1)
      <3>1. PICK n \in Nat : n = Len(scheduled')
        BY <1>5
      <3>2. PICK r : r = running'
        OBVIOUS
      <3>3. r \in 1..n
        BY <1>5, <3>1, <3>2
      <3>4. r \in 1..(n + 1)
        BY <3>3
      <3>5. QED
        BY <3>1, <3>2, <3>4
    <2>7. QED
      BY <1>4, <1>5, <2>1, <2>3, <2>4, <2>5, <2>6 DEF FifoTypes
  <1>7. NoEmptyTurn'
    <2>1. PICK n \in Nat : n = Len(scheduled')
      BY <1>5
    <2>2. PICK r : r = running'
      OBVIOUS
    <2>3. r \in 1..n
      BY <1>5, <2>1, <2>2
    <2>4. r \in r..n
      BY <2>3
    <2>5. Running' = r..n
      BY <2>1, <2>2 DEF Running
    <2>6. QED
      BY <2>4, <2>5 DEF NoEmptyTurn
  <1>8. QED
    BY <1>3, <1>4, <1>6, <1>7 DEF FifoInv

-----------------------------------------------------------------------------
(* Nothing is scheduled, and the end *)

fifoState == <<program, size_goal, locs, value_locs, free_locs, refs, mem_available, pending, scheduled, running>>

\* FifoInv without the conjuncts about phase.
StateInv ==
    /\ IsProgram
    /\ size_goal \in Nat /\ mem_available \in Nat
    /\ pending \subseteq {p \in Steps : ~IsZero(p)}
    /\ scheduled \in Seq(Entries)
    /\ running \in 1..(Len(scheduled) + 1)
    /\ MemoryKept /\ StepsOnce /\ StepsOrdered /\ OutputsHeld /\ ReadersCounted /\ ValuesAlive
    /\ BudgetKept

LEMMA StateInvParts ==
    FifoInv <=> StateInv /\ phase \in {"schedule", "retire", "finalize", "done"} /\ NoEmptyTurn
  BY DEF FifoInv, StateInv, FifoTypes

LEMMA SameState ==
    ASSUME StateInv, UNCHANGED fifoState
    PROVE  StateInv' /\ Running' = Running
  <1>1. UNCHANGED <<program, size_goal, locs, value_locs, free_locs, refs, mem_available, pending, scheduled, running>>
    BY DEF fifoState
  <1>2. /\ Final' = Final /\ Steps' = Steps /\ Allocs' = Allocs
        /\ \A a : IsInput(a)' = IsInput(a)
        /\ \A p : /\ StepOf(p)' = StepOf(p) /\ Inputs(p)' = Inputs(p) /\ Outputs(p)' = Outputs(p)
                  /\ IsZero(p)' = IsZero(p)
                  /\ \A a : MostRecentWriter(a, p)' = MostRecentWriter(a, p)
                  /\ Dependencies(p)' = Dependencies(p)
        /\ IsProgram' = IsProgram
    BY <1>1, SameProgram
  <1>3. Running' = Running /\ Retired' = Retired
    BY <1>1 DEF Running, Retired
  <1>4. MemoryKept'
    <2>1. PICK C : Memory(C)
      BY DEF StateInv, MemoryKept
    <2>2. Memory(C)'
      BY <1>1, <1>2, <2>1, LocFitsPrime DEF Memory
    <2>3. QED
      BY <2>2 DEF MemoryKept
  <1>5. StepsOnce'
    BY <1>1, <1>2 DEF StateInv, StepsOnce
  <1>6. StepsOrdered'
    BY <1>1, <1>2, <1>3 DEF StateInv, StepsOrdered
  <1>7. OutputsHeld'
    BY <1>1, <1>2, <1>3 DEF StateInv, OutputsHeld
  <1>8. \A a : Readers(a)' = Readers(a)
    BY <1>2, <1>3 DEF Readers
  <1>9. ReadersCounted'
    <2>1. \A a \in Allocs : refs'[a] = Cardinality(Readers(a)') + (IF a \in Inputs(Final)' THEN 1 ELSE 0)
      BY <1>1, <1>2, <1>8 DEF StateInv, ReadersCounted
    <2>2. refs' \in [Allocs' -> Nat]
      BY <1>1, <1>2 DEF StateInv, ReadersCounted
    <2>3. QED
      BY <1>2, <2>1, <2>2 DEF ReadersCounted
  <1>10. ValuesAlive'
    BY <1>1, <1>2, <1>3, <1>8 DEF StateInv, ValuesAlive
  <1>11. BudgetKept'
    BY <1>1 DEF StateInv, BudgetKept
  <1>12. Entries' = Entries
    BY <1>2 DEF Entries
  <1>13. size_goal' \in Nat /\ mem_available' \in Nat /\ pending' \subseteq {p \in Steps' : ~IsZero(p)'}
    BY <1>1, <1>2 DEF StateInv
  <1>14. scheduled' \in Seq(Entries') /\ running' \in 1..(Len(scheduled') + 1)
    BY <1>1, <1>12 DEF StateInv
  <1>15. QED
    BY <1>2, <1>3, <1>4, <1>5, <1>6, <1>7, <1>9, <1>10, <1>11, <1>13, <1>14 DEF StateInv

\* The first of the pending steps waits for nothing that is not running.
LEMMA FirstPendingEligible ==
    ASSUME FifoInv, Running = {}, pending # {}
    PROVE  Eligible # {}
  <1>1. /\ IsProgram /\ FifoTypes /\ StepsOnce /\ pending \subseteq {p \in Steps : ~IsZero(p)}
        /\ Final \in Nat
    BY FifoInvParts, ProgramTypes DEF FifoTypes
  <1>2. pending \in SUBSET Nat
    BY <1>1 DEF Steps
  <1>3. PICK p \in pending : \A q \in pending : p <= q
    BY <1>2, FirstNumber
  <1>4. p \in Steps /\ p \in Nat
    BY <1>1, <1>2
  <1>5. ASSUME NEW q \in Dependencies(p)
        PROVE  q \in Retired /\ ~IsZero(q)
    <2>1. q \in 1..(p - 1) /\ ~IsZero(q)
      BY <1>1, <1>4, DependencyFacts
    <2>2. q \notin pending
      BY <1>3, <1>4, <2>1
    <2>3. q \in Steps
      BY <1>1, <1>4, <2>1 DEF Steps
    <2>4. PICK i \in DOMAIN scheduled : scheduled[i].step = q
      BY <1>1, <2>1, <2>2, <2>3 DEF StepsOnce
    <2>5. i < running
      BY <1>1, <2>4, RetiredFacts
    <2>6. QED
      BY <1>1, <2>1, <2>4, <2>5, RetiredFacts
  <1>6. p \in Runnable
    BY <1>3, <1>5 DEF Runnable
  <1>7. p \in Eligible
    BY <1>6 DEF Eligible
  <1>8. QED
    BY <1>7

LEMMA NothingToScheduleKeeps ==
    ASSUME FifoInv, NothingToSchedule
    PROVE  FifoInv'
  <1>1. UNCHANGED fifoState /\ phase' = "retire" /\ Eligible = {}
    BY DEF NothingToSchedule, fifoState
  <1>2. StateInv' /\ Running' = Running
    BY <1>1, SameState, StateInvParts
  <1>3. NoEmptyTurn'
    <2>1. pending # {} => Running # {}
      BY <1>1, FirstPendingEligible
    <2>2. pending' = pending
      BY <1>1 DEF fifoState
    <2>3. QED
      BY <1>2, <2>1, <2>2 DEF NoEmptyTurn
  <1>4. phase' \in {"schedule", "retire", "finalize", "done"}
    BY <1>1
  <1>5. (StateInv /\ phase \in {"schedule", "retire", "finalize", "done"} /\ NoEmptyTurn)'
    BY <1>2, <1>3, <1>4
  <1>6. QED
    BY <1>5, StateInvParts, PTL

\* Nothing but the phase changes, and it becomes one in which nothing need be running.
LEMMA PhaseKeeps ==
    ASSUME FifoInv, UNCHANGED fifoState, phase' \in {"schedule", "finalize", "done"} \/ phase' = phase
    PROVE  FifoInv'
  <1>1. StateInv' /\ Running' = Running
    BY SameState, StateInvParts
  <1>2. NoEmptyTurn'
    <2>1. pending' = pending
      BY DEF fifoState
    <2>2. phase' = "retire" => phase = "retire"
      OBVIOUS
    <2>3. NoEmptyTurn
      BY FifoInvParts
    <2>4. QED
      BY <1>1, <2>1, <2>2, <2>3 DEF NoEmptyTurn
  <1>3. phase' \in {"schedule", "retire", "finalize", "done"}
    BY StateInvParts
  <1>4. (StateInv /\ phase \in {"schedule", "retire", "finalize", "done"} /\ NoEmptyTurn)'
    BY <1>1, <1>2, <1>3
  <1>5. QED
    BY <1>4, StateInvParts, PTL

-----------------------------------------------------------------------------
(* A step retires *)

\* Nothing that is running writes what a scheduled step reads.
LEMMA ReadComplete ==
    ASSUME FifoTypes, StepsOnce, StepsOrdered,
           NEW p \in Steps, NEW i \in DOMAIN scheduled, scheduled[i].step = p, NEW a \in Inputs(p),
           NEW q \in Steps, NEW j \in DOMAIN scheduled, scheduled[j].step = q, a \in Outputs(q)
    PROVE  j < running
  <1>1. IsProgram /\ Dependencies(p) \subseteq Retired
    BY DEF FifoTypes, StepsOrdered
  <1>2. ~IsInput(a)
    <2>1. q # Final /\ Final \in Nat
      BY <1>1, ProgramTypes
    <2>2. q \in 1..(Final - 1)
      BY <2>1 DEF Steps
    <2>3. QED
      BY <1>1, <2>2 DEF IsProgram
  <1>3. PICK w : w = MostRecentWriter(a, p)
    OBVIOUS
  <1>4. w \in Dependencies(p) /\ \A r \in Steps : a \in Outputs(r) => r <= w
    BY <1>1, <1>2, <1>3, DependencyFacts
  <1>5. w \in Retired /\ w \in Steps /\ w # 0 /\ a \in Outputs(w)
    BY <1>1, <1>2, <1>3, <1>4, DependencyFacts, WriterFacts
  <1>6. ASSUME NEW r \in Steps, a \in Outputs(r), ~IsZero(r), NEW k \in DOMAIN scheduled, scheduled[k].step = r
        PROVE  k < running
    <2>1. r \in Retired
      <3>1. CASE r = w
        BY <1>5, <3>1
      <3>2. CASE r # w
        <4>1. r \in 1..(w - 1)
          BY <1>4, <1>5, <1>6, <3>2, <1>1, ProgramTypes DEF Steps
        <4>2. PICK m \in DOMAIN scheduled : scheduled[m].step = w
          BY <1>5, RetiredFacts
        <4>3. QED
          BY <1>5, <1>6, <4>1, <4>2 DEF StepsOrdered
      <3>3. QED
        BY <3>1, <3>2
    <2>2. PICK m \in DOMAIN scheduled : m < running /\ scheduled[m].step = r
      BY <2>1, RetiredFacts
    <2>3. k = m
      BY <1>6, <2>2 DEF StepsOnce
    <2>4. QED
      BY <2>2, <2>3
  <1>7. CASE ~IsZero(q)
    BY <1>6, <1>7
  <1>8. CASE IsZero(q)
    <2>1. PICK u \in Steps, k \in DOMAIN scheduled :
             /\ k > j /\ scheduled[k].step = u
             /\ \A b \in Outputs(q) : b \in Outputs(u) /\ MostRecentWriter(b, u) = q
      BY <1>8 DEF StepsOrdered
    <2>2. a \in Outputs(u) /\ MostRecentWriter(a, u) # 0
      BY <2>1, <1>1, ProgramTypes DEF Steps
    <2>3. ~IsZero(u)
      BY <1>1, <2>2, ZeroFacts
    <2>4. k < running
      BY <1>6, <2>1, <2>2, <2>3
    <2>5. j \in Nat /\ k \in Nat /\ running \in Nat
      BY RetiredFacts
    <2>6. QED
      BY <2>1, <2>4, <2>5
  <1>9. QED
    BY <1>7, <1>8

\* What a scheduled step that has not retired reads has its value.
LEMMA InputsAlive ==
    ASSUME FifoTypes, StepsOnce, StepsOrdered, ValuesAlive,
           NEW p \in Steps, NEW i \in Running, scheduled[i].step = p, NEW a \in Inputs(p)
    PROVE  p \in Readers(a) /\ a \in DOMAIN value_locs /\ a \in Allocs
  <1>1. IsProgram /\ i \in DOMAIN scheduled /\ i >= running
    BY RetiredFacts DEF FifoTypes
  <1>2. p \notin Retired
    <2> SUFFICES ASSUME p \in Retired PROVE FALSE
      OBVIOUS
    <2>1. PICK k \in DOMAIN scheduled : k < running /\ scheduled[k].step = p
      BY RetiredFacts
    <2>2. k = i
      BY <1>1, <2>1 DEF StepsOnce
    <2>3. i \in Nat /\ running \in Nat
      BY <1>1, RetiredFacts
    <2>4. QED
      BY <1>1, <2>1, <2>2, <2>3
  <1>3. p \in Readers(a)
    BY <1>2 DEF Readers
  <1>4. a \in Allocs
    BY <1>1, ProgramTypes
  <1>5. IsInput(a) \/ \E q \in Retired : ~IsZero(q) /\ a \in Outputs(q)
    <2> SUFFICES ASSUME ~IsInput(a) PROVE \E q \in Retired : ~IsZero(q) /\ a \in Outputs(q)
      OBVIOUS
    <2>1. PICK w : w = MostRecentWriter(a, p)
      OBVIOUS
    <2>2. w # 0 /\ w \in Dependencies(p)
      BY <1>1, <2>1, DependencyFacts
    <2>3. a \in Outputs(w) /\ ~IsZero(w)
      BY <1>1, <2>1, <2>2, WriterFacts, DependencyFacts
    <2>4. w \in Retired
      BY <1>1, <2>2 DEF StepsOrdered
    <2>5. QED
      BY <2>3, <2>4
  <1>6. QED
    BY <1>3, <1>4, <1>5 DEF ValuesAlive

\* The values after the first running step: those that it has written are added.
ValuesWith(ss) ==
    [a \in DOMAIN value_locs \cup {locs[l].contents : l \in ToSet(ss.outputs)} |->
        IF a \in DOMAIN value_locs THEN value_locs[a]
        ELSE CHOOSE l \in ToSet(ss.outputs) : locs[l].contents = a]

AreValues(values) ==
    /\ DOMAIN values \subseteq Allocs
    /\ \A a \in DOMAIN values :
          values[a] \in DOMAIN locs /\ values[a] \notin ToSet(free_locs) /\ locs[values[a]].contents = a

\* What is new in values has been left by the entry.
AddsTo(values, entry) ==
    \A a \in DOMAIN values :
        IF a \in DOMAIN value_locs THEN values[a] = value_locs[a] ELSE values[a] \in ToSet(entry.outputs)

LEMMA ValuesWithFacts ==
    ASSUME FifoTypes, NEW C, Memory(C), OutputsHeld, NEW i \in Running, NEW p \in Steps, scheduled[i].step = p
    PROVE  /\ AreValues(ValuesWith(scheduled[i]))
           /\ DOMAIN value_locs \subseteq DOMAIN ValuesWith(scheduled[i])
           /\ Outputs(p) \subseteq DOMAIN ValuesWith(scheduled[i])
           /\ AddsTo(ValuesWith(scheduled[i]), scheduled[i])
  <1>1. PICK ss : ss = scheduled[i]
    OBVIOUS
  <1>2. /\ i \in DOMAIN scheduled /\ ss \in Entries /\ ss.step = p
        /\ IsProgram
    BY <1>1, RetiredFacts DEF FifoTypes
  <1>3. PICK o : o = ss.outputs
    OBVIOUS
  <1>4. o \in Seq(Nat) /\ StepOf(p).outputs \in Seq(Allocs)
    BY <1>2, <1>3, ProgramTypes DEF Entries
  <1>5. /\ Len(o) = Len(StepOf(p).outputs)
        /\ \A k \in 1..Len(StepOf(p).outputs) :
              o[k] \in DOMAIN locs /\ o[k] \notin ToSet(free_locs) /\ locs[o[k]].contents = StepOf(p).outputs[k]
    BY <1>1, <1>3 DEF OutputsHeld
  <1>6. ASSUME NEW l \in ToSet(o)
        PROVE  l \in DOMAIN locs /\ l \notin ToSet(free_locs) /\ locs[l].contents \in Allocs
    <2>1. PICK k \in 1..Len(o) : o[k] = l
      BY <1>4 DEF ToSet
    <2>2. StepOf(p).outputs[k] \in Allocs
      BY <1>4, <1>5, <2>1
    <2>3. QED
      BY <1>5, <2>1, <2>2
  <1>7. PICK values : values = ValuesWith(ss)
    OBVIOUS
  <1>8. values = [a \in DOMAIN value_locs \cup {locs[l].contents : l \in ToSet(o)} |->
                    IF a \in DOMAIN value_locs THEN value_locs[a]
                    ELSE CHOOSE l \in ToSet(o) : locs[l].contents = a]
    BY <1>3, <1>7 DEF ValuesWith
  <1>9. ASSUME NEW a \in DOMAIN value_locs
        PROVE  /\ a \in DOMAIN values /\ values[a] = value_locs[a] /\ a \in Allocs
               /\ value_locs[a] \in DOMAIN locs /\ value_locs[a] \notin ToSet(free_locs)
               /\ locs[value_locs[a]].contents = a
    BY <1>8 DEF Memory
  <1>10. ASSUME NEW a \in DOMAIN values, a \notin DOMAIN value_locs
         PROVE  values[a] \in ToSet(o) /\ locs[values[a]].contents = a
    <2>1. PICK l \in ToSet(o) : locs[l].contents = a
      BY <1>8, <1>10
    <2>2. values[a] = CHOOSE k \in ToSet(o) : locs[k].contents = a
      BY <1>8, <1>10
    <2>3. QED
      BY <2>1, <2>2
  <1>11. AreValues(values)
    <2>1. ASSUME NEW a \in DOMAIN values
          PROVE  /\ a \in Allocs /\ values[a] \in DOMAIN locs /\ values[a] \notin ToSet(free_locs)
                 /\ locs[values[a]].contents = a
      BY <1>6, <1>9, <1>10
    <2>2. QED
      BY <2>1 DEF AreValues
  <1>12. ASSUME NEW a \in Outputs(p) PROVE a \in DOMAIN values
    <2>1. PICK k \in DOMAIN StepOf(p).outputs : StepOf(p).outputs[k] = a
      BY DEF Outputs, ToSet
    <2>2. k \in 1..Len(StepOf(p).outputs) /\ k \in DOMAIN o
      BY <1>4, <1>5, <2>1
    <2>3. o[k] \in ToSet(o) /\ locs[o[k]].contents = a
      BY <1>5, <2>1, <2>2 DEF ToSet
    <2>4. QED
      BY <1>8, <2>3
  <1>13. AddsTo(values, ss)
    BY <1>3, <1>9, <1>10 DEF AddsTo
  <1>14. QED
    BY <1>1, <1>7, <1>9, <1>11, <1>12, <1>13

\* The locs of what nobody reads any more are in one order or the other.
IsFreed(free, values, unread) ==
    \E order \in SetToSeqs(unread) :
        free = FreeLocs(free_locs, locs, [k \in DOMAIN order |-> values[order[k]]])

LEMMA FreedFacts ==
    ASSUME IsProgram, NEW C, Memory(C), NEW values, AreValues(values),
           NEW unread, unread \subseteq DOMAIN values, NEW free, IsFreed(free, values, unread)
    PROVE  /\ free \in Seq(DOMAIN locs) /\ IsInjective(free)
           /\ ToSet(free) = ToSet(free_locs) \cup {values[a] : a \in unread}
  <1>1. /\ DOMAIN values \subseteq Allocs
        /\ \A a \in DOMAIN values :
              values[a] \in DOMAIN locs /\ values[a] \notin ToSet(free_locs) /\ locs[values[a]].contents = a
    BY DEF AreValues
  <1>2. IsFiniteSet(unread)
    <2>1. unread \subseteq Allocs /\ IsFiniteSet(Allocs)
      BY <1>1 DEF IsProgram
    <2>2. QED
      BY <2>1, FS_Subset
  <1>3. PICK order \in SetToSeqs(unread) : free = FreeLocs(free_locs, locs, [k \in DOMAIN order |-> values[order[k]]])
    BY DEF IsFreed
  <1>4. order \in Seq(unread) /\ IsInjective(order) /\ ToSet(order) = unread
    BY <1>2, OrdersEnumerate
  <1>5. PICK n \in Nat : DOMAIN order = 1..n
    BY <1>4
  <1>6. \A k \in 1..n : order[k] \in unread
    BY <1>4, <1>5
  <1>7. PICK given : given = [k \in 1..n |-> values[order[k]]]
    OBVIOUS
  <1>8. given \in Seq(DOMAIN locs) /\ DOMAIN given = 1..n
    <2>1. \A k \in 1..n : given[k] \in DOMAIN locs
      BY <1>1, <1>6, <1>7
    <2>2. given \in [1..n -> DOMAIN locs]
      BY <2>1, <1>7
    <2>3. QED
      BY <2>2, <1>5
  <1>9. \A k \in 1..n : locs[given[k]].contents = order[k] /\ given[k] \notin ToSet(free_locs)
    BY <1>1, <1>6, <1>7
  <1>10. IsInjective(given)
    <2>1. ASSUME NEW j \in 1..n, NEW k \in 1..n, given[j] = given[k] PROVE j = k
      <3>1. order[j] = order[k]
        BY <1>9, <2>1
      <3>2. QED
        BY <1>4, <1>5, <3>1 DEF IsInjective
    <2>2. QED
      BY <1>8, <2>1 DEF IsInjective
  <1>11. ToSet(given) = {values[a] : a \in unread}
    <2>1. \A k \in 1..n : given[k] \in {values[a] : a \in unread}
      BY <1>6, <1>7
    <2>2. ASSUME NEW a \in unread PROVE \E k \in 1..n : given[k] = values[a]
      <3>1. PICK k \in 1..n : order[k] = a
        BY <1>4, <1>5 DEF ToSet
      <3>2. QED
        BY <1>7, <3>1
    <2>3. ToSet(given) = {given[k] : k \in 1..n}
      BY <1>8 DEF ToSet
    <2>4. QED
      BY <2>1, <2>2, <2>3
  <1>12. free_locs \in Seq(DOMAIN locs) /\ IsInjective(free_locs)
    BY DEF Memory
  <1>13. ToSet(free_locs) \cap ToSet(given) = {}
    BY <1>1, <1>11
  <1>14. free = FreeLocs(free_locs, locs, given)
    BY <1>3, <1>5, <1>7
  <1>15. PICK S : S = DOMAIN locs
    OBVIOUS
  <1>16. given \in Seq(S) /\ free_locs \in Seq(S)
    BY <1>8, <1>12, <1>15
  <1>17. /\ free \in Seq(S) /\ ToSet(free) = ToSet(free_locs) \cup ToSet(given)
         /\ IsInjective(free)
    <2>1. IsInjective(free_locs) /\ IsInjective(given) /\ ToSet(free_locs) \cap ToSet(given) = {}
      BY <1>10, <1>12, <1>13
    <2>2. /\ FreeLocs(free_locs, locs, given) \in Seq(S)
          /\ ToSet(FreeLocs(free_locs, locs, given)) = ToSet(free_locs) \cup ToSet(given)
          /\ IsInjective(free_locs) /\ IsInjective(given) /\ ToSet(free_locs) \cap ToSet(given) = {}
                => IsInjective(FreeLocs(free_locs, locs, given))
      BY <1>16, FreeLocsFacts
    <2>3. QED
      BY <1>14, <2>1, <2>2
  <1>18. QED
    BY <1>11, <1>15, <1>17

\* The step p retires; what it has written or nobody reads any more changes hands.
RetiresAs(p, values, loaded, now) ==
    /\ value_locs' = Forget(values, Unread(p))
    /\ refs' = [a \in Allocs |-> IF a \in Inputs(p) THEN refs[a] - 1 ELSE refs[a]]
    /\ IsFreed(free_locs', values, Unread(p))
    /\ IsCachedFrom(locs', locs, loaded, now)
    /\ running' = running + 1
    /\ UNCHANGED <<program, size_goal, mem_available, pending, scheduled, result>>

LEMMA RetireParts ==
    ASSUME FifoInv, Retire, Running # {}
    PROVE  /\ running \in Running
           /\ \E p \in Steps : \E loaded, now :
                 scheduled[running].step = p /\ RetiresAs(p, ValuesWith(scheduled[running]), loaded, now)
  <1>1. FifoTypes /\ running \in 1..(Len(scheduled) + 1)
    BY FifoInvParts DEF FifoTypes
  <1>2. running \in DOMAIN scheduled
    <2>1. running # Len(scheduled) + 1 /\ Len(scheduled) \in Nat /\ DOMAIN scheduled = 1..Len(scheduled)
      BY <1>1, RetiredFacts
    <2>2. QED
      BY <1>1, <2>1
  <1>3. running \in Running
    BY <1>1, <1>2, RetiredFacts
  <1>4. scheduled[running].step \in Steps
    BY <1>1, <1>2, RetiredFacts DEF Entries
  <1>5. PICK ss : ss = scheduled[running]
    OBVIOUS
  <1>6. PICK values : values = ValuesWith(ss)
    OBVIOUS
  <1>7. PICK p \in Steps : p = ss.step
    BY <1>4, <1>5
  <1>8. \E loaded, now : RetiresAs(p, values, loaded, now)
    <2> DEFINE V == ValuesWith(scheduled[running])
               q == scheduled[running].step
               N == memtime + MapThenSumSet(LAMBDA a : locs[V[a]].byte_size, Outputs(q))
    <2>1. value_locs' = Forget(V, Unread(q))
      BY DEF Retire, ValuesWith
    <2>2. refs' = [a \in Allocs |-> IF a \in Inputs(q) THEN refs[a] - 1 ELSE refs[a]]
      BY DEF Retire
    <2>3. /\ running' = running + 1
          /\ UNCHANGED <<program, size_goal, mem_available, pending, scheduled, result>>
      BY DEF Retire
    <2>4. IsFreed(free_locs', V, Unread(q))
      BY DEF Retire, ValuesWith, IsFreed
    <2>5. IsCachedFrom(locs', locs, {V[a] : a \in Outputs(q)}, N)
      BY DEF Retire, ValuesWith, IsCachedFrom
    <2> HIDE DEF N
    <2>6. values = V /\ p = q
      BY <1>5, <1>6, <1>7
    <2> HIDE DEF V, q
    <2>7. RetiresAs(p, values, {V[a] : a \in Outputs(q)}, N)
      BY <2>1, <2>2, <2>3, <2>4, <2>5, <2>6 DEF RetiresAs
    <2>8. QED
      BY <2>7
  <1>9. QED
    BY <1>3, <1>5, <1>6, <1>7, <1>8

Retiring(p, values, loaded, now) ==
    /\ FifoInv /\ running \in Running /\ p \in Steps /\ scheduled[running].step = p
    /\ AreValues(values) /\ DOMAIN value_locs \subseteq DOMAIN values /\ Outputs(p) \subseteq DOMAIN values
    /\ AddsTo(values, scheduled[running])
    /\ RetiresAs(p, values, loaded, now)

LEMMA RetiringFacts ==
    ASSUME FifoInv, Retire, Running # {}
    PROVE  \E p, values, loaded, now : Retiring(p, values, loaded, now)
  <1>0. PICK p \in Steps : \E loaded, now :
           scheduled[running].step = p /\ RetiresAs(p, ValuesWith(scheduled[running]), loaded, now)
    BY RetireParts
  <1>1. PICK loaded, now :
           /\ p \in Steps
           /\ scheduled[running].step = p /\ RetiresAs(p, ValuesWith(scheduled[running]), loaded, now)
    BY <1>0
  <1>2. running \in Running
    BY RetireParts
  <1>3. PICK C : Memory(C)
    BY FifoInvParts
  <1>4. PICK values : values = ValuesWith(scheduled[running])
    OBVIOUS
  <1>5. AreValues(values) /\ DOMAIN value_locs \subseteq DOMAIN values /\ Outputs(p) \subseteq DOMAIN values
    BY <1>1, <1>2, <1>3, <1>4, ValuesWithFacts, FifoInvParts
  <1>6. AddsTo(values, scheduled[running])
    BY <1>1, <1>2, <1>3, <1>4, ValuesWithFacts, FifoInvParts
  <1>7. QED
    BY <1>1, <1>2, <1>4, <1>5, <1>6 DEF Retiring

\* p is the last to read what it gives up.
LEMMA UnreadFacts ==
    ASSUME NEW p, NEW values, NEW loaded, NEW now, Retiring(p, values, loaded, now)
    PROVE  /\ Unread(p) \subseteq Inputs(p) /\ Unread(p) \subseteq DOMAIN value_locs
           /\ \A a \in Unread(p) : Readers(a) = {p} /\ a \notin Inputs(Final)
           /\ \A a \in Inputs(p) : p \in Readers(a) /\ a \in Allocs
           /\ \A a \in Allocs : IsFiniteSet(Readers(a))
  <1>1. /\ FifoTypes /\ IsProgram /\ StepsOnce /\ StepsOrdered /\ ValuesAlive /\ ReadersCounted
        /\ running \in Running /\ p \in Steps /\ scheduled[running].step = p
    BY FifoInvParts DEF Retiring
  <1>2. ASSUME NEW a \in Inputs(p) PROVE p \in Readers(a) /\ a \in DOMAIN value_locs /\ a \in Allocs
    BY <1>1, InputsAlive
  <1>3. IsFiniteSet(Steps)
    BY <1>1, ProgramTypes, FS_Interval DEF Steps
  <1>4. ASSUME NEW a \in Allocs PROVE IsFiniteSet(Readers(a))
    <2>1. Readers(a) \subseteq Steps
      BY DEF Readers
    <2>2. QED
      BY <1>3, <2>1, FS_Subset
  <1>5. ASSUME NEW a \in Unread(p) PROVE Readers(a) = {p} /\ a \notin Inputs(Final)
    <2>1. a \in Inputs(p) /\ refs[a] = 1
      BY <1>5 DEF Unread
    <2>2. p \in Readers(a) /\ a \in Allocs /\ IsFiniteSet(Readers(a))
      BY <1>2, <1>4, <2>1
    <2>3. refs[a] = Cardinality(Readers(a)) + (IF a \in Inputs(Final) THEN 1 ELSE 0)
      BY <1>1, <2>2 DEF ReadersCounted
    <2>4. PICK R : R = Readers(a)
      OBVIOUS
    <2>5. Cardinality(R) \in Nat /\ Cardinality(R) # 0
      BY <2>2, <2>4, FS_CardinalityType, FS_EmptySet
    <2>6. Cardinality(R) = 1
      BY <2>1, <2>3, <2>4, <2>5
    <2>7. PICK x : R = {x}
      BY <2>2, <2>4, <2>6, FS_Singleton
    <2>8. a \notin Inputs(Final)
      BY <2>1, <2>3, <2>4, <2>5
    <2>9. QED
      BY <2>2, <2>4, <2>7, <2>8
  <1>6. QED
    BY <1>2, <1>4, <1>5 DEF Unread

LEMMA RetireRetired ==
    ASSUME NEW p, NEW values, NEW loaded, NEW now, Retiring(p, values, loaded, now)
    PROVE  /\ Retired' = Retired \cup {p} /\ p \notin Retired
           /\ running \in Nat /\ running' = running + 1 /\ scheduled' = scheduled /\ UNCHANGED program
           /\ running \in DOMAIN scheduled /\ DOMAIN scheduled = 1..Len(scheduled)
           /\ running' \in 1..(Len(scheduled) + 1)
           /\ \A i : i \in Running' <=> i \in Running /\ i > running
           /\ \A a : Readers(a)' = Readers(a) \ {p}
  <1>1. /\ FifoTypes /\ IsProgram /\ StepsOnce
        /\ running \in Running /\ p \in Steps /\ scheduled[running].step = p
        /\ running' = running + 1 /\ scheduled' = scheduled /\ UNCHANGED program
    BY FifoInvParts DEF Retiring, RetiresAs
  <1>2. /\ running \in Nat /\ Len(scheduled) \in Nat /\ DOMAIN scheduled = 1..Len(scheduled)
        /\ running \in DOMAIN scheduled
    BY <1>1, RetiredFacts
  <1>3. PICK n \in Nat : n = Len(scheduled)
    BY <1>2
  <1>4. PICK r : r = running /\ r \in 1..n
    BY <1>2, <1>3
  <1>5. Retired = {scheduled[i].step : i \in 1..(r - 1)} /\ Retired' = {scheduled[i].step : i \in 1..r}
    <2>1. (r + 1) - 1 = r
      BY <1>4
    <2>2. Retired' = {scheduled[i].step : i \in 1..((r + 1) - 1)}
      BY <1>1, <1>4 DEF Retired
    <2>3. QED
      BY <1>4, <2>1, <2>2 DEF Retired
  <1>6. Retired' = Retired \cup {p}
    <2>1. 1..r = (1..(r - 1)) \cup {r}
      BY <1>4
    <2>2. scheduled[r].step = p
      BY <1>1, <1>4
    <2>3. QED
      BY <1>5, <2>1, <2>2
  <1>7. p \notin Retired
    <2> SUFFICES ASSUME p \in Retired PROVE FALSE
      OBVIOUS
    <2>1. PICK i \in DOMAIN scheduled : i < running /\ scheduled[i].step = p
      BY <1>1, RetiredFacts
    <2>2. i = running
      BY <1>1, <1>2, <2>1 DEF StepsOnce
    <2>3. QED
      BY <1>2, <2>1, <2>2
  <1>8. \A i : i \in Running' <=> i \in Running /\ i > running
    <2>1. Running = r..n /\ Running' = (r + 1)..n
      BY <1>1, <1>3, <1>4 DEF Running
    <2>2. QED
      BY <1>3, <1>4, <2>1
  <1>9. \A a : Readers(a)' = Readers(a) \ {p}
    <2>1. Steps' = Steps /\ \A q : Inputs(q)' = Inputs(q)
      BY <1>1, SameProgram
    <2>2. QED
      BY <1>6, <2>1 DEF Readers
  <1>10. r + 1 \in 1..(n + 1)
    BY <1>3, <1>4
  <1>11. QED
    BY <1>1, <1>2, <1>3, <1>4, <1>6, <1>7, <1>8, <1>9, <1>10

\* The values that are left when those of unread are forgotten.
IsWithout(new, values, unread) ==
    DOMAIN new = DOMAIN values \ unread /\ \A a \in DOMAIN values \ unread : new[a] = values[a]

LEMMA RetireMemory ==
    ASSUME NEW p, NEW values, NEW loaded, NEW now, Retiring(p, values, loaded, now)
    PROVE  /\ MemoryKept' /\ BudgetKept' /\ UNCHANGED program
           /\ DOMAIN locs' = DOMAIN locs /\ \A l \in DOMAIN locs : locs'[l].contents = locs[l].contents
           /\ ToSet(free_locs') = ToSet(free_locs) \cup {values[a] : a \in Unread(p)}
           /\ IsWithout(value_locs', values, Unread(p))
           /\ Grown(locs, locs')
  <1>1. /\ IsProgram /\ AreValues(values) /\ DOMAIN value_locs \subseteq DOMAIN values
        /\ BudgetKept
        /\ value_locs' = Forget(values, Unread(p))
        /\ IsFreed(free_locs', values, Unread(p))
        /\ IsCachedFrom(locs', locs, loaded, now)
        /\ UNCHANGED <<program, size_goal, mem_available>>
    BY FifoInvParts DEF Retiring, RetiresAs
  <1>2. PICK C : Memory(C)
    BY FifoInvParts DEF Retiring
  <1>3. PICK new, free : new = locs' /\ free = free_locs'
    OBVIOUS
  <1>4. Unread(p) \subseteq DOMAIN values
    BY <1>1, UnreadFacts
  <1>5. /\ free \in Seq(DOMAIN locs) /\ IsInjective(free)
        /\ ToSet(free) = ToSet(free_locs) \cup {values[a] : a \in Unread(p)}
    BY <1>1, <1>2, <1>3, <1>4, FreedFacts
  <1>6. locs \in Seq(LocOf(C)) /\ \A l \in DOMAIN locs : LocFits(locs[l])
    BY <1>2 DEF Memory
  <1>7. /\ new \in Seq(LocOf(C \cup {now})) /\ DOMAIN new = DOMAIN locs
        /\ \A l \in DOMAIN locs : SameButCache(new[l], locs[l])
        /\ TotalSize(new) = TotalSize(locs)
    <2>1. PICK list \in Seq(LocOf(C)) : list = locs
      BY <1>6
    <2>2. IsCachedFrom(new, list, loaded, now)
      BY <1>1, <1>3, <2>1
    <2>3. SameLocs(new, list, C \cup {now})
      BY <2>2, CachedFacts
    <2>4. QED
      BY <2>1, <2>3 DEF SameLocs
  <1>8. \A l \in DOMAIN locs : new[l].contents = locs[l].contents
    BY <1>7 DEF SameButCache
  <1>9. \A l \in DOMAIN locs : LocFits(new[l])
    BY <1>6, <1>7, SameFits
  <1>10. /\ DOMAIN values \subseteq Allocs
         /\ \A a \in DOMAIN values :
               values[a] \in DOMAIN locs /\ values[a] \notin ToSet(free_locs) /\ locs[values[a]].contents = a
    BY <1>1 DEF AreValues
  <1>11. PICK after : after = value_locs'
    OBVIOUS
  <1>12. DOMAIN after = DOMAIN values \ Unread(p) /\ \A a \in DOMAIN values \ Unread(p) : after[a] = values[a]
    BY <1>1, <1>11 DEF Forget
  <1>13. ASSUME NEW a \in DOMAIN after
         PROVE  after[a] \in DOMAIN new /\ after[a] \notin ToSet(free) /\ new[after[a]].contents = a
    <2>1. a \in DOMAIN values /\ a \notin Unread(p) /\ after[a] = values[a]
      BY <1>12
    <2>2. values[a] \in DOMAIN locs /\ values[a] \notin ToSet(free_locs) /\ locs[values[a]].contents = a
      BY <1>10, <2>1
    <2>3. \A b \in Unread(p) : values[b] # values[a]
      BY <1>4, <1>10, <2>1, <2>2
    <2>4. QED
      BY <1>5, <1>7, <1>8, <2>1, <2>2, <2>3
  <1>14. DOMAIN after \subseteq Allocs
    BY <1>10, <1>12
  <1>15. Memory(C \cup {now})'
    <2>1. Allocs' = Allocs
      BY <1>1, SameProgram
    <2>2. 0 \in C \cup {now}
      BY <1>2 DEF Memory
    <2>3. locs' \in Seq(LocOf(C \cup {now})')
      BY <1>1, <1>3, <1>7, LocFitsPrime
    <2>4. \A l \in DOMAIN locs' : LocFits(locs[l])'
      BY <1>1, <1>3, <1>7, <1>9, LocFitsPrime
    <2>5. free_locs' \in Seq(DOMAIN locs') /\ IsInjective(free_locs')
      BY <1>3, <1>5, <1>7
    <2>6. DOMAIN value_locs' \subseteq Allocs' /\ \A a \in DOMAIN value_locs' :
             value_locs'[a] \in DOMAIN locs' /\ value_locs'[a] \notin ToSet(free_locs') /\ locs'[value_locs'[a]].contents = a
      BY <1>3, <1>11, <1>13, <1>14, <2>1
    <2>7. QED
      BY <2>2, <2>3, <2>4, <2>5, <2>6 DEF Memory
  <1>16. MemoryKept'
    BY <1>15 DEF MemoryKept
  <1>17. BudgetKept'
    BY <1>1, <1>3, <1>7 DEF BudgetKept
  <1>18. Grown(locs, new)
    BY <1>6, <1>7, SameGrown
  <1>19. IsWithout(value_locs', values, Unread(p))
    BY <1>11, <1>12 DEF IsWithout
  <1>20. QED
    BY <1>1, <1>3, <1>5, <1>7, <1>8, <1>11, <1>12, <1>16, <1>17, <1>18, <1>19

LEMMA RetireSteps ==
    ASSUME NEW p, NEW values, NEW loaded, NEW now, Retiring(p, values, loaded, now)
    PROVE  StepsOnce' /\ StepsOrdered'
  <1>1. StepsOnce /\ StepsOrdered /\ scheduled' = scheduled /\ pending' = pending /\ UNCHANGED program
    BY FifoInvParts DEF Retiring, RetiresAs
  <1>2. /\ Steps' = Steps
        /\ \A q : /\ Outputs(q)' = Outputs(q) /\ IsZero(q)' = IsZero(q) /\ Dependencies(q)' = Dependencies(q)
                  /\ \A a : MostRecentWriter(a, q)' = MostRecentWriter(a, q)
    BY <1>1, SameProgram
  <1>3. Retired \subseteq Retired'
    BY RetireRetired
  <1>4. StepsOnce'
    BY <1>1, <1>2 DEF StepsOnce
  <1>5. StepsOrdered'
    BY <1>1, <1>2, <1>3 DEF StepsOrdered
  <1>6. QED
    BY <1>4, <1>5

\* What is given up is not what a running step writes.
LEMMA RetireHeld ==
    ASSUME NEW p, NEW values, NEW loaded, NEW now, Retiring(p, values, loaded, now)
    PROVE  OutputsHeld'
  <1>1. /\ FifoTypes /\ IsProgram /\ StepsOnce /\ StepsOrdered /\ OutputsHeld
        /\ running \in Running /\ p \in Steps /\ scheduled[running].step = p /\ AreValues(values)
        /\ DOMAIN value_locs \subseteq DOMAIN values
    BY FifoInvParts DEF Retiring
  <1>2. /\ running \in DOMAIN scheduled /\ running \in Nat /\ scheduled' = scheduled /\ UNCHANGED program
        /\ \A i : i \in Running' <=> i \in Running /\ i > running
    BY RetireRetired
  <1>3. /\ DOMAIN locs' = DOMAIN locs /\ \A l \in DOMAIN locs : locs'[l].contents = locs[l].contents
        /\ ToSet(free_locs') = ToSet(free_locs) \cup {values[a] : a \in Unread(p)}
    <2>1. DOMAIN locs' = DOMAIN locs
      BY RetireMemory
    <2>2. \A l \in DOMAIN locs : locs'[l].contents = locs[l].contents
      BY RetireMemory
    <2>3. ToSet(free_locs') = ToSet(free_locs) \cup {values[a] : a \in Unread(p)}
      BY RetireMemory
    <2>4. QED
      BY <2>1, <2>2, <2>3
  <1>4. Steps' = Steps /\ \A q : StepOf(q)' = StepOf(q)
    BY <1>2, SameProgram
  <1>5. ASSUME NEW q \in Steps, NEW i \in Running, i > running, scheduled[i].step = q
        PROVE  /\ Len(scheduled[i].outputs) = Len(StepOf(q).outputs)
               /\ \A k \in 1..Len(StepOf(q).outputs) :
                     /\ scheduled[i].outputs[k] \in DOMAIN locs'
                     /\ scheduled[i].outputs[k] \notin ToSet(free_locs')
                     /\ locs'[scheduled[i].outputs[k]].contents = StepOf(q).outputs[k]
    <2>1. /\ Len(scheduled[i].outputs) = Len(StepOf(q).outputs)
          /\ \A k \in 1..Len(StepOf(q).outputs) :
                /\ scheduled[i].outputs[k] \in DOMAIN locs
                /\ scheduled[i].outputs[k] \notin ToSet(free_locs)
                /\ locs[scheduled[i].outputs[k]].contents = StepOf(q).outputs[k]
      BY <1>1, <1>5 DEF OutputsHeld
    <2>2. i \in DOMAIN scheduled /\ i \in Nat
      BY <1>1, <1>5, RetiredFacts
    <2>3. ASSUME NEW k \in 1..Len(StepOf(q).outputs), NEW a \in Unread(p), scheduled[i].outputs[k] = values[a]
          PROVE  FALSE
      <3>1. a \in Inputs(p) /\ a \in DOMAIN values
        BY <1>1, UnreadFacts
      <3>2. locs[values[a]].contents = a
        BY <1>1, <3>1 DEF AreValues
      <3>3. a = StepOf(q).outputs[k]
        BY <2>1, <2>3, <3>2
      <3>4. a \in Outputs(q)
        <4>1. StepOf(q).outputs \in Seq(Allocs)
          BY <1>1, ProgramTypes
        <4>2. k \in DOMAIN StepOf(q).outputs
          BY <4>1
        <4>3. QED
          BY <3>3, <4>2 DEF Outputs, ToSet
      <3>5. i < running
        BY <1>1, <1>2, <1>5, <2>2, <3>1, <3>4, ReadComplete
      <3>6. QED
        BY <1>2, <1>5, <2>2, <3>5
    <2>4. QED
      BY <1>3, <2>1, <2>3
  <1>6. QED
    BY <1>2, <1>4, <1>5 DEF OutputsHeld

LEMMA RetireReaders ==
    ASSUME NEW p, NEW values, NEW loaded, NEW now, Retiring(p, values, loaded, now)
    PROVE  ReadersCounted'
  <1>1. /\ IsProgram /\ ReadersCounted /\ UNCHANGED program
        /\ refs' = [a \in Allocs |-> IF a \in Inputs(p) THEN refs[a] - 1 ELSE refs[a]]
    BY FifoInvParts DEF Retiring, RetiresAs, FifoTypes
  <1>2. Allocs' = Allocs /\ Inputs(Final)' = Inputs(Final)
    BY <1>1, SameProgram
  <1>3. ASSUME NEW a \in Allocs
        PROVE  refs'[a] \in Nat /\ refs'[a] = Cardinality(Readers(a)') + (IF a \in Inputs(Final) THEN 1 ELSE 0)
    <2>1. PICK R : R = Readers(a) /\ IsFiniteSet(R)
      BY UnreadFacts
    <2>2. Readers(a)' = R \ {p}
      BY <2>1, RetireRetired
    <2>3. refs[a] \in Nat /\ refs[a] = Cardinality(R) + (IF a \in Inputs(Final) THEN 1 ELSE 0)
      BY <1>1, <2>1 DEF ReadersCounted
    <2>4. Cardinality(R) \in Nat
      BY <2>1, FS_CardinalityType
    <2>5. CASE a \in Inputs(p)
      <3>1. p \in R
        BY <2>1, <2>5, UnreadFacts
      <3>2. Cardinality(R \ {p}) = Cardinality(R) - 1
        BY <2>1, <3>1, FS_RemoveElement
      <3>3. Cardinality(R \ {p}) \in Nat
        BY <2>1, FS_RemoveElement, FS_CardinalityType
      <3>4. refs'[a] = refs[a] - 1
        BY <1>1, <2>5
      <3>5. QED
        BY <2>2, <2>3, <2>4, <3>2, <3>3, <3>4
    <2>6. CASE a \notin Inputs(p)
      <3>1. R \ {p} = R
        BY <2>1, <2>6 DEF Readers
      <3>2. refs'[a] = refs[a]
        BY <1>1, <2>6
      <3>3. QED
        BY <2>2, <2>3, <3>1, <3>2
    <2>7. QED
      BY <2>5, <2>6
  <1>4. refs' \in [Allocs' -> Nat]
    <2>1. DOMAIN refs' = Allocs /\ refs' = [a \in DOMAIN refs' |-> refs'[a]]
      BY <1>1
    <2>2. QED
      BY <1>1, <1>2, <1>3
  <1>5. QED
    BY <1>2, <1>3, <1>4 DEF ReadersCounted

LEMMA RetireAlive ==
    ASSUME NEW p, NEW values, NEW loaded, NEW now, Retiring(p, values, loaded, now)
    PROVE  ValuesAlive'
  <1>1. /\ IsProgram /\ ValuesAlive /\ UNCHANGED program /\ p \in Steps
        /\ DOMAIN value_locs \subseteq DOMAIN values /\ Outputs(p) \subseteq DOMAIN values
    BY FifoInvParts DEF Retiring, RetiresAs, FifoTypes
  <1>2. Allocs' = Allocs /\ \A q : Outputs(q)' = Outputs(q) /\ IsZero(q)' = IsZero(q) /\ IsInput(q)' = IsInput(q)
    BY <1>1, SameProgram
  <1>3. DOMAIN value_locs' = DOMAIN values \ Unread(p)
    <2>1. IsWithout(value_locs', values, Unread(p))
      BY RetireMemory
    <2>2. QED
      BY <2>1 DEF IsWithout
  <1>4. ASSUME NEW a \in Allocs, Readers(a)' # {},
               IsInput(a) \/ \E q \in Retired' : ~IsZero(q) /\ a \in Outputs(q)
        PROVE  a \in DOMAIN value_locs'
    <2>1. Readers(a)' = Readers(a) \ {p}
      BY RetireRetired
    <2>2. a \notin Unread(p)
      BY <1>4, <2>1, UnreadFacts
    <2>3. a \in DOMAIN values
      <3>1. CASE IsInput(a) \/ \E q \in Retired : ~IsZero(q) /\ a \in Outputs(q)
        BY <1>1, <1>4, <2>1, <3>1 DEF ValuesAlive
      <3>2. CASE a \in Outputs(p)
        BY <1>1, <3>2
      <3>3. Retired' = Retired \cup {p}
        BY RetireRetired
      <3>4. QED
        BY <1>4, <3>1, <3>2, <3>3
    <2>4. QED
      BY <1>3, <2>2, <2>3
  <1>5. QED
    BY <1>2, <1>4 DEF ValuesAlive

LEMMA RetireStepKeeps ==
    ASSUME FifoInv, RetireStep
    PROVE  FifoInv'
  <1>1. phase' \in {"schedule", "finalize"}
    BY DEF RetireStep
  <1>2. CASE Running = {}
    <2>1. UNCHANGED fifoState
      BY <1>2 DEF RetireStep, fifoState
    <2>2. QED
      BY <1>1, <2>1, PhaseKeeps
  <1>3. CASE Running # {}
    <2>1. Retire
      BY <1>3 DEF RetireStep
    <2>2. PICK p, values, loaded, now : Retiring(p, values, loaded, now)
      BY <1>3, <2>1, RetiringFacts
    <2>3. StepsOnce' /\ StepsOrdered' /\ OutputsHeld' /\ ReadersCounted' /\ ValuesAlive' /\ MemoryKept' /\ BudgetKept'
      BY <2>2, RetireSteps, RetireHeld, RetireReaders, RetireAlive, RetireMemory
    <2>4. /\ FifoTypes /\ IsProgram
          /\ UNCHANGED <<program, size_goal, mem_available, pending, scheduled>> /\ UNCHANGED program
      BY <2>2, FifoInvParts DEF Retiring, RetiresAs
    <2>5. running' \in 1..(Len(scheduled) + 1)
      BY <2>2, RetireRetired
    <2>6. IsProgram' /\ Steps' = Steps /\ \A q : IsZero(q)' = IsZero(q)
      BY <2>4, SameProgram
    <2>7. Entries' = Entries
      BY <2>6 DEF Entries
    <2>8. /\ size_goal' \in Nat /\ mem_available' \in Nat /\ scheduled' \in Seq(Entries')
          /\ pending' \subseteq {q \in Steps' : ~IsZero(q)'} /\ running' \in 1..(Len(scheduled') + 1)
      BY <2>4, <2>5, <2>6, <2>7 DEF FifoTypes
    <2>9. FifoTypes'
      BY <1>1, <2>4, <2>6, <2>8 DEF FifoTypes
    <2>10. NoEmptyTurn'
      BY <1>1 DEF NoEmptyTurn
    <2>11. QED
      BY <2>3, <2>9, <2>10 DEF FifoInv
  <1>4. QED
    BY <1>2, <1>3

LEMMA FifoStep ==
    ASSUME FifoInv, [FifoNext]_fifoVars
    PROVE  FifoInv'
  <1>1. CASE ScheduleStep
    BY <1>1, ScheduleStepKeeps
  <1>2. CASE NothingToSchedule
    BY <1>2, NothingToScheduleKeeps
  <1>3. CASE RetireStep
    BY <1>3, RetireStepKeeps
  <1>4. CASE Finalize
    <2>1. UNCHANGED fifoState /\ phase' = "done"
      BY <1>4 DEF Finalize, fifoState
    <2>2. QED
      BY <2>1, PhaseKeeps
  <1>5. CASE UNCHANGED fifoVars
    <2>1. UNCHANGED fifoState /\ phase' = phase
      BY <1>5 DEF fifoVars, fifoState
    <2>2. QED
      BY <2>1, PhaseKeeps
  <1>6. QED
    BY <1>1, <1>2, <1>3, <1>4, <1>5 DEF FifoNext, Returned

-----------------------------------------------------------------------------
(* The worst-case locs *)

LEMMA Bounded ==
    ASSUME NEW A, IsFiniteSet(A), NEW f \in [A -> Nat]
    PROVE  \E n \in Nat : \A a \in A : f[a] <= n
  <1>1. PICK c \in Nat : ExistsBijection(1..c, A)
    BY FS_NatBijection
  <1>2. PICK e \in [1..c -> A] : \A a \in A : \E i \in 1..c : e[i] = a
    BY <1>1 DEF ExistsBijection, Bijection, Surjection
  <1> DEFINE T == {k \in 0..c : \E n \in Nat : \A i \in 1..k : f[e[i]] <= n}
  <1>3. 0 \in T
    OBVIOUS
  <1>4. ASSUME NEW k \in 1..c, k - 1 \in T PROVE k \in T
    <2>1. PICK n \in Nat : \A i \in 1..(k - 1) : f[e[i]] <= n
      BY <1>4
    <2>2. PICK x : x = f[e[k]]
      OBVIOUS
    <2>3. x \in Nat
      BY <1>2, <2>2
    <2>4. \A i \in 1..k : f[e[i]] <= n + x
      <3>1. ASSUME NEW i \in 1..k PROVE f[e[i]] <= n + x
        <4>1. f[e[i]] \in Nat
          BY <1>2
        <4>2. CASE i = k
          BY <2>2, <2>3, <4>2
        <4>3. CASE i # k
          <5>1. i \in 1..(k - 1)
            BY <4>3
          <5>2. f[e[i]] <= n
            BY <2>1, <5>1
          <5>3. QED
            BY <2>3, <4>1, <5>2
        <4>4. QED
          BY <4>2, <4>3
      <3>2. QED
        BY <3>1
    <2>5. n + x \in Nat
      BY <2>3
    <2>6. QED
      BY <2>4, <2>5
  <1>5. 0..c \subseteq T
    <2> HIDE DEF T
    <2>1. QED
      BY <1>3, <1>4, UpTo
  <1>6. PICK n \in Nat : \A i \in 1..c : f[e[i]] <= n
    <2>1. c \in 0..c
      OBVIOUS
    <2>2. c \in T
      BY <1>5, <2>1
    <2>3. QED
      BY <2>2
  <1>7. QED
    BY <1>2, <1>6

\* Among finitely many allocs there is one that no other goes before.
LEMMA FirstOfFacts ==
    ASSUME IsProgram, NEW A, A # {}, A \subseteq Allocs
    PROVE  FirstOf(A) \in A
  <1> DEFINE m(a) == 2 * Size(a) + (IF IsTmp(a) THEN 1 ELSE 0)
             f == [a \in A |-> m(a)]
             S == {f[a] : a \in A}
  <1>1. \A a \in A : Size(a) \in Nat
    BY ProgramTypes
  <1>2. f \in [A -> Nat]
    BY <1>1
  <1>3. IsFiniteSet(A)
    BY FS_Subset DEF IsProgram
  <1>4. PICK n \in Nat : \A a \in A : f[a] <= n
    <2> HIDE DEF f
    <2>1. QED
      BY <1>2, <1>3, Bounded
  <1>5. S \in SUBSET (0..n) /\ S # {}
    <2>1. \A a \in A : f[a] \in 0..n
      BY <1>2, <1>4
    <2> HIDE DEF f
    <2>2. QED
      BY <2>1
  <1>6. Max(S) \in S /\ \A y \in S : y <= Max(S)
    <2> HIDE DEF S
    <2>1. QED
      BY <1>5, MaxOf
  <1>7. PICK a \in A : \A b \in A : f[b] <= f[a]
    <2> HIDE DEF f
    <2>1. QED
      BY <1>6
  <1>8. ASSUME NEW b \in A PROVE ~PlacedBefore(b, a)
    <2>1. m(b) <= m(a)
      BY <1>7
    <2>2. Size(a) \in Nat /\ Size(b) \in Nat
      BY <1>1
    <2>3. ~(Size(b) > Size(a))
      BY <2>1, <2>2
    <2>4. ~(Size(b) = Size(a) /\ IsTmp(b) /\ ~IsTmp(a))
      BY <2>1, <2>2
    <2>5. QED
      BY <2>3, <2>4 DEF PlacedBefore
  <1>9. QED
    BY <1>8 DEF FirstOf

\* A loc that nothing has been put into.
Worst == {loc \in LocOf({0}) : loc.contents = NoAlloc /\ loc.input = NoAlloc}

\* What PlaceAlloc works on.
Placing ==
    {acc \in [left : SUBSET Allocs, cursor : Nat \ {0}, list : Seq(Worst)] : acc.cursor <= Len(acc.list) + 1}

LEMMA NewLocFacts ==
    ASSUME NEW s \in Nat, NEW io \in BOOLEAN
    PROVE  NewLoc(s, io) \in Worst
  BY DEF NewLoc, Worst, LocOf

LEMMA PlaceAllocFacts ==
    ASSUME IsProgram, NEW acc \in Placing, acc.left # {}
    PROVE  /\ PlaceAlloc(acc) \in Placing
           /\ \E a \in acc.left : PlaceAlloc(acc).left = acc.left \ {a}
  <1> DEFINE a == FirstOf(acc.left)
             list == acc.list
             from == acc.cursor
             fitting == {i \in from..Len(list) : list[i].byte_size <= Size(a)}
             at == IF IsTmp(a) THEN from ELSE Min(fitting \cup {Len(list) + 1})
             fresh == InsertAt(list, at, NewLoc(Size(a), ~IsTmp(a)))
             enlarged == [list EXCEPT ![at].byte_size = Size(a)]
             marked == [list EXCEPT ![at].is_io = TRUE]
             new == IF at > Len(list) THEN fresh
                    ELSE IF IsTmp(a)
                    THEN IF list[at].byte_size >= Size(a) THEN list
                         ELSE IF list[at].is_io THEN fresh
                         ELSE enlarged
                    ELSE IF list[at].byte_size = Size(a) THEN marked
                    ELSE fresh
  <1>0. PlaceAlloc(acc) = [left |-> acc.left \ {a}, cursor |-> at + 1, list |-> new]
    BY DEF PlaceAlloc
  <1>1. /\ acc.left \subseteq Allocs /\ from \in Nat /\ from > 0 /\ list \in Seq(Worst) /\ from <= Len(list) + 1
        /\ Len(list) \in Nat /\ DOMAIN list = 1..Len(list)
    BY DEF Placing
  <1>2. a \in acc.left /\ a \in Allocs
    BY <1>1, FirstOfFacts
  <1>3. Size(a) \in Nat /\ IsTmp(a) \in BOOLEAN
    BY <1>2, ProgramTypes DEF IsTmp
  <1>4. at \in 1..(Len(list) + 1)
    <2>1. CASE IsTmp(a)
      BY <1>1, <2>1
    <2>2. CASE ~IsTmp(a)
      <3> DEFINE F == fitting \cup {Len(list) + 1}
      <3>1. F \in SUBSET Nat /\ F # {} /\ F \subseteq 1..(Len(list) + 1)
        BY <1>1
      <3>2. Min(F) \in F
        <4> HIDE DEF F
        <4>1. QED
          BY <3>1, MinOf
      <3>3. QED
        BY <2>2, <3>1, <3>2
    <2>3. QED
      BY <2>1, <2>2
  <1>5. NewLoc(Size(a), ~IsTmp(a)) \in Worst
    <2>1. PICK io \in BOOLEAN : io = ~IsTmp(a)
      OBVIOUS
    <2>2. QED
      BY <1>3, <2>1, NewLocFacts
  <1> HIDE DEF a, at, list, from
  <1>6. fresh \in Seq(Worst) /\ Len(fresh) = Len(list) + 1
    <2>1. PICK loc \in Worst : loc = NewLoc(Size(a), ~IsTmp(a))
      BY <1>5
    <2>2. QED
      BY <1>1, <1>4, <2>1, Inserted
  <1>7. ASSUME at <= Len(list)
        PROVE  /\ enlarged \in Seq(Worst) /\ Len(enlarged) = Len(list)
               /\ marked \in Seq(Worst) /\ Len(marked) = Len(list)
    <2>1. at \in 1..Len(list)
      BY <1>1, <1>4, <1>7
    <2>2. PICK loc \in Worst : loc = list[at]
      BY <1>1, <2>1
    <2>3. PICK x : x = [loc EXCEPT !.byte_size = Size(a)]
      OBVIOUS
    <2>4. PICK y : y = [loc EXCEPT !.is_io = TRUE]
      OBVIOUS
    <2>5. x \in Worst
      BY <1>3, <2>3 DEF Worst, LocOf
    <2>6. y \in Worst
      BY <2>4 DEF Worst, LocOf
    <2>7. enlarged = [list EXCEPT ![at] = x]
      BY <2>1, <2>2, <2>3, <1>1
    <2>8. marked = [list EXCEPT ![at] = y]
      BY <2>1, <2>2, <2>4, <1>1
    <2> HIDE DEF enlarged, marked
    <2>9. enlarged \in Seq(Worst) /\ Len(enlarged) = Len(list)
      BY <1>1, <2>1, <2>5, <2>7
    <2>10. marked \in Seq(Worst) /\ Len(marked) = Len(list)
      BY <1>1, <2>1, <2>6, <2>8
    <2>11. QED
      BY <2>9, <2>10
  <1> HIDE DEF enlarged, marked, fresh
  <1>8. new \in Seq(Worst) /\ Len(new) >= Len(list) /\ (at = Len(list) + 1 => Len(new) = Len(list) + 1)
    <2>1. CASE at > Len(list)
      BY <1>1, <1>6, <2>1
    <2>2. CASE ~(at > Len(list))
      <3>1. at <= Len(list) /\ at # Len(list) + 1
        BY <1>1, <1>4, <2>2
      <3>2. new = fresh \/ new = list \/ new = enlarged \/ new = marked
        BY <2>2
      <3>3. new \in Seq(Worst) /\ Len(new) >= Len(list)
        <4> HIDE DEF new
        <4>1. QED
          BY <1>1, <1>6, <1>7, <3>1, <3>2
      <3>4. QED
        BY <3>1, <3>3
    <2>3. QED
      BY <2>1, <2>2
  <1> HIDE DEF new
  <1>9. Len(new) \in Nat /\ at + 1 <= Len(new) + 1 /\ at + 1 \in Nat \ {0}
    BY <1>1, <1>4, <1>8
  <1>10. [left |-> acc.left \ {a}, cursor |-> at + 1, list |-> new] \in Placing
    <2>1. acc.left \ {a} \in SUBSET Allocs
      BY <1>1
    <2>2. QED
      BY <1>8, <1>9, <2>1 DEF Placing
  <1>11. QED
    BY <1>0, <1>2, <1>10

LEMMA PlacingRun ==
    ASSUME IsProgram, NEW A, IsFiniteSet(A), NEW g, g[0] \in Placing, g[0].left = A,
           \A k \in 1..Cardinality(A) : g[k - 1].left # {} => g[k] = PlaceAlloc(g[k - 1])
    PROVE  \A k \in 0..Cardinality(A) : g[k] \in Placing /\ (k # Cardinality(A) => g[k].left # {})
  <1> DEFINE n == Cardinality(A)
             T == {k \in 0..n : g[k] \in Placing /\ IsFiniteSet(g[k].left) /\ Cardinality(g[k].left) = n - k}
  <1>1. n \in Nat
    BY FS_CardinalityType
  <1>2. 0 \in T
    BY <1>1
  <1>3. ASSUME NEW k \in T, k # n PROVE g[k].left # {}
    <2>1. k \in 0..n /\ Cardinality(g[k].left) = n - k
      OBVIOUS
    <2>2. Cardinality(g[k].left) # 0
      BY <1>1, <1>3, <2>1
    <2>3. QED
      BY <2>2, FS_EmptySet
  <1>4. ASSUME NEW k \in 1..n, k - 1 \in T PROVE k \in T
    <2>1. k - 1 # n /\ k \in 0..n
      BY <1>1
    <2>2. PICK acc : acc = g[k - 1]
      OBVIOUS
    <2>3. acc \in Placing /\ IsFiniteSet(acc.left) /\ Cardinality(acc.left) = n - (k - 1) /\ acc.left # {}
      BY <1>3, <1>4, <2>1, <2>2
    <2>4. g[k] = PlaceAlloc(acc)
      BY <2>2, <2>3
    <2>5. PICK new : new = PlaceAlloc(acc)
      OBVIOUS
    <2>6. PICK a \in acc.left : new.left = acc.left \ {a}
      BY <2>3, <2>5, PlaceAllocFacts
    <2>7. new \in Placing
      BY <2>3, <2>5, PlaceAllocFacts
    <2>8. IsFiniteSet(new.left) /\ Cardinality(new.left) = Cardinality(acc.left) - 1
      BY <2>3, <2>6, FS_RemoveElement
    <2>9. Cardinality(new.left) = n - k
      BY <1>1, <2>3, <2>8
    <2>10. QED
      BY <2>1, <2>4, <2>5, <2>7, <2>8, <2>9
  <1>5. 0..n \subseteq T
    <2> HIDE DEF T, n
    <2>1. QED
      BY <1>1, <1>2, <1>4, UpTo
  <1>6. \A k \in 0..n : g[k] \in Placing
    BY <1>5
  <1>7. \A k \in 0..n : k # n => g[k].left # {}
    <2> HIDE DEF T
    <2>1. QED
      BY <1>3, <1>5
  <1>8. QED
    BY <1>6, <1>7

LEMMA PlacedAllocsFacts ==
    ASSUME IsProgram, NEW p \in Steps
    PROVE  PlacedAllocs(p) \subseteq Allocs /\ IsFiniteSet(PlacedAllocs(p))
  <1>1. OwnOutputs(p) \subseteq Outputs(p)
    BY DEF OwnOutputs
  <1>2. Inputs(p) \subseteq Allocs /\ Outputs(p) \subseteq Allocs
    BY ProgramTypes
  <1>3. PlacedAllocs(p) \subseteq Allocs
    BY <1>1, <1>2 DEF PlacedAllocs
  <1>4. QED
    BY <1>3, FS_Subset DEF IsProgram

LEMMA InitStepFacts ==
    ASSUME IsProgram, NEW p \in Steps, NEW list \in Seq(Worst)
    PROVE  InitStepLocs(list, p) \in Seq(Worst)
  <1> DEFINE A == PlacedAllocs(p)
             n == Cardinality(A)
             D == Placing
             b == [left |-> A, cursor |-> 1, list |-> list]
             Is(f) == f = [k \in 0..n |-> IF k = 0 THEN b ELSE PlaceAlloc(f[k - 1])]
             F == [x \in (1..n) \X D |-> IF x[2].left = {} THEN x[2] ELSE PlaceAlloc(x[2])]
  <1>1. n \in Nat /\ IsFiniteSet(A) /\ A \subseteq Allocs
    BY PlacedAllocsFacts, FS_CardinalityType
  <1>2. b \in D /\ b.left = A
    <2>1. Len(list) \in Nat /\ 1 <= Len(list) + 1
      OBVIOUS
    <2>2. QED
      BY <1>1, <2>1 DEF Placing
  <1>3. F \in StepsIn(n, D)
    <2> SUFFICES ASSUME NEW x \in (1..n) \X D PROVE (IF x[2].left = {} THEN x[2] ELSE PlaceAlloc(x[2])) \in D
      BY DEF StepsIn
    <2>1. x[2] \in Placing
      OBVIOUS
    <2>2. QED
      BY <2>1, PlaceAllocFacts
  <1> HIDE DEF A, n, D, b
  <1>4. PICK f : IsRun(f, n, D, b, F)
    <2> HIDE DEF F
    <2>1. QED
      BY <1>1, <1>2, <1>3, Repeated
  <1>5. ASSUME NEW k \in 1..n
        PROVE  f[k] = IF f[k - 1].left = {} THEN f[k - 1] ELSE PlaceAlloc(f[k - 1])
    <2>1. f[k - 1] \in D
      BY <1>1, <1>4 DEF IsRun
    <2>2. QED
      BY <1>4, <2>1 DEF IsRun
  <1>6. f[0] = b
    BY <1>4 DEF IsRun
  <1>7. \A k \in 0..n : k # n => f[k].left # {}
    BY <1>1, <1>2, <1>5, <1>6, PlacingRun DEF n, D
  <1>8. ASSUME NEW k \in 1..n PROVE f[k] = PlaceAlloc(f[k - 1])
    <2>1. k - 1 \in 0..n /\ k - 1 # n
      BY <1>1
    <2>2. QED
      BY <1>5, <1>7, <2>1
  <1>9. Is(f)
    BY <1>1, <1>4, <1>6, <1>8 DEF IsRun
  <1>10. Is(CHOOSE g : Is(g))
    <2> HIDE DEF Is
    <2>1. QED
      BY <1>9
  <1>11. InitStepLocs(list, p) = (CHOOSE g : Is(g))[n].list
    BY DEF InitStepLocs, n, b, A
  <1>12. ASSUME NEW g, Is(g)
         PROVE  g[n].list \in Seq(Worst)
    <2>1. g[0] = b /\ \A k \in 1..n : g[k] = PlaceAlloc(g[k - 1])
      BY <1>1, <1>12
    <2>2. g[n] \in Placing
      <3>1. \A k \in 0..n : g[k] \in Placing
        <4> HIDE DEF Is
        <4>1. QED
          BY <1>1, <1>2, <2>1, PlacingRun DEF n, D
      <3>2. n \in 0..n
        BY <1>1
      <3>3. QED
        BY <3>1, <3>2
    <2>3. QED
      BY <2>2 DEF Placing
  <1>13. QED
    <2> HIDE DEF Is
    <2>1. QED
      BY <1>10, <1>11, <1>12

LEMMA WorstCaseFacts ==
    ASSUME IsProgram
    PROVE  WorstCaseLocs \in Seq(Worst)
  <1> DEFINE n == Final
             D == Seq(Worst)
             Is(f) == f = [k \in 0..n |-> IF k = 0 THEN <<>> ELSE InitStepLocs(f[k - 1], k)]
             F == [x \in (1..n) \X D |-> InitStepLocs(x[2], x[1])]
  <1>1. n \in Nat /\ <<>> \in D
    BY ProgramTypes
  <1>2. F \in StepsIn(n, D)
    <2> SUFFICES ASSUME NEW x \in (1..n) \X D PROVE InitStepLocs(x[2], x[1]) \in D
      BY DEF StepsIn
    <2>1. x[2] \in Seq(Worst) /\ x[1] \in Steps
      BY DEF Steps
    <2>2. QED
      BY <2>1, InitStepFacts
  <1> HIDE DEF n, D
  <1>3. PICK f : IsRun(f, n, D, <<>>, F)
    <2> HIDE DEF F
    <2>1. QED
      BY <1>1, <1>2, Repeated
  <1>4. ASSUME NEW k \in 1..n PROVE f[k] = InitStepLocs(f[k - 1], k)
    <2>1. f[k - 1] \in D
      BY <1>1, <1>3 DEF IsRun
    <2>2. QED
      BY <1>3, <2>1 DEF IsRun
  <1>5. Is(f)
    BY <1>1, <1>3, <1>4 DEF IsRun
  <1>6. Is(CHOOSE g : Is(g))
    <2> HIDE DEF Is
    <2>1. QED
      BY <1>5
  <1>7. WorstCaseLocs = (CHOOSE g : Is(g))[n]
    BY DEF WorstCaseLocs, n
  <1>8. ASSUME NEW g, Is(g)
        PROVE  g[n] \in D
    <2> DEFINE T == {k \in 0..n : g[k] \in D}
    <2>1. g[0] = <<>> /\ \A k \in 1..n : g[k] = InitStepLocs(g[k - 1], k)
      BY <1>1, <1>8
    <2> HIDE DEF Is
    <2>2. 0 \in T
      BY <1>1, <2>1
    <2>3. ASSUME NEW k \in 1..n, k - 1 \in T PROVE k \in T
      <3>1. PICK old \in D : old = g[k - 1]
        BY <2>3
      <3>2. k \in Steps /\ k \in 0..n
        BY <1>1 DEF Steps, n
      <3>3. InitStepLocs(old, k) \in D
        BY <3>2, InitStepFacts DEF D
      <3>4. QED
        BY <2>1, <3>1, <3>2, <3>3
    <2>4. 0..n \subseteq T
      <3> HIDE DEF T
      <3>1. QED
        BY <1>1, <2>2, <2>3, UpTo
    <2>5. n \in 0..n
      BY <1>1
    <2>6. n \in T
      BY <2>4, <2>5
    <2>7. QED
      BY <2>6
  <1>9. QED
    <2> HIDE DEF Is
    <2>1. QED
      BY <1>6, <1>7, <1>8 DEF D

-----------------------------------------------------------------------------
(* BuildSchedule up to its loop *)

LEMMA AvailableFacts ==
    ASSUME NEW C, NEW list \in Seq(LocOf(C)), size_goal \in Nat
    PROVE  /\ AvailableMem(list) \in Nat
           /\ AvailableMem(list) > 0 => TotalSize(list) + AvailableMem(list) <= size_goal
  <1> DEFINE n == Len(list)
             D == Nat
             Is(f) == f = [l \in 0..n |-> IF l = 0 THEN size_goal ELSE ReduceBy(f[l - 1], AlignUp(list[l].byte_size))]
             F == [x \in (1..n) \X D |-> ReduceBy(x[2], AlignUp(list[x[1]].byte_size))]
  <1>1. n \in Nat /\ size_goal \in D /\ DOMAIN list = 1..n
    OBVIOUS
  <1>2. \A l \in 1..n : list[l].byte_size \in Nat
    BY LocsSized, <1>1 DEF Sized
  <1>3. F \in StepsIn(n, D)
    <2> SUFFICES ASSUME NEW x \in (1..n) \X D PROVE ReduceBy(x[2], AlignUp(list[x[1]].byte_size)) \in D
      BY DEF StepsIn
    <2>1. PICK s \in Nat : s = list[x[1]].byte_size
      BY <1>2
    <2>2. x[2] \in Nat /\ AlignUp(s) \in Nat
      BY AlignUpFacts
    <2>3. QED
      BY <2>1, <2>2, ReduceByFacts
  <1>4. PICK total : IsTotal(total, list)
    BY TotalSizeDefined, LocsSized
  <1>5. /\ \A l \in 0..n : total[l] \in Nat
        /\ TotalSize(list) = total[n] /\ total[0] = 0
        /\ \A l \in 1..n : total[l] = total[l - 1] + list[l].byte_size
    BY <1>4 DEF IsTotal
  <1> HIDE DEF n, D
  <1>6. PICK f : IsRun(f, n, D, size_goal, F)
    <2> HIDE DEF F
    <2>1. QED
      BY <1>1, <1>3, Repeated
  <1>7. ASSUME NEW l \in 1..n PROVE f[l] = ReduceBy(f[l - 1], AlignUp(list[l].byte_size))
    <2>1. f[l - 1] \in D
      BY <1>1, <1>6 DEF IsRun
    <2>2. QED
      BY <1>6, <2>1 DEF IsRun
  <1>8. Is(f)
    BY <1>1, <1>6, <1>7 DEF IsRun
  <1>9. Is(CHOOSE g : Is(g))
    <2> HIDE DEF Is
    <2>1. QED
      BY <1>8
  <1>10. AvailableMem(list) = (CHOOSE g : Is(g))[n]
    BY DEF AvailableMem, n
  <1>11. ASSUME NEW g, Is(g)
         PROVE  g[n] \in Nat /\ (g[n] > 0 => total[n] + g[n] <= size_goal)
    <2> DEFINE T == {l \in 0..n : g[l] \in Nat /\ (g[l] > 0 => total[l] + g[l] <= size_goal)}
    <2>1. g[0] = size_goal /\ \A l \in 1..n : g[l] = ReduceBy(g[l - 1], AlignUp(list[l].byte_size))
      BY <1>1, <1>11
    <2> HIDE DEF Is
    <2>2. 0 \in T
      BY <1>1, <1>5, <2>1
    <2>3. ASSUME NEW l \in 1..n, l - 1 \in T PROVE l \in T
      <3>1. PICK s \in Nat : s = list[l].byte_size
        BY <1>2
      <3>2. PICK used \in Nat : used = AlignUp(s) /\ used >= s
        BY AlignUpFacts
      <3>3. PICK old \in Nat : old = g[l - 1] /\ (old > 0 => total[l - 1] + old <= size_goal)
        BY <2>3
      <3>4. PICK new : new = ReduceBy(old, used)
        OBVIOUS
      <3>5. new \in Nat /\ (new > 0 => new = old - used)
        BY <3>4, ReduceByFacts
      <3>6. g[l] = new
        BY <2>1, <3>1, <3>2, <3>3, <3>4
      <3>7. PICK before \in Nat : before = total[l - 1]
        BY <1>1, <1>5
      <3>8. total[l] = before + s
        BY <1>5, <3>1, <3>7
      <3>9. new > 0 => before + s + new <= size_goal
        <4> SUFFICES ASSUME new > 0 PROVE before + s + new <= size_goal
          OBVIOUS
        <4>1. new = old - used /\ old > 0
          BY <3>5
        <4>2. before + old <= size_goal
          BY <3>3, <3>7, <4>1
        <4>3. QED
          BY <3>2, <4>1, <4>2, <1>1 DEF D
      <3>10. l \in 0..n
        BY <1>1
      <3>11. QED
        BY <3>5, <3>6, <3>8, <3>9, <3>10
    <2>4. 0..n \subseteq T
      <3> HIDE DEF T
      <3>1. QED
        BY <1>1, <2>2, <2>3, UpTo
    <2>5. n \in 0..n
      BY <1>1
    <2>6. n \in T
      BY <2>4, <2>5
    <2>7. QED
      BY <2>6
  <1>12. QED
    <2> HIDE DEF Is
    <2>1. QED
      BY <1>5, <1>9, <1>10, <1>11

LEMMA SequenceOf ==
    ASSUME NEW A, IsFiniteSet(A)
    PROVE  SetToSeq(A) \in Seq(A) /\ IsInjective(SetToSeq(A)) /\ ToSet(SetToSeq(A)) = A
  <1> DEFINE n == Cardinality(A)
             Is(f) == f \in [1..n -> A] /\ IsInjective(f)
  <1>1. ExistsBijection(1..n, A)
    BY FS_CardinalityType
  <1>2. PICK f : Is(f)
    <2>1. PICK f : f \in Injection(1..n, A)
      BY <1>1 DEF ExistsBijection, Bijection
    <2>2. Is(f)
      BY <2>1 DEF Injection
    <2>3. QED
      BY <2>2
  <1>3. SetToSeq(A) = CHOOSE g \in [1..n -> A] : IsInjective(g)
    BY DEF SetToSeq
  <1>4. SetToSeq(A) \in [1..n -> A] /\ IsInjective(SetToSeq(A))
    BY <1>2, <1>3
  <1>5. QED
    BY <1>4, EnumerationFacts

LEMMA InputLocFacts ==
    ASSUME IsProgram, NEW a \in Allocs
    PROVE  /\ InputLoc(a) \in LocOf({0}) /\ InputLoc(a).contents = a /\ InputLoc(a).input = a
           /\ (~IsTmp(a) => LocFits(InputLoc(a)))
  <1>1. Size(a) \in Nat
    BY ProgramTypes
  <1>2. InputLoc(a) = [byte_size |-> Size(a), is_io |-> TRUE, contents |-> a, input |-> a, cache |-> 0]
    <2>1. PICK x : x = NewLoc(Size(a), TRUE)
      OBVIOUS
    <2>2. x = [byte_size |-> Size(a), is_io |-> TRUE, contents |-> NoAlloc, input |-> NoAlloc, cache |-> 0]
      BY <2>1 DEF NewLoc
    <2>3. PICK y : y = [x EXCEPT !.contents = a]
      OBVIOUS
    <2>4. y = [byte_size |-> Size(a), is_io |-> TRUE, contents |-> a, input |-> NoAlloc, cache |-> 0]
      BY <2>2, <2>3
    <2>5. PICK z : z = [y EXCEPT !.input = a]
      OBVIOUS
    <2>6. z = [byte_size |-> Size(a), is_io |-> TRUE, contents |-> a, input |-> a, cache |-> 0]
      BY <2>4, <2>5
    <2>7. InputLoc(a) = z
      BY <2>1, <2>3, <2>5 DEF InputLoc
    <2>8. QED
      BY <2>6, <2>7
  <1>3. PICK loc : loc = InputLoc(a)
    OBVIOUS
  <1>4. loc.byte_size = Size(a) /\ loc.is_io = TRUE /\ loc.contents = a /\ loc.input = a
    BY <1>2, <1>3
  <1>5. loc \in LocOf({0})
    BY <1>1, <1>2, <1>3 DEF LocOf
  <1>6. ~IsTmp(a) => LocFits(loc)
    BY <1>4 DEF LocFits
  <1>7. QED
    BY <1>3, <1>4, <1>5, <1>6

\* The inputs have locs of their own.
AreInputsApart(list) ==
    /\ \A l \in DOMAIN list : list[l].input # NoAlloc =>
          list[l].input \in Allocs /\ IsInput(list[l].input) /\ list[l].contents # NoAlloc
    /\ \A l, m \in DOMAIN list : list[l].input # NoAlloc /\ list[l].input = list[m].input => l = m

InputsThere == \A a \in DOMAIN value_locs : value_locs[a] \in DOMAIN locs /\ locs[value_locs[a]].input = a

LEMMA InitialMemory ==
    ASSUME FifoInit
    PROVE  Memory({0}) /\ AreInputsApart(locs) /\ InputsThere
  <1> DEFINE S == {a \in Allocs : IsInput(a)}
             worst == WorstCaseLocs
             inputs == SetToSeq(S)
             extra == [i \in DOMAIN inputs |-> InputLoc(inputs[i])]
             order == [l \in 1..Len(worst) |-> l]
             L == LocOf({0})
  <1>1. /\ IsProgram
        /\ locs = worst \o extra
        /\ free_locs = FreeLocs(<<>>, locs, order)
        /\ value_locs = [a \in S |-> CHOOSE l \in DOMAIN locs : locs[l].input = a]
    BY DEF FifoInit
  <1>2. worst \in Seq(Worst)
    BY <1>1, WorstCaseFacts
  <1>3. inputs \in Seq(S) /\ ToSet(inputs) = S /\ IsInjective(inputs)
    <2>1. IsFiniteSet(S)
      BY <1>1, FS_Subset DEF IsProgram
    <2> HIDE DEF S
    <2>2. QED
      BY <2>1, SequenceOf
  <1> HIDE DEF worst, inputs
  <1>4. PICK n \in Nat : n = Len(worst) /\ DOMAIN worst = 1..n
    BY <1>2
  <1>5. PICK m \in Nat : m = Len(inputs) /\ DOMAIN inputs = 1..m
    BY <1>3
  <1>6. \A i \in 1..m : inputs[i] \in S
    BY <1>3, <1>5
  <1>7. extra \in Seq(L) /\ Len(extra) = m /\ \A i \in 1..m : extra[i] = InputLoc(inputs[i])
    <2>1. \A i \in 1..m : InputLoc(inputs[i]) \in L
      BY <1>1, <1>6, InputLocFacts
    <2> HIDE DEF L
    <2>2. extra \in [1..m -> L]
      BY <1>5, <2>1
    <2>3. QED
      BY <1>5, <2>2
  <1>8. worst \in Seq(L)
    <2>1. \A i \in 1..n : worst[i] \in L
      BY <1>2, <1>4 DEF Worst
    <2> HIDE DEF L
    <2>2. QED
      BY <1>2, <1>4, <2>1, ElementsOf
  <1> HIDE DEF extra, L
  <1>9. /\ locs \in Seq(L) /\ Len(locs) = n + m
        /\ \A i \in 1..n : locs[i] = worst[i]
        /\ \A i \in (n + 1)..(n + m) : i - n \in 1..m /\ locs[i] = extra[i - n]
    <2>1. PICK x : x = worst
      OBVIOUS
    <2>2. PICK y : y = extra
      OBVIOUS
    <2>3. x \in Seq(L) /\ y \in Seq(L) /\ Len(x) = n /\ Len(y) = m
      BY <1>4, <1>7, <1>8, <2>1, <2>2
    <2>4. /\ x \o y \in Seq(L) /\ Len(x \o y) = n + m
          /\ \A i \in 1..n : (x \o y)[i] = x[i]
          /\ \A i \in (n + 1)..(n + m) : i - n \in 1..m /\ (x \o y)[i] = y[i - n]
      <3>1. /\ x \o y \in Seq(L) /\ Len(x \o y) = Len(x) + Len(y)
            /\ \A i \in 1..Len(x) : (x \o y)[i] = x[i]
            /\ \A i \in (Len(x) + 1)..(Len(x) + Len(y)) : i - Len(x) \in 1..Len(y) /\ (x \o y)[i] = y[i - Len(x)]
        BY <2>3, Joined
      <3>2. QED
        BY <2>3, <3>1
    <2>5. locs = x \o y
      BY <1>1, <2>1, <2>2
    <2>6. QED
      BY <2>1, <2>2, <2>4, <2>5
  <1>10. DOMAIN locs = 1..(n + m)
    BY <1>9
  <1>11. ASSUME NEW i \in 1..n PROVE locs[i].contents = NoAlloc /\ locs[i].input = NoAlloc
    <2>1. worst[i] \in Worst
      BY <1>2, <1>4
    <2>2. QED
      BY <1>9, <2>1 DEF Worst
  <1>12. ASSUME NEW i \in (n + 1)..(n + m)
         PROVE  i - n \in 1..m /\ locs[i] = InputLoc(inputs[i - n]) /\ inputs[i - n] \in S
    <2>1. PICK k : k = i - n
      OBVIOUS
    <2>2. k \in 1..m /\ locs[i] = extra[k]
      BY <1>9, <2>1
    <2>3. QED
      BY <1>6, <1>7, <2>1, <2>2
  <1>13. \A a \in S : a \in Allocs /\ ~IsTmp(a) /\ a # NoAlloc
    BY <1>1 DEF IsInput, IsTmp, IsProgram
  <1>14. ASSUME NEW i \in DOMAIN locs PROVE LocFits(locs[i])
    <2>1. CASE i \in 1..n
      BY <1>11, <2>1 DEF LocFits
    <2>2. CASE i \in (n + 1)..(n + m)
      <3>1. PICK a \in S : locs[i] = InputLoc(a)
        BY <1>12, <2>2
      <3>2. QED
        BY <1>1, <1>13, <3>1, InputLocFacts
    <2>3. QED
      BY <1>10, <2>1, <2>2
  <1>15. ASSUME NEW a \in S
         PROVE  \E l \in DOMAIN locs : locs[l].input = a
    <2>1. PICK k \in 1..m : inputs[k] = a
      BY <1>3, <1>5 DEF ToSet
    <2>2. PICK i : i = n + k
      OBVIOUS
    <2>3. i \in (n + 1)..(n + m) /\ i - n = k /\ i \in 1..(n + m)
      BY <2>2
    <2>4. locs[i] = InputLoc(a)
      BY <1>7, <1>9, <2>1, <2>3
    <2>5. locs[i].input = a
      BY <1>1, <1>13, <2>4, InputLocFacts
    <2>6. QED
      BY <1>10, <2>3, <2>5
  <1>16. ASSUME NEW a \in S, NEW l \in DOMAIN locs, locs[l].input = a
         PROVE  locs[l].contents = a /\ l \notin 1..n
    <2>1. l \notin 1..n
      BY <1>11, <1>13, <1>16
    <2>2. l \in (n + 1)..(n + m)
      BY <1>10, <2>1
    <2>3. PICK b \in S : locs[l] = InputLoc(b)
      BY <1>12, <2>2
    <2>4. QED
      BY <1>1, <1>13, <1>16, <2>1, <2>3, InputLocFacts
  <1>17. /\ free_locs \in Seq(DOMAIN locs) /\ IsInjective(free_locs) /\ ToSet(free_locs) = 1..n
    <2>1. PICK given : given = order
      OBVIOUS
    <2>2. given = [l \in 1..n |-> l]
      BY <1>4, <2>1
    <2>3. PICK D : D = DOMAIN locs
      OBVIOUS
    <2>4. given \in Seq(D) /\ IsInjective(given) /\ ToSet(given) = 1..n
      <3>1. 1..n \subseteq D
        BY <1>10, <2>3
      <3>2. given \in [1..n -> D]
        BY <2>2, <3>1
      <3>3. given \in Seq(D)
        BY <3>2
      <3>4. IsInjective(given)
        BY <2>2 DEF IsInjective
      <3>5. ToSet(given) = 1..n
        BY <2>2 DEF ToSet
      <3>6. QED
        BY <3>3, <3>4, <3>5
    <2>5. PICK free : free = <<>>
      OBVIOUS
    <2>6. free \in Seq(D) /\ IsInjective(free) /\ ToSet(free) = {}
      BY <2>5 DEF IsInjective, ToSet
    <2>7. free_locs = FreeLocs(free, locs, given)
      BY <1>1, <2>1, <2>5
    <2>8. ToSet(free) \cap ToSet(given) = {}
      BY <2>6
    <2>9. /\ FreeLocs(free, locs, given) \in Seq(D)
          /\ ToSet(FreeLocs(free, locs, given)) = ToSet(free) \cup ToSet(given)
          /\ IsInjective(free) /\ IsInjective(given) /\ ToSet(free) \cap ToSet(given) = {} =>
                IsInjective(FreeLocs(free, locs, given))
      BY <2>4, <2>6, FreeLocsFacts
    <2>10. QED
      BY <2>3, <2>4, <2>6, <2>7, <2>8, <2>9
  <1>18. ASSUME NEW a \in S
         PROVE  /\ value_locs[a] \in DOMAIN locs /\ locs[value_locs[a]].input = a
    BY <1>1, <1>15
  <1>19. DOMAIN value_locs = S
    BY <1>1
  <1>20. \A a \in DOMAIN value_locs :
            value_locs[a] \in DOMAIN locs /\ value_locs[a] \notin ToSet(free_locs) /\ locs[value_locs[a]].contents = a
    BY <1>16, <1>17, <1>18, <1>19
  <1>21. DOMAIN value_locs \subseteq Allocs
    BY <1>13, <1>19
  <1>22. Memory({0})
    BY <1>9, <1>14, <1>17, <1>20, <1>21 DEF Memory, L
  <1>23. ASSUME NEW i \in DOMAIN locs, locs[i].input # NoAlloc
         PROVE  /\ i \in (n + 1)..(n + m) /\ i - n \in 1..m
                /\ locs[i].input = inputs[i - n] /\ locs[i].contents = inputs[i - n] /\ inputs[i - n] \in S
    <2>1. i \in (n + 1)..(n + m)
      BY <1>10, <1>11, <1>23
    <2>2. PICK a : a = inputs[i - n]
      OBVIOUS
    <2>3. i - n \in 1..m /\ locs[i] = InputLoc(a) /\ a \in S
      BY <1>12, <2>1, <2>2
    <2>4. locs[i].input = a /\ locs[i].contents = a
      BY <1>1, <1>13, <2>3, InputLocFacts
    <2>5. QED
      BY <2>1, <2>2, <2>3, <2>4
  <1>24. ASSUME NEW l \in DOMAIN locs, NEW k \in DOMAIN locs, locs[l].input # NoAlloc, locs[l].input = locs[k].input
         PROVE  l = k
    <2>1. /\ l \in (n + 1)..(n + m) /\ l - n \in 1..m /\ k \in (n + 1)..(n + m) /\ k - n \in 1..m
          /\ inputs[l - n] = inputs[k - n]
      BY <1>23, <1>24
    <2>2. l - n = k - n
      BY <1>3, <1>5, <2>1 DEF IsInjective
    <2>3. QED
      BY <2>1, <2>2
  <1>25. \A l \in DOMAIN locs : locs[l].input # NoAlloc =>
            locs[l].input \in Allocs /\ IsInput(locs[l].input) /\ locs[l].contents # NoAlloc
    <2> SUFFICES ASSUME NEW l \in DOMAIN locs, locs[l].input # NoAlloc
                 PROVE  locs[l].input \in Allocs /\ IsInput(locs[l].input) /\ locs[l].contents # NoAlloc
      OBVIOUS
    <2>1. locs[l].input \in S /\ locs[l].contents = locs[l].input
      BY <1>23
    <2>2. QED
      BY <2>1
  <1>26. AreInputsApart(locs)
    BY <1>24, <1>25 DEF AreInputsApart
  <1>27. InputsThere
    BY <1>18, <1>19 DEF InputsThere
  <1>28. QED
    BY <1>22, <1>26, <1>27

LEMMA FifoInitInv ==
    ASSUME FifoInit
    PROVE  FifoInv
  <1>1. /\ IsProgram /\ size_goal \in SizeGoals /\ mem_available = AvailableMem(locs)
        /\ pending = {p \in Steps : ~IsZero(p)} /\ scheduled = <<>> /\ running = 1 /\ phase = "schedule"
        /\ refs = [a \in Allocs |-> Cardinality({p \in Steps : a \in Inputs(p)})
                                    + (IF a \in Inputs(Final) THEN 1 ELSE 0)]
        /\ DOMAIN value_locs = {a \in Allocs : IsInput(a)}
    BY DEF FifoInit
  <1>2. Memory({0})
    BY InitialMemory
  <1>3. size_goal \in Nat
    BY <1>1, FifoAssumption
  <1>4. PICK L : L = LocOf({0})
    OBVIOUS
  <1>5. locs \in Seq(L)
    BY <1>2, <1>4 DEF Memory
  <1>6. mem_available \in Nat /\ BudgetKept
    <2>1. /\ AvailableMem(locs) \in Nat
          /\ AvailableMem(locs) > 0 => TotalSize(locs) + AvailableMem(locs) <= size_goal
      BY <1>3, <1>4, <1>5, AvailableFacts
    <2>2. QED
      BY <1>1, <2>1 DEF BudgetKept
  <1>7. Retired = {} /\ Running = {} /\ DOMAIN scheduled = {} /\ Len(scheduled) = 0
    BY <1>1 DEF Retired, Running
  <1>8. FifoTypes
    <2>1. scheduled \in Seq(Entries)
      BY <1>1
    <2>2. running \in 1..(Len(scheduled) + 1)
      BY <1>1, <1>7
    <2>3. QED
      BY <1>1, <1>3, <1>6, <2>1, <2>2 DEF FifoTypes
  <1>9. StepsOnce /\ StepsOrdered /\ OutputsHeld
    BY <1>1, <1>7 DEF StepsOnce, StepsOrdered, OutputsHeld
  <1>10. ReadersCounted
    <2>1. ASSUME NEW a \in Allocs
          PROVE  refs[a] \in Nat /\ refs[a] = Cardinality(Readers(a)) + (IF a \in Inputs(Final) THEN 1 ELSE 0)
      <3>1. Readers(a) = {p \in Steps : a \in Inputs(p)}
        BY <1>7 DEF Readers
      <3>2. IsFiniteSet(Readers(a))
        <4>1. IsFiniteSet(Steps) /\ Readers(a) \subseteq Steps
          BY <1>1, ProgramTypes, FS_Interval DEF Steps, Readers
        <4>2. QED
          BY <4>1, FS_Subset
      <3>3. Cardinality(Readers(a)) \in Nat
        BY <3>2, FS_CardinalityType
      <3>4. QED
        BY <1>1, <3>1, <3>3
    <2>2. refs = [a \in Allocs |-> refs[a]]
      BY <1>1
    <2>3. QED
      BY <2>1, <2>2 DEF ReadersCounted
  <1>11. ValuesAlive
    BY <1>1, <1>7 DEF ValuesAlive
  <1>12. MemoryKept
    BY <1>2 DEF MemoryKept
  <1>13. NoEmptyTurn
    BY <1>1 DEF NoEmptyTurn
  <1>14. QED
    BY <1>6, <1>8, <1>9, <1>10, <1>11, <1>12, <1>13 DEF FifoInv

-----------------------------------------------------------------------------
(* Theorems *)

\* What BuildSchedule keeps between any two of its steps, for every program.
THEOREM Invariant == FifoSpec => []FifoInv
  <1>1. FifoInit => FifoInv
    BY FifoInitInv
  <1>2. FifoInv /\ [FifoNext]_fifoVars => FifoInv'
    BY FifoStep
  <1>3. QED
    BY <1>1, <1>2, PTL DEF FifoSpec

\* The loop of BuildSchedule ends: as long as steps are pending, no turn of it leaves the
\* schedule as it is, whatever the memory is and whatever the plans need.
THEOREM LoopProgresses == FifoSpec => []NoEmptyTurn
  <1>1. FifoInv => NoEmptyTurn
    BY DEF FifoInv
  <1>2. QED
    BY <1>1, Invariant, PTL

\* While ReduceAvailableMem has left something, the locs and what is left stay within
\* the memory that may be used.
THEOREM MemoryWithinGoal == FifoSpec => []BudgetKept
  <1>1. FifoInv => BudgetKept
    BY DEF FifoInv
  <1>2. QED
    BY <1>1, Invariant, PTL

\* Every value fits into its loc, and the locs that the buffers of the caller are bound to
\* have exactly their size: no later plan enlarges a loc that is bound so.
THEOREM ValuesAlwaysFit == FifoSpec => []ValuesFit
  <1>1. ASSUME FifoInv PROVE ValuesFit
    <2>1. PICK C : Memory(C)
      BY <1>1, FifoInvParts
    <2>2. \A l \in DOMAIN locs : LocFits(locs[l])
      BY <2>1 DEF Memory
    <2>3. QED
      BY <2>2 DEF LocFits, ValuesFit
  <1>2. QED
    BY <1>1, Invariant, PTL

\* Of two running steps that write the same value, the first is the zero step that clears
\* it for the second.
LEMMA WritersRunning ==
    ASSUME FifoInv, NEW i \in Running, NEW j \in Running, i < j, NEW p \in Steps, NEW q \in Steps,
           scheduled[i].step = p, scheduled[j].step = q, NEW a, a \in Outputs(p), a \in Outputs(q)
    PROVE  IsZero(p)
  <1> SUFFICES ASSUME ~IsZero(p) PROVE FALSE
    OBVIOUS
  <1>1. /\ FifoTypes /\ IsProgram /\ StepsOnce /\ StepsOrdered
        /\ i \in DOMAIN scheduled /\ j \in DOMAIN scheduled /\ i >= running /\ j >= running
        /\ DOMAIN scheduled = 1..Len(scheduled) /\ Len(scheduled) \in Nat /\ running \in Nat
        /\ Final \in Nat
    BY FifoInvParts, RetiredFacts, ProgramTypes
  <1>2. ASSUME NEW r \in Steps, NEW k \in DOMAIN scheduled, k >= running, scheduled[k].step = r
        PROVE  r \notin Retired
    <2> SUFFICES ASSUME r \in Retired PROVE FALSE
      OBVIOUS
    <2>1. PICK m \in DOMAIN scheduled : m < running /\ scheduled[m].step = r
      BY <1>1, RetiredFacts
    <2>2. m = k
      BY <1>1, <1>2, <2>1 DEF StepsOnce
    <2>3. QED
      BY <1>1, <1>2, <2>1, <2>2
  <1>3. p \notin Retired /\ q \notin Retired
    BY <1>1, <1>2
  <1>4. p # q
    <2> SUFFICES ASSUME p = q PROVE FALSE
      OBVIOUS
    <2>1. i = j
      BY <1>1 DEF StepsOnce
    <2>2. QED
      BY <1>1, <2>1
  <1>5. p \in Nat /\ q \in Nat /\ p > 0 /\ q > 0
    BY <1>1 DEF Steps
  <1>6. CASE p < q
    <2>1. p \in 1..(q - 1)
      BY <1>5, <1>6
    <2>2. p \in Retired
      BY <1>1, <2>1 DEF StepsOrdered
    <2>3. QED
      BY <1>3, <2>2
  <1>7. CASE q < p
    <2>1. q \in 1..(p - 1)
      BY <1>5, <1>7
    <2>2. IsZero(q)
      BY <1>1, <1>3, <2>1 DEF StepsOrdered
    <2>3. PICK u \in Steps, k \in DOMAIN scheduled :
             /\ k > j /\ scheduled[k].step = u
             /\ a \in Outputs(u) /\ MostRecentWriter(a, u) = q
      BY <1>1, <2>2 DEF StepsOrdered
    <2>4. u \in Nat /\ u > 0 /\ k >= running
      BY <1>1, <2>3 DEF Steps
    <2>5. ~IsZero(u)
      <3>1. a \in Outputs(u) /\ MostRecentWriter(a, u) # 0
        BY <1>5, <2>3
      <3>2. QED
        BY <1>1, <3>1, ZeroFacts
    <2>6. CASE u = p
      <3>1. k = i
        BY <1>1, <2>3, <2>6 DEF StepsOnce
      <3>2. QED
        BY <1>1, <2>3, <3>1
    <2>7. CASE p < u
      <3>1. p \in 1..(u - 1)
        BY <1>5, <2>4, <2>7
      <3>2. p <= q
        BY <1>1, <2>3, <3>1, WriterFacts
      <3>3. QED
        BY <1>5, <1>7, <3>2
    <2>8. CASE u < p
      <3>1. u \in 1..(p - 1)
        BY <1>5, <2>4, <2>8
      <3>2. u \in Retired
        BY <1>1, <2>3, <2>5, <3>1 DEF StepsOrdered
      <3>3. QED
        BY <1>2, <2>3, <2>4, <3>2
    <2>9. QED
      BY <1>5, <2>4, <2>6, <2>7, <2>8
  <1>8. QED
    BY <1>4, <1>5, <1>6, <1>7

\* The locs of what a running step touches hold what it reads or writes.
LEMMA TouchedFacts ==
    ASSUME FifoInv, NEW i \in Running, NEW p \in Steps, scheduled[i].step = p
    PROVE  /\ \A l \in ToSet(scheduled[i].outputs) :
                 l \in DOMAIN locs /\ l \notin ToSet(free_locs) /\ locs[l].contents \in Outputs(p)
           /\ \A l \in Touches(i) : locs[l].contents \in Inputs(p) \cup Outputs(p)
  <1>1. PICK ss : ss = scheduled[i]
    OBVIOUS
  <1>2. FifoTypes /\ IsProgram /\ OutputsHeld /\ ss \in Entries
    BY <1>1, FifoInvParts, RetiredFacts
  <1>3. PICK o : o = ss.outputs
    OBVIOUS
  <1>4. o \in Seq(Nat) /\ StepOf(p).outputs \in Seq(Allocs)
    BY <1>2, <1>3, ProgramTypes DEF Entries
  <1>5. /\ Len(o) = Len(StepOf(p).outputs)
        /\ \A k \in 1..Len(StepOf(p).outputs) :
              o[k] \in DOMAIN locs /\ o[k] \notin ToSet(free_locs) /\ locs[o[k]].contents = StepOf(p).outputs[k]
    BY <1>1, <1>2, <1>3 DEF OutputsHeld
  <1>6. ASSUME NEW l \in ToSet(o)
        PROVE  l \in DOMAIN locs /\ l \notin ToSet(free_locs) /\ locs[l].contents \in Outputs(p)
    <2>1. PICK k \in 1..Len(o) : o[k] = l
      BY <1>4 DEF ToSet
    <2>2. k \in DOMAIN StepOf(p).outputs
      BY <1>4, <1>5, <2>1
    <2>3. StepOf(p).outputs[k] \in Outputs(p)
      BY <2>2 DEF Outputs, ToSet
    <2>4. QED
      BY <1>4, <1>5, <2>1, <2>3
  <1>7. PICK C : Memory(C)
    BY FifoInvParts
  <1>8. \A a \in DOMAIN value_locs : locs[value_locs[a]].contents = a
    BY <1>7 DEF Memory
  <1>9. \A l \in Touches(i) : locs[l].contents \in Inputs(p) \cup Outputs(p)
    BY <1>1, <1>3, <1>6, <1>8 DEF Touches
  <1>10. QED
    BY <1>1, <1>3, <1>6, <1>9

\* Two steps that may overlap on the device share no memory, but for a zero step and the
\* one that it clears for.
LEMMA RunningIndependent ==
    ASSUME FifoInv
    PROVE  InFlightIndependent
  <1>1. SUFFICES ASSUME NEW i \in Running, NEW j \in Running, i < j,
                        ~(/\ ToSet(scheduled[i].outputs) \cap Touches(j) = {}
                          /\ Touches(i) \cap ToSet(scheduled[j].outputs) = {})
                 PROVE  IsZero(scheduled[i].step) /\ Outputs(scheduled[i].step) \subseteq Outputs(scheduled[j].step)
    BY DEF InFlightIndependent
  <1>2. /\ FifoTypes /\ IsProgram /\ StepsOnce /\ StepsOrdered
        /\ i \in DOMAIN scheduled /\ j \in DOMAIN scheduled /\ i >= running /\ j >= running
        /\ DOMAIN scheduled = 1..Len(scheduled) /\ Len(scheduled) \in Nat /\ running \in Nat
    BY FifoInvParts, RetiredFacts
  <1>3. PICK p \in Steps : p = scheduled[i].step
    BY <1>2, RetiredFacts DEF Entries
  <1>4. PICK q \in Steps : q = scheduled[j].step
    BY <1>2, RetiredFacts DEF Entries
  <1>5. PICK a : \/ a \in Outputs(p) /\ a \in Inputs(q) \cup Outputs(q)
                 \/ a \in Inputs(p) \cup Outputs(p) /\ a \in Outputs(q)
    <2>1. PICK l : \/ l \in ToSet(scheduled[i].outputs) /\ l \in Touches(j)
                   \/ l \in Touches(i) /\ l \in ToSet(scheduled[j].outputs)
      BY <1>1
    <2>2. /\ \A k \in ToSet(scheduled[i].outputs) : locs[k].contents \in Outputs(p)
          /\ \A k \in Touches(i) : locs[k].contents \in Inputs(p) \cup Outputs(p)
      BY <1>3, TouchedFacts
    <2>3. /\ \A k \in ToSet(scheduled[j].outputs) : locs[k].contents \in Outputs(q)
          /\ \A k \in Touches(j) : locs[k].contents \in Inputs(q) \cup Outputs(q)
      BY <1>4, TouchedFacts
    <2>4. QED
      BY <2>1, <2>2, <2>3
  <1>6. ~(a \in Outputs(p) /\ a \in Inputs(q))
    <2> SUFFICES ASSUME a \in Outputs(p), a \in Inputs(q) PROVE FALSE
      OBVIOUS
    <2>1. i < running
      BY <1>2, <1>3, <1>4, ReadComplete
    <2>2. QED
      BY <1>2, <2>1
  <1>7. ~(a \in Inputs(p) /\ a \in Outputs(q))
    <2> SUFFICES ASSUME a \in Inputs(p), a \in Outputs(q) PROVE FALSE
      OBVIOUS
    <2>1. j < running
      BY <1>2, <1>3, <1>4, ReadComplete
    <2>2. QED
      BY <1>2, <2>1
  <1>8. a \in Outputs(p) /\ a \in Outputs(q)
    BY <1>5, <1>6, <1>7
  <1>9. IsZero(p)
    BY <1>1, <1>3, <1>4, <1>8, WritersRunning
  <1>10. Outputs(p) = {a}
    BY <1>2, <1>8, <1>9, ZeroFacts
  <1>11. QED
    BY <1>3, <1>4, <1>8, <1>9, <1>10

\* The memory plan is sound at every moment of the replay, for every program: a loc is
\* free, or holds one value, or is being written, and steps in flight do not meet.
THEOREM PlanIsExclusive == FifoSpec => []MemoryExclusive
  <1>1. ASSUME FifoInv PROVE NoLocShared
    <2>1. PICK C : Memory(C)
      BY <1>1, FifoInvParts
    <2>2. /\ IsInjective(free_locs)
          /\ \A a \in DOMAIN value_locs :
                value_locs[a] \notin ToSet(free_locs) /\ locs[value_locs[a]].contents = a
      BY <2>1 DEF Memory
    <2>3. ASSUME NEW i \in Running, NEW l \in ToSet(scheduled[i].outputs)
          PROVE  l \notin ToSet(free_locs) /\ locs[l].contents \in Outputs(scheduled[i].step)
      <3>1. PICK p \in Steps : p = scheduled[i].step
        BY <1>1, FifoInvParts, RetiredFacts DEF Entries
      <3>2. QED
        BY <1>1, <3>1, TouchedFacts
    <2>4. QED
      BY <2>2, <2>3 DEF NoLocShared
  <1>2. FifoInv => MemoryExclusive
    BY <1>1, RunningIndependent DEF MemoryExclusive
  <1>3. QED
    BY <1>2, Invariant, PTL

\* The limit is exceeded only when every step that could be scheduled exceeds it.
THEOREM LimitBeforeUrgency == FifoSpec => WithinBudgetFirst
  <1> DEFINE Kept == MemNeeded(Chosen) <= mem_available
                     \/ (Running = {} /\ \A p \in Runnable : mem_available < MemNeeded(p))
  <1>1. ASSUME FifoInv, ScheduleStep PROVE Kept
    <2>1. PICK C, p :
             /\ p \in Eligible /\ Applied(p, C)
             /\ MemNeeded(p) <= mem_available \/ \A q \in Eligible : mem_available < MemNeeded(q)
      BY <1>1, ScheduledStep
    <2>2. FifoTypes /\ Memory(C) /\ p \in Steps /\ Apply(p)
      BY <2>1, RunnableFacts DEF Applied
    <2>3. Chosen = p
      <3>1. PICK s, n, m : AppliedParts(p, s, n, m) /\ s = scheduled'
        BY <2>2, ApplyParts
      <3>2. n \in Nat /\ m \in Nat /\ Len(s) = n + m + 1 /\ s[n + m + 1] = Entry(p)
        BY <3>1 DEF AppliedParts
      <3>3. Last(s) = Entry(p)
        BY <3>2 DEF Last
      <3>4. QED
        BY <3>1, <3>3 DEF Chosen, Entry
    <2>4. MemNeeded(p) <= mem_available \/ (Running = {} /\ \A q \in Runnable : mem_available < MemNeeded(q))
      <3>1. Running # {} => MemNeeded(p) <= mem_available
        BY <2>1 DEF Eligible
      <3>2. Running = {} => Eligible = Runnable
        BY DEF Eligible
      <3>3. QED
        BY <2>1, <3>1, <3>2
    <2>5. MemNeeded(Chosen) = MemNeeded(p)
      BY <2>3
    <2>6. QED
      BY <2>4, <2>5
  <1>2. FifoInv /\ [FifoNext]_fifoVars => [ScheduleStep => Kept]_fifoVars
    BY <1>1
  <1>3. QED
    BY <1>2, Invariant, PTL DEF FifoSpec, WithinBudgetFirst

-----------------------------------------------------------------------------
(* What the schedule computes *)

\* An entry leaves each output of its step in a loc of its own.
IsPlaced(e) == Len(e.outputs) = Len(StepOf(e.step).outputs) /\ IsInjective(e.outputs)

\* After the first n entries of s, the loc l holds a: all that have written a wrote it there,
\* and whatever wrote l was followed by a writer of a.
Holds(s, list, a, l, n) ==
    /\ l \in DOMAIN list
    /\ \A i \in 1..n : \A m \in ToSet(s[i].outputs) : Puts(s[i], a, m) => m = l
    /\ \A i \in 1..n : l \in ToSet(s[i].outputs) => \E j \in i..n : Puts(s[j], a, l)
    /\ (\A i \in 1..n : l \notin ToSet(s[i].outputs)) => list[l].input = a

\* The outputs of the entry fit into their locs, which hold no input that is to survive.
IsSafe(e, list) ==
    /\ IsPlaced(e)
    /\ \A l \in ToSet(e.outputs) :
          l \in DOMAIN list /\ list[l].contents # NoAlloc /\ list[l].input \notin Inputs(Final)
    /\ \A a \in Outputs(e.step) : \A l \in ToSet(e.outputs) : Puts(e, a, l) => Size(a) <= list[l].byte_size

\* What the j-th step depends on, and what wrote its outputs before it in the program, is
\* scheduled before it.
IsInTime(s, j) ==
    \A q \in 1..(s[j].step - 1) :
        q \in Dependencies(s[j].step) \/ Outputs(q) \cap Outputs(s[j].step) # {} =>
            \E i \in 1..(j - 1) : s[i].step = q

\* The j-th step finds its inputs, and the values that it updates.
FindsValues(s, list, j) ==
    /\ \A a \in Inputs(s[j].step) : \E l \in DOMAIN list : Holds(s, list, a, l, j - 1)
    /\ \A a \in Outputs(s[j].step) : \A l \in ToSet(s[j].outputs) :
          Puts(s[j], a, l) /\ MostRecentWriter(a, s[j].step) # 0 => Holds(s, list, a, l, j - 1)

IsRight(s, list, j) == IsSafe(s[j], list) /\ IsInTime(s, j) /\ FindsValues(s, list, j)
IsCorrect(s, list) == \A j \in DOMAIN s : IsRight(s, list, j)

LEMMA InputsUnwritten ==
    ASSUME IsProgram, NEW a, IsInput(a), NEW p \in Steps
    PROVE  a \notin Outputs(p)
  <1>1. CASE p = Final
    BY <1>1, ProgramTypes
  <1>2. CASE p # Final
    <2>1. p \in 1..(Final - 1)
      BY <1>2, ProgramTypes DEF Steps
    <2>2. QED
      BY <2>1 DEF IsProgram
  <1>3. QED
    BY <1>1, <1>2

LEMMA PutsFacts ==
    ASSUME IsProgram, NEW e \in Entries, IsPlaced(e)
    PROVE  /\ \A a, l : Puts(e, a, l) => a \in Outputs(e.step) /\ l \in ToSet(e.outputs)
           /\ \A a \in Outputs(e.step) : \E l : Puts(e, a, l)
           /\ \A l \in ToSet(e.outputs) : \E a : Puts(e, a, l)
           /\ \A a, l, m : Puts(e, a, l) /\ Puts(e, a, m) => l = m
           /\ \A a, b, l : Puts(e, a, l) /\ Puts(e, b, l) => a = b
  <1>1. PICK outs \in Seq(Allocs) : outs = StepOf(e.step).outputs /\ IsInjective(outs)
    BY ProgramTypes DEF Entries
  <1>2. PICK o \in Seq(Nat) : o = e.outputs /\ IsInjective(o) /\ Len(o) = Len(outs)
    BY <1>1 DEF Entries, IsPlaced
  <1>3. DOMAIN o = DOMAIN outs
    BY <1>2
  <1>4. Outputs(e.step) = {outs[k] : k \in DOMAIN outs} /\ ToSet(o) = {o[k] : k \in DOMAIN o}
    BY <1>1 DEF Outputs, ToSet
  <1>5. \A a, l : Puts(e, a, l) <=> \E k \in DOMAIN o : o[k] = l /\ outs[k] = a
    BY <1>1, <1>2 DEF Puts
  <1>6. ToSet(e.outputs) = ToSet(o)
    BY <1>2
  <1>7. /\ \A i, j \in DOMAIN o : o[i] = o[j] => i = j
        /\ \A i, j \in DOMAIN o : outs[i] = outs[j] => i = j
    BY <1>1, <1>2, <1>3 DEF IsInjective
  <1> HIDE DEF Entries
  <1>8. \A a, l : Puts(e, a, l) => a \in Outputs(e.step) /\ l \in ToSet(e.outputs)
    BY <1>3, <1>4, <1>5, <1>6
  <1>9. ASSUME NEW a \in Outputs(e.step)
        PROVE  \E l : Puts(e, a, l)
    <2>1. PICK k \in DOMAIN outs : outs[k] = a
      BY <1>4
    <2>2. Puts(e, a, o[k])
      BY <1>3, <1>5, <2>1
    <2>3. QED
      BY <2>2
  <1>10. ASSUME NEW l \in ToSet(e.outputs)
         PROVE  \E a : Puts(e, a, l)
    <2>1. PICK k \in DOMAIN o : o[k] = l
      BY <1>4, <1>6
    <2>2. Puts(e, outs[k], l)
      BY <1>5, <2>1
    <2>3. QED
      BY <2>2
  <1>11. \A a, l, m : Puts(e, a, l) /\ Puts(e, a, m) => l = m
    BY <1>5, <1>7
  <1>12. \A a, b, l : Puts(e, a, l) /\ Puts(e, b, l) => a = b
    BY <1>5, <1>7
  <1>13. QED
    BY <1>8, <1>9, <1>10, <1>11, <1>12

\* What the first n entries of a schedule leave does not change when the schedule goes on.
Continues(s, t, n) ==
    n \in Nat /\ n <= Len(s) /\ Len(s) \in Nat /\ DOMAIN s = 1..Len(s) /\ \A i \in 1..Len(s) : i \in DOMAIN t /\ t[i] = s[i]

LEMMA HoldsFurther ==
    ASSUME NEW s, NEW t, NEW n, Continues(s, t, n), NEW list, NEW new, Grown(list, new),
           NEW a, NEW l, Holds(s, list, a, l, n)
    PROVE  Holds(t, new, a, l, n)
  <1>1. n \in Nat /\ \A i \in 1..n : t[i] = s[i]
    BY DEF Continues
  <1>2. l \in DOMAIN list /\ l \in DOMAIN new /\ new[l].input = list[l].input
    BY DEF Grown, Holds
  <1>3. \A i \in 1..n : \A m \in ToSet(t[i].outputs) : Puts(t[i], a, m) => m = l
    BY <1>1 DEF Holds
  <1>4. ASSUME NEW i \in 1..n, l \in ToSet(t[i].outputs)
        PROVE  \E j \in i..n : Puts(t[j], a, l)
    <2>1. PICK j \in i..n : Puts(s[j], a, l)
      BY <1>1, <1>4 DEF Holds
    <2>2. j \in 1..n
      BY <1>1
    <2>3. QED
      BY <1>1, <2>1, <2>2
  <1>5. (\A i \in 1..n : l \notin ToSet(t[i].outputs)) => new[l].input = a
    BY <1>1, <1>2 DEF Holds
  <1>6. QED
    BY <1>2, <1>3, <1>4, <1>5 DEF Holds

\* Entries that write neither a nor l, or a into l, change nothing.
LEMMA HoldsLater ==
    ASSUME NEW s, NEW list, NEW a, NEW l, NEW n \in Nat, NEW k \in Nat, n <= k, Holds(s, list, a, l, n),
           \A i \in (n + 1)..k : /\ l \in ToSet(s[i].outputs) => Puts(s[i], a, l)
                                 /\ \A m \in ToSet(s[i].outputs) : Puts(s[i], a, m) => m = l
    PROVE  Holds(s, list, a, l, k)
  <1>1. \A i \in 1..k : i \in 1..n \/ i \in (n + 1)..k
    OBVIOUS
  <1>2. l \in DOMAIN list
    BY DEF Holds
  <1>3. \A i \in 1..k : \A m \in ToSet(s[i].outputs) : Puts(s[i], a, m) => m = l
    BY <1>1 DEF Holds
  <1>4. ASSUME NEW i \in 1..k, l \in ToSet(s[i].outputs)
        PROVE  \E j \in i..k : Puts(s[j], a, l)
    <2>1. CASE i \in 1..n
      <3>1. PICK j \in i..n : Puts(s[j], a, l)
        BY <1>4, <2>1 DEF Holds
      <3>2. j \in i..k
        OBVIOUS
      <3>3. QED
        BY <3>1, <3>2
    <2>2. CASE i \in (n + 1)..k
      <3>1. i \in i..k
        OBVIOUS
      <3>2. QED
        BY <1>4, <2>2, <3>1
    <2>3. QED
      BY <1>1, <2>1, <2>2
  <1>5. (\A i \in 1..k : l \notin ToSet(s[i].outputs)) => list[l].input = a
    <2>1. \A i \in 1..n : i \in 1..k
      OBVIOUS
    <2>2. QED
      BY <2>1 DEF Holds
  <1>6. QED
    BY <1>2, <1>3, <1>4, <1>5 DEF Holds

LEMMA RightFurther ==
    ASSUME IsProgram, NEW s \in Seq(Entries), NEW t, NEW j \in DOMAIN s, Continues(s, t, j - 1),
           NEW C, NEW list \in Seq(LocOf(C)), NEW D, NEW new \in Seq(LocOf(D)), Grown(list, new),
           IsRight(s, list, j)
    PROVE  IsRight(t, new, j)
  <1>1. t[j] = s[j] /\ j \in Nat /\ \A i \in 1..(j - 1) : t[i] = s[i]
    BY DEF Continues
  <1>2. s[j] \in Entries
    OBVIOUS
  <1>3. IsSafe(s[j], list) /\ IsInTime(s, j) /\ FindsValues(s, list, j)
    BY DEF IsRight
  <1>4. IsSafe(t[j], new)
    <2>1. PICK e : e = s[j]
      OBVIOUS
    <2>2. IsPlaced(e)
      BY <1>3, <2>1 DEF IsSafe
    <2>3. ASSUME NEW l \in ToSet(e.outputs)
          PROVE  /\ l \in DOMAIN list /\ l \in DOMAIN new /\ new[l].contents # NoAlloc
                 /\ new[l].input \notin Inputs(Final) /\ new[l].byte_size >= list[l].byte_size
      BY <1>3, <2>1 DEF IsSafe, Grown
    <2>4. ASSUME NEW a \in Outputs(e.step), NEW l \in ToSet(e.outputs), Puts(e, a, l)
          PROVE  Size(a) <= new[l].byte_size
      <3>1. Size(a) <= list[l].byte_size
        BY <1>3, <2>1, <2>4 DEF IsSafe
      <3>2. list[l] \in LocOf(C) /\ new[l] \in LocOf(D)
        BY <2>3
      <3>3. a \in Allocs
        BY <1>2, <2>1, ProgramTypes DEF Entries
      <3>4. Size(a) \in Nat
        BY <3>3, ProgramTypes
      <3>5. list[l].byte_size \in Nat /\ new[l].byte_size \in Nat
        BY <3>2 DEF LocOf
      <3>6. new[l].byte_size >= list[l].byte_size
        BY <2>3
      <3>7. QED
        BY <3>1, <3>4, <3>5, <3>6
    <2>5. IsSafe(e, new)
      BY <2>2, <2>3, <2>4 DEF IsSafe
    <2>6. QED
      BY <1>1, <2>1, <2>5
  <1>5. IsInTime(t, j)
    BY <1>1, <1>3 DEF IsInTime
  <1>6. \A a, l : Holds(s, list, a, l, j - 1) => Holds(t, new, a, l, j - 1)
    BY HoldsFurther
  <1>7. FindsValues(t, new, j)
    <2>1. ASSUME NEW a \in Inputs(t[j].step)
          PROVE  \E l \in DOMAIN new : Holds(t, new, a, l, j - 1)
      <3>1. PICK l : Holds(s, list, a, l, j - 1)
        BY <1>1, <1>3 DEF FindsValues
      <3>2. Holds(t, new, a, l, j - 1)
        BY <1>6, <3>1
      <3>3. QED
        BY <3>2 DEF Holds
    <2>2. \A a \in Outputs(t[j].step) : \A l \in ToSet(t[j].outputs) :
             Puts(t[j], a, l) /\ MostRecentWriter(a, t[j].step) # 0 => Holds(t, new, a, l, j - 1)
      BY <1>1, <1>3, <1>6 DEF FindsValues
    <2>3. QED
      BY <2>1, <2>2 DEF FindsValues
  <1>8. QED
    BY <1>4, <1>5, <1>7 DEF IsRight

\* A schedule in which each step finds what it needs.
IsSchedule(s, list) ==
    /\ IsProgram /\ s \in Seq(Entries)
    /\ \A i, j \in DOMAIN s : s[i].step = s[j].step => i = j
    /\ IsCorrect(s, list)

LEMMA ScheduleFacts ==
    ASSUME NEW s, NEW list, IsSchedule(s, list)
    PROVE  /\ IsProgram /\ Len(s) \in Nat /\ DOMAIN s = 1..Len(s)
           /\ \A i \in DOMAIN s : /\ s[i] \in Entries /\ s[i].step \in Steps
                                  /\ IsSafe(s[i], list) /\ IsPlaced(s[i]) /\ IsInTime(s, i) /\ FindsValues(s, list, i)
           /\ \A i, j \in DOMAIN s : s[i].step = s[j].step => i = j
  <1>1. IsProgram /\ s \in Seq(Entries) /\ IsCorrect(s, list) /\ \A i, j \in DOMAIN s : s[i].step = s[j].step => i = j
    BY DEF IsSchedule
  <1>2. Len(s) \in Nat /\ DOMAIN s = 1..Len(s)
    BY <1>1
  <1>3. ASSUME NEW i \in DOMAIN s
        PROVE  /\ s[i] \in Entries /\ s[i].step \in Steps
               /\ IsSafe(s[i], list) /\ IsPlaced(s[i]) /\ IsInTime(s, i) /\ FindsValues(s, list, i)
    <2>1. s[i] \in Entries
      BY <1>1
    <2>2. s[i].step \in Steps
      BY <2>1 DEF Entries
    <2>3. QED
      BY <1>1, <2>1, <2>2 DEF IsCorrect, IsRight, IsSafe
  <1>4. QED
    BY <1>1, <1>2, <1>3

\* The writers of a value are scheduled in the order of the program.
LEMMA WritersInOrder ==
    ASSUME NEW s, NEW list, IsSchedule(s, list), NEW i \in DOMAIN s, NEW j \in DOMAIN s,
           NEW a, a \in Outputs(s[i].step), a \in Outputs(s[j].step), s[i].step < s[j].step
    PROVE  i < j
  <1>1. s[i].step \in Steps /\ s[j].step \in Steps /\ IsInTime(s, j) /\ j \in Nat /\ Len(s) \in Nat /\ DOMAIN s = 1..Len(s)
    BY ScheduleFacts
  <1>2. PICK q : q = s[i].step
    OBVIOUS
  <1>3. q \in 1..(s[j].step - 1)
    BY <1>1, <1>2, ProgramTypes, ScheduleFacts DEF Steps
  <1>4. Outputs(q) \cap Outputs(s[j].step) # {}
    BY <1>2
  <1>5. PICK k \in 1..(j - 1) : s[k].step = q
    BY <1>1, <1>3, <1>4 DEF IsInTime
  <1>6. k \in DOMAIN s /\ k < j
    BY <1>1
  <1>7. k = i
    BY <1>2, <1>5, <1>6, ScheduleFacts
  <1>8. QED
    BY <1>6, <1>7

\* Nothing of the first n entries of s has written l; the i-th was the last one to do so.
IsFresh(s, l, n) == \A i \in 1..n : l \notin ToSet(s[i].outputs)
IsLast(s, l, n, i) ==
    i \in 1..n /\ l \in ToSet(s[i].outputs) /\ \A j \in (i + 1)..n : l \notin ToSet(s[j].outputs)

\* The first n entries of s are those of the writers of a before q, and others.
HasWriters(s, a, q, n) ==
    /\ \A r \in 1..(q - 1) : a \in Outputs(r) => \E i \in 1..n : s[i].step = r
    /\ \A i \in 1..n : a \in Outputs(s[i].step) => s[i].step < q

\* If l holds a then the last that has written l is the most recent writer of a.
LEMMA HoldsValue ==
    ASSUME NEW s, NEW list, IsSchedule(s, list), NEW n \in 0..Len(s), NEW a, NEW l, Holds(s, list, a, l, n),
           NEW q \in Steps, HasWriters(s, a, q, n)
    PROVE  /\ l \in DOMAIN list
           /\ MostRecentWriter(a, q) = 0 => IsFresh(s, l, n) /\ list[l].input = a
           /\ MostRecentWriter(a, q) # 0 =>
                 \E i \in 1..n : IsLast(s, l, n, i) /\ Puts(s[i], a, l) /\ s[i].step = MostRecentWriter(a, q)
  <1>1. IsProgram /\ Len(s) \in Nat /\ DOMAIN s = 1..Len(s)
    BY ScheduleFacts
  <1>2. n \in Nat /\ \A i \in 1..n : i \in DOMAIN s
    BY <1>1
  <1>3. PICK r : r = MostRecentWriter(a, q)
    OBVIOUS
  <1>4. /\ r \in 0..(q - 1) /\ q \in Nat
        /\ r # 0 => r \in Steps /\ a \in Outputs(r)
        /\ \A p \in 1..(q - 1) : a \in Outputs(p) => p <= r
    BY <1>1, <1>3, WriterFacts, ProgramTypes DEF Steps
  <1>5. \A i \in 1..n : /\ s[i] \in Entries /\ s[i].step \in Steps /\ s[i].step \in Nat /\ s[i].step >= 1
                        /\ IsPlaced(s[i])
    BY <1>1, <1>2, ScheduleFacts, ProgramTypes DEF Steps
  <1>6. ASSUME NEW i \in 1..n, NEW m, Puts(s[i], a, m)
        PROVE  a \in Outputs(s[i].step) /\ s[i].step <= r
    <2>1. a \in Outputs(s[i].step)
      BY <1>1, <1>5, <1>6, PutsFacts
    <2>2. s[i].step < q
      BY <2>1 DEF HasWriters
    <2>3. s[i].step \in 1..(q - 1)
      BY <1>4, <1>5, <2>2
    <2>4. QED
      BY <1>4, <2>1, <2>3
  <1>7. CASE r = 0
    <2>1. ASSUME NEW i \in 1..n, l \in ToSet(s[i].outputs) PROVE FALSE
      <3>1. PICK j \in i..n : Puts(s[j], a, l)
        BY <2>1 DEF Holds
      <3>2. j \in 1..n
        BY <1>2
      <3>3. s[j].step <= r
        BY <1>6, <3>1, <3>2
      <3>4. s[j].step \in Nat /\ s[j].step >= 1
        BY <1>5, <3>2
      <3>5. QED
        BY <1>7, <3>3, <3>4
    <2>2. IsFresh(s, l, n)
      BY <2>1 DEF IsFresh
    <2>3. list[l].input = a
      BY <2>1 DEF Holds
    <2>4. QED
      BY <1>3, <1>7, <2>2, <2>3 DEF Holds
  <1>8. CASE r # 0
    <2>1. r \in 1..(q - 1) /\ a \in Outputs(r)
      BY <1>4, <1>8
    <2>2. PICK i \in 1..n : s[i].step = r
      BY <2>1 DEF HasWriters
    <2>3. PICK m : Puts(s[i], a, m)
      BY <1>1, <1>5, <2>1, <2>2, PutsFacts
    <2>4. m \in ToSet(s[i].outputs)
      BY <1>1, <1>5, <2>3, PutsFacts
    <2>5. m = l
      BY <2>3, <2>4 DEF Holds
    <2>6. ASSUME NEW j \in (i + 1)..n, l \in ToSet(s[j].outputs) PROVE FALSE
      <3>1. j \in 1..n
        BY <1>2
      <3>2. PICK k \in j..n : Puts(s[k], a, l)
        BY <2>6, <3>1 DEF Holds
      <3>3. k \in 1..n /\ k > i
        BY <1>2, <3>1
      <3>4. a \in Outputs(s[k].step) /\ s[k].step <= r
        BY <1>6, <3>2, <3>3
      <3>5. s[k].step # r
        BY <1>2, <2>2, <3>3, ScheduleFacts
      <3>6. s[k].step < s[i].step
        BY <1>4, <1>5, <2>2, <3>3, <3>4, <3>5
      <3>7. k < i
        BY <1>2, <2>1, <2>2, <3>3, <3>4, <3>6, WritersInOrder
      <3>8. QED
        BY <3>3, <3>7
    <2>7. IsLast(s, l, n, i)
      BY <2>4, <2>5, <2>6 DEF IsLast
    <2>8. QED
      BY <1>3, <1>8, <2>2, <2>3, <2>5, <2>7 DEF Holds
  <1>9. QED
    BY <1>7, <1>8

\* What a step reads has been written by all its writers before.
LEMMA ReadHasWriters ==
    ASSUME NEW s, NEW list, IsSchedule(s, list), NEW j \in DOMAIN s, NEW a \in Inputs(s[j].step)
    PROVE  HasWriters(s, a, s[j].step, j - 1)
  <1>1. IsProgram /\ Len(s) \in Nat /\ DOMAIN s = 1..Len(s)
    BY ScheduleFacts
  <1>2. PICK q \in Steps : q = s[j].step
    BY ScheduleFacts
  <1>3. q \in Nat /\ q >= 1 /\ q <= Final /\ Final \in Nat
    BY <1>1, ProgramTypes DEF Steps
  <1>4. \A i \in 1..(j - 1) : i \in DOMAIN s /\ s[i].step \in Steps /\ s[i].step \in Nat
    BY <1>1, ScheduleFacts, ProgramTypes DEF Steps
  <1>5. CASE IsInput(a)
    <2>1. \A r \in Steps : a \notin Outputs(r)
      BY <1>1, <1>5, InputsUnwritten
    <2>2. \A r \in 1..(q - 1) : r \in Steps
      BY <1>3 DEF Steps
    <2>3. QED
      BY <1>2, <1>4, <2>1, <2>2 DEF HasWriters
  <1>6. CASE ~IsInput(a)
    <2>1. PICK w : w = MostRecentWriter(a, q)
      OBVIOUS
    <2>2. w # 0 /\ w \in Dependencies(q) /\ \A r \in Steps : a \in Outputs(r) => r <= w
      BY <1>1, <1>2, <1>6, <2>1, DependencyFacts
    <2>3. w \in 1..(q - 1) /\ w \in Steps /\ a \in Outputs(w) /\ w \in Nat
      BY <1>1, <1>2, <1>3, <2>1, <2>2, WriterFacts DEF Steps
    <2>4. PICK i \in 1..(j - 1) : s[i].step = w
      BY <1>2, <2>2, <2>3, ScheduleFacts DEF IsInTime
    <2>5. i \in DOMAIN s /\ i \in Nat /\ j \in Nat
      BY <1>1, <1>4
    <2>6. ASSUME NEW r \in 1..(q - 1), a \in Outputs(r)
          PROVE  \E k \in 1..(j - 1) : s[k].step = r
      <3>1. r \in Steps
        BY <1>3 DEF Steps
      <3>2. r <= w
        BY <2>2, <2>6, <3>1
      <3>3. CASE r = w
        BY <2>4, <3>3
      <3>4. CASE r # w
        <4>1. r \in 1..(w - 1)
          BY <1>3, <2>3, <3>2, <3>4
        <4>2. Outputs(r) \cap Outputs(w) # {}
          BY <2>3, <2>6
        <4>3. IsInTime(s, i)
          BY <2>5, ScheduleFacts
        <4>4. PICK k \in 1..(i - 1) : s[k].step = r
          BY <2>4, <4>1, <4>2, <4>3 DEF IsInTime
        <4>5. k \in 1..(j - 1)
          BY <2>5
        <4>6. QED
          BY <4>4, <4>5
      <3>5. QED
        BY <3>3, <3>4
    <2>7. ASSUME NEW k \in 1..(j - 1), a \in Outputs(s[k].step)
          PROVE  s[k].step < q
      <3>1. s[k].step <= w
        BY <1>4, <2>2, <2>7
      <3>2. QED
        BY <1>3, <1>4, <2>3, <3>1
    <2>8. QED
      BY <1>2, <2>6, <2>7 DEF HasWriters
  <1>7. QED
    BY <1>5, <1>6

\* What a step writes has been written by those that come before it in the program.
LEMMA WrittenHasWriters ==
    ASSUME NEW s, NEW list, IsSchedule(s, list), NEW j \in DOMAIN s, NEW a \in Outputs(s[j].step)
    PROVE  HasWriters(s, a, s[j].step, j - 1)
  <1>1. IsProgram /\ Len(s) \in Nat /\ DOMAIN s = 1..Len(s) /\ IsInTime(s, j)
    BY ScheduleFacts
  <1>2. PICK q \in Steps : q = s[j].step
    BY ScheduleFacts
  <1>3. \A i \in 1..(j - 1) : i \in DOMAIN s /\ i < j /\ s[i].step \in Steps /\ s[i].step \in Nat
    BY <1>1, ScheduleFacts, ProgramTypes DEF Steps
  <1>4. q \in Nat
    BY <1>1, ProgramTypes DEF Steps
  <1>5. ASSUME NEW r \in 1..(q - 1), a \in Outputs(r)
        PROVE  \E k \in 1..(j - 1) : s[k].step = r
    <2>1. Outputs(r) \cap Outputs(q) # {}
      BY <1>2, <1>5
    <2>2. QED
      BY <1>1, <1>2, <2>1 DEF IsInTime
  <1>6. ASSUME NEW k \in 1..(j - 1), a \in Outputs(s[k].step)
        PROVE  s[k].step < q
    <2>1. s[k].step # q
      BY <1>2, <1>3, ScheduleFacts
    <2>2. CASE q < s[k].step
      <3>1. j < k
        BY <1>2, <1>3, <1>6, <2>2, WritersInOrder
      <3>2. QED
        BY <1>1, <1>3, <3>1
    <2>3. QED
      BY <1>3, <1>4, <2>1, <2>2
  <1>7. QED
    BY <1>2, <1>5, <1>6 DEF HasWriters

LEMMA WritersBeforeFacts ==
    ASSUME IsProgram, NEW a
    PROVE  /\ WritersBefore(a, 1) = <<>>
           /\ \A p \in Steps : WritersBefore(a, p + 1)
                = IF a \in Outputs(p) THEN Append(WritersBefore(a, p), p) ELSE WritersBefore(a, p)
  <1> DEFINE n == Final
             D == Seq(Nat)
             Next(s, k) == IF a \in Outputs(k) THEN Append(s, k) ELSE s
             Is(f) == f = [k \in 0..n |-> IF k = 0 THEN <<>> ELSE Next(f[k - 1], k)]
             F == [x \in (1..n) \X D |-> Next(x[2], x[1])]
  <1>1. n \in Nat /\ <<>> \in D
    BY ProgramTypes
  <1>2. F \in StepsIn(n, D)
    <2> SUFFICES ASSUME NEW x \in (1..n) \X D PROVE Next(x[2], x[1]) \in D
      BY DEF StepsIn
    <2>1. x[2] \in Seq(Nat) /\ x[1] \in Nat
      BY <1>1
    <2>2. QED
      BY <2>1
  <1> HIDE DEF n, D
  <1>3. PICK f : IsRun(f, n, D, <<>>, F)
    <2> HIDE DEF F
    <2>1. QED
      BY <1>1, <1>2, Repeated
  <1>4. ASSUME NEW k \in 1..n
        PROVE  f[k] = Next(f[k - 1], k)
    <2>1. f[k - 1] \in D
      BY <1>1, <1>3 DEF IsRun
    <2>2. QED
      BY <1>3, <2>1 DEF IsRun
  <1>5. Is(f)
    <2> HIDE DEF Next, F
    <2>1. QED
      BY <1>1, <1>3, <1>4 DEF IsRun
  <1>6. Is(CHOOSE g : Is(g))
    <2> HIDE DEF Is
    <2>1. QED
      BY <1>5
  <1>7. \A p : WritersBefore(a, p) = (CHOOSE g : Is(g))[p - 1]
    BY DEF WritersBefore, n
  <1> HIDE DEF Next
  <1>8. ASSUME NEW g, Is(g)
        PROVE  g[0] = <<>> /\ \A k \in 1..n : g[k] = Next(g[k - 1], k)
    BY <1>1, <1>8
  <1>9. PICK g : g[0] = <<>> /\ (\A k \in 1..n : g[k] = Next(g[k - 1], k)) /\ \A p : WritersBefore(a, p) = g[p - 1]
    <2> HIDE DEF Is
    <2>1. QED
      BY <1>6, <1>7, <1>8
  <1>10. ASSUME NEW p \in Steps
         PROVE  WritersBefore(a, p + 1) = IF a \in Outputs(p) THEN Append(WritersBefore(a, p), p) ELSE WritersBefore(a, p)
    <2>1. p \in 1..n /\ (p + 1) - 1 = p
      BY <1>1 DEF Steps, n
    <2>2. WritersBefore(a, p + 1) = g[p] /\ WritersBefore(a, p) = g[p - 1] /\ g[p] = Next(g[p - 1], p)
      BY <1>9, <2>1
    <2>3. QED
      BY <2>2 DEF Next
  <1>11. WritersBefore(a, 1) = <<>>
    BY <1>9
  <1>12. QED
    BY <1>10, <1>11

LEMMA WritersSince ==
    ASSUME IsProgram, NEW q \in Steps, NEW a
    PROVE  WritersBefore(a, q) = IF MostRecentWriter(a, q) = 0 THEN <<>> ELSE WritersBefore(a, MostRecentWriter(a, q) + 1)
  <1>1. PICK w : w = MostRecentWriter(a, q)
    OBVIOUS
  <1>2. w \in 0..(q - 1) /\ q \in 1..Final /\ Final \in Nat /\ \A p \in 1..(q - 1) : a \in Outputs(p) => p <= w
    BY <1>1, WriterFacts, ProgramTypes DEF Steps
  <1> DEFINE n == q - 1 - w
             T == {k \in 0..n : WritersBefore(a, w + 1 + k) = WritersBefore(a, w + 1)}
  <1>3. n \in Nat /\ q \in Nat /\ w \in Nat
    BY <1>2
  <1>4. 0 \in T
    <2>1. w + 1 + 0 = w + 1 /\ 0 \in 0..n
      BY <1>3
    <2>2. QED
      BY <2>1
  <1>5. ASSUME NEW k \in 1..n, k - 1 \in T
        PROVE  k \in T
    <2>1. PICK p : p = w + k
      OBVIOUS
    <2>2. p \in 1..(q - 1) /\ p > w /\ w + 1 + k = p + 1 /\ w + 1 + (k - 1) = p /\ p \in Steps /\ p \in Nat
      BY <1>2, <1>3, <2>1 DEF Steps
    <2>3. ~(p <= w)
      BY <1>3, <2>2
    <2>4. a \notin Outputs(p)
      BY <1>2, <2>2, <2>3
    <2>5. WritersBefore(a, p + 1) = WritersBefore(a, p)
      BY <2>2, <2>4, WritersBeforeFacts
    <2>6. WritersBefore(a, w + 1 + (k - 1)) = WritersBefore(a, w + 1)
      BY <1>5
    <2>7. k \in 0..n
      OBVIOUS
    <2> HIDE DEF n
    <2>8. QED
      BY <2>2, <2>5, <2>6, <2>7
  <1>6. n \in T
    <2> HIDE DEF T
    <2>1. 0..n \subseteq T
      BY <1>3, <1>4, <1>5, UpTo
    <2>2. n \in 0..n
      BY <1>3
    <2>3. QED
      BY <2>1, <2>2
  <1>7. w + 1 + n = q
    BY <1>3
  <1>8. WritersBefore(a, q) = WritersBefore(a, w + 1)
    <2>1. WritersBefore(a, w + 1 + n) = WritersBefore(a, w + 1)
      BY <1>6
    <2> HIDE DEF n
    <2>2. QED
      BY <1>7, <2>1
  <1>9. w = 0 => WritersBefore(a, w + 1) = <<>>
    BY WritersBeforeFacts
  <1>10. QED
    BY <1>1, <1>8, <1>9

LEMMA LastUnique ==
    ASSUME NEW s, NEW l, NEW n \in Nat, NEW i, NEW j, IsLast(s, l, n, i), IsLast(s, l, n, j)
    PROVE  i = j
  <1>1. i \in 1..n /\ j \in 1..n
    BY DEF IsLast
  <1>2. ~(i < j)
    <2>1. i < j => j \in (i + 1)..n
      BY <1>1
    <2>2. QED
      BY <2>1 DEF IsLast
  <1>3. ~(j < i)
    <2>1. j < i => i \in (j + 1)..n
      BY <1>1
    <2>2. QED
      BY <2>1 DEF IsLast
  <1>4. QED
    BY <1>1, <1>2, <1>3

LEMMA LastExists ==
    ASSUME NEW s, NEW l, NEW n \in Nat, ~IsFresh(s, l, n)
    PROVE  \E i : IsLast(s, l, n, i)
  <1>1. PICK S : S = {i \in 1..n : l \in ToSet(s[i].outputs)}
    OBVIOUS
  <1>2. S \in SUBSET (0..n) /\ S # {}
    BY <1>1 DEF IsFresh
  <1>3. PICK i : i = Max(S)
    OBVIOUS
  <1>4. i \in S /\ \A j \in S : j <= i
    BY <1>2, <1>3, MaxOf
  <1>5. i \in 1..n /\ l \in ToSet(s[i].outputs)
    BY <1>1, <1>4
  <1>6. ASSUME NEW j \in (i + 1)..n, l \in ToSet(s[j].outputs) PROVE FALSE
    <2>1. j \in 1..n /\ ~(j <= i)
      BY <1>5
    <2>2. QED
      BY <1>1, <1>4, <1>6, <2>1
  <1>7. IsLast(s, l, n, i)
    BY <1>5, <1>6 DEF IsLast
  <1>8. QED
    BY <1>7

\* What the first n entries of s leave in l.
LastOf(s, l, n) == CHOOSE i : IsLast(s, l, n, i)
AllocIn(e, l) == CHOOSE a : Puts(e, a, l)
ValueAfter(a, p) == [alloc |-> a, by |-> WritersBefore(a, p + 1)]
Content(s, list, l, n) ==
    IF IsFresh(s, l, n) THEN [alloc |-> list[l].input, by |-> <<>>]
    ELSE ValueAfter(AllocIn(s[LastOf(s, l, n)], l), s[LastOf(s, l, n)].step)

LEMMA LastFacts ==
    ASSUME NEW s, NEW list, IsSchedule(s, list), NEW n \in 0..Len(s), NEW l, NEW i, IsLast(s, l, n, i),
           NEW a, Puts(s[i], a, l)
    PROVE  LastOf(s, l, n) = i /\ AllocIn(s[i], l) = a /\ ~IsFresh(s, l, n)
  <1>1. IsLast(s, l, n, LastOf(s, l, n))
    BY DEF LastOf
  <1>2. n \in Nat /\ i \in 1..n /\ i \in DOMAIN s
    BY ScheduleFacts DEF IsLast
  <1>3. LastOf(s, l, n) = i
    BY <1>1, <1>2, LastUnique
  <1>4. Puts(s[i], AllocIn(s[i], l), l)
    BY DEF AllocIn
  <1>5. s[i] \in Entries /\ IsPlaced(s[i]) /\ IsProgram
    BY <1>2, ScheduleFacts
  <1>6. AllocIn(s[i], l) = a
    BY <1>4, <1>5, PutsFacts
  <1>7. ~IsFresh(s, l, n)
    BY <1>2 DEF IsFresh, IsLast
  <1>8. QED
    BY <1>3, <1>6, <1>7

LEMMA ContentLast ==
    ASSUME NEW s, NEW list, IsSchedule(s, list), NEW n \in 0..Len(s), NEW l, NEW i, IsLast(s, l, n, i),
           NEW a, Puts(s[i], a, l), NEW p, p = s[i].step
    PROVE  Content(s, list, l, n) = ValueAfter(a, p)
  BY LastFacts DEF Content

LEMMA ContentHeld ==
    ASSUME NEW s, NEW list, IsSchedule(s, list), NEW n \in 0..Len(s), NEW a, NEW l, Holds(s, list, a, l, n),
           NEW q \in Steps, HasWriters(s, a, q, n)
    PROVE  Content(s, list, l, n) = ValueFor(a, q)
  <1>1. IsProgram
    BY ScheduleFacts
  <1>2. PICK w : w = MostRecentWriter(a, q)
    OBVIOUS
  <1>3. WritersBefore(a, q) = IF w = 0 THEN <<>> ELSE WritersBefore(a, w + 1)
    BY <1>1, <1>2, WritersSince
  <1>4. CASE w = 0
    <2>1. MostRecentWriter(a, q) = 0 => IsFresh(s, l, n) /\ list[l].input = a
      BY HoldsValue
    <2>2. QED
      BY <1>2, <1>3, <1>4, <2>1 DEF Content, ValueFor
  <1>5. CASE w # 0
    <2>1. PICK i \in 1..n : IsLast(s, l, n, i) /\ Puts(s[i], a, l) /\ s[i].step = w
      BY <1>2, <1>5, HoldsValue
    <2>2. Content(s, list, l, n) = ValueAfter(a, w)
      <3>1. IsLast(s, l, n, i) /\ Puts(s[i], a, l)
        BY <2>1
      <3>2. QED
        BY <2>1, <3>1, ContentLast
    <2>3. QED
      BY <1>3, <1>5, <2>1, <2>2 DEF ValueFor, ValueAfter
  <1>6. QED
    BY <1>4, <1>5

\* An entry that does not write l leaves what is in it.
LEMMA ContentKept ==
    ASSUME NEW s, NEW list, IsSchedule(s, list), NEW j \in DOMAIN s, NEW l, l \notin ToSet(s[j].outputs)
    PROVE  /\ IsFresh(s, l, j) = IsFresh(s, l, j - 1)
           /\ ~IsFresh(s, l, j) => LastOf(s, l, j) = LastOf(s, l, j - 1)
           /\ Content(s, list, l, j) = Content(s, list, l, j - 1)
  <1>1. j \in Nat /\ j - 1 \in Nat /\ j - 1 \in 0..Len(s) /\ \A i \in 1..j : i \in 1..(j - 1) \/ i = j
    BY ScheduleFacts
  <1>2. IsFresh(s, l, j) = IsFresh(s, l, j - 1)
    BY <1>1 DEF IsFresh
  <1>3. CASE IsFresh(s, l, j)
    BY <1>2, <1>3 DEF Content
  <1>4. CASE ~IsFresh(s, l, j)
    <2>1. PICK i : IsLast(s, l, j - 1, i)
      BY <1>1, <1>2, <1>4, LastExists
    <2>2. IsLast(s, l, j, i)
      <3>1. i \in 1..(j - 1) /\ l \in ToSet(s[i].outputs) /\ \A k \in (i + 1)..(j - 1) : l \notin ToSet(s[k].outputs)
        BY <2>1 DEF IsLast
      <3>2. i \in 1..j /\ \A k \in (i + 1)..j : k \in (i + 1)..(j - 1) \/ k = j
        BY <1>1, <3>1
      <3>3. QED
        BY <3>1, <3>2 DEF IsLast
    <2>3. LastOf(s, l, j) = i
      <3>1. IsLast(s, l, j, LastOf(s, l, j))
        BY <2>2 DEF LastOf
      <3>2. QED
        BY <1>1, <2>2, <3>1, LastUnique
    <2>4. LastOf(s, l, j - 1) = i
      <3>1. IsLast(s, l, j - 1, LastOf(s, l, j - 1))
        BY <2>1 DEF LastOf
      <3>2. QED
        BY <1>1, <2>1, <3>1, LastUnique
    <2>5. QED
      BY <1>2, <1>4, <2>3, <2>4 DEF Content
  <1>5. QED
    BY <1>2, <1>3, <1>4

LEMMA ContentWritten ==
    ASSUME NEW s, NEW list, IsSchedule(s, list), AreInputsApart(list), NEW j \in DOMAIN s,
           NEW l, NEW a, Puts(s[j], a, l)
    PROVE  /\ ~IsFresh(s, l, j) /\ LastOf(s, l, j) = j /\ AllocIn(s[j], l) = a
           /\ Content(s, list, l, j)
                = [alloc |-> a,
                   by |-> IF Content(s, list, l, j - 1).alloc = a THEN Append(Content(s, list, l, j - 1).by, s[j].step)
                          ELSE <<s[j].step>>]
           /\ MostRecentWriter(a, s[j].step) # 0 => Content(s, list, l, j - 1) = ValueFor(a, s[j].step)
  <1>1. IsProgram /\ Len(s) \in Nat /\ j \in 1..Len(s) /\ s[j] \in Entries /\ IsPlaced(s[j]) /\ IsSafe(s[j], list)
        /\ FindsValues(s, list, j)
    BY ScheduleFacts
  <1>2. PICK q \in Steps : q = s[j].step
    BY ScheduleFacts
  <1>3. a \in Outputs(q) /\ l \in ToSet(s[j].outputs)
    BY <1>1, <1>2, PutsFacts
  <1>4. IsLast(s, l, j, j)
    BY <1>1, <1>3 DEF IsLast
  <1>5. LastOf(s, l, j) = j /\ AllocIn(s[j], l) = a /\ Content(s, list, l, j) = [alloc |-> a, by |-> WritersBefore(a, q + 1)]
    <2>1. j \in 0..Len(s)
      BY <1>1
    <2>2. LastOf(s, l, j) = j /\ AllocIn(s[j], l) = a
      BY <1>4, <2>1, LastFacts
    <2>3. Content(s, list, l, j) = ValueAfter(a, q)
      BY <1>2, <1>4, <2>1, ContentLast
    <2>4. QED
      BY <1>2, <2>2, <2>3 DEF ValueAfter
  <1>6. ~IsFresh(s, l, j)
    BY <1>1, <1>3 DEF IsFresh
  <1>7. WritersBefore(a, q + 1) = Append(WritersBefore(a, q), q)
    BY <1>1, <1>3, WritersBeforeFacts
  <1>8. HasWriters(s, a, q, j - 1) /\ j - 1 \in 0..Len(s)
    BY <1>1, <1>2, <1>3, WrittenHasWriters
  <1>9. CASE MostRecentWriter(a, q) # 0
    <2>1. Holds(s, list, a, l, j - 1)
      BY <1>1, <1>2, <1>3, <1>9 DEF FindsValues
    <2>2. Content(s, list, l, j - 1) = ValueFor(a, q)
      BY <1>8, <2>1, ContentHeld
    <2>3. Content(s, list, l, j - 1).alloc = a /\ Content(s, list, l, j - 1).by = WritersBefore(a, q)
      BY <2>2 DEF ValueFor
    <2>4. QED
      BY <1>2, <1>5, <1>6, <1>7, <2>2, <2>3
  <1>10. CASE MostRecentWriter(a, q) = 0
    <2>1. WritersBefore(a, q) = <<>>
      BY <1>1, <1>10, WritersSince
    <2>2. Content(s, list, l, j - 1).alloc # a
      <3>1. CASE IsFresh(s, l, j - 1)
        <4>1. Content(s, list, l, j - 1).alloc = list[l].input
          BY <3>1 DEF Content
        <4>2. l \in DOMAIN list /\ a \in Allocs /\ a # NoAlloc
          BY <1>1, <1>3, ProgramTypes DEF IsSafe, IsProgram
        <4>3. ~IsInput(a)
          BY <1>1, <1>3, InputsUnwritten
        <4>4. QED
          BY <4>1, <4>2, <4>3 DEF AreInputsApart
      <3>2. CASE ~IsFresh(s, l, j - 1)
        <4>1. PICK i : IsLast(s, l, j - 1, i)
          BY <1>1, <3>2, LastExists
        <4>2. i \in 1..(j - 1) /\ i \in DOMAIN s /\ l \in ToSet(s[i].outputs)
          BY <1>1, <4>1, ScheduleFacts DEF IsLast
        <4>3. s[i] \in Entries /\ IsPlaced(s[i]) /\ s[i].step \in Steps
          BY <4>2, ScheduleFacts
        <4>4. PICK b : Puts(s[i], b, l)
          BY <1>1, <4>2, <4>3, PutsFacts
        <4>5. Content(s, list, l, j - 1).alloc = b
          <5>0. PICK r : r = s[i].step
            OBVIOUS
          <5>1. Content(s, list, l, j - 1) = ValueAfter(b, r)
            BY <1>8, <4>1, <4>4, <5>0, ContentLast
          <5>2. QED
            BY <5>1 DEF ValueAfter
        <4>6. ASSUME b = a PROVE FALSE
          <5>1. a \in Outputs(s[i].step)
            BY <1>1, <4>3, <4>4, <4>6, PutsFacts
          <5>2. s[i].step < q
            BY <1>8, <4>2, <5>1 DEF HasWriters
          <5>3. s[i].step \in 1..(q - 1) /\ s[i].step \in Nat
            BY <1>1, <4>3, <5>2, ProgramTypes DEF Steps
          <5>4. s[i].step <= 0
            BY <1>1, <1>10, <5>1, <5>3, WriterFacts
          <5>5. QED
            BY <5>3, <5>4
        <4>7. QED
          BY <4>5, <4>6
      <3>3. QED
        BY <3>1, <3>2
    <2>3. Append(WritersBefore(a, q), q) = <<q>>
      BY <2>1
    <2>4. QED
      BY <1>2, <1>5, <1>6, <1>7, <1>10, <2>2, <2>3
  <1>11. QED
    BY <1>9, <1>10

-----------------------------------------------------------------------------
(* The invariant of what has been scheduled *)

\* The values that are known, and the outputs of the running steps, are in their locs.
ValuesHeld ==
    /\ \A a \in DOMAIN value_locs : Holds(scheduled, locs, a, value_locs[a], Len(scheduled))
    /\ \A i \in Running : \A a \in Outputs(scheduled[i].step) : \A l \in ToSet(scheduled[i].outputs) :
          Puts(scheduled[i], a, l) => Holds(scheduled, locs, a, l, Len(scheduled))

\* A value that has been given up is not to survive, and was there to be read.
ValuesKept ==
    \A a \in Allocs :
        /\ IsInput(a) \/ \E q \in Retired : ~IsZero(q) /\ a \in Outputs(q)
        /\ a \notin DOMAIN value_locs
        => a \notin Inputs(Final) /\ \E q \in Steps : a \in Inputs(q)

ScheduleInv ==
    /\ FifoInv
    /\ IsCorrect(scheduled, locs) /\ AreInputsApart(locs) /\ ValuesHeld /\ ValuesKept

\* The step p goes to the end of the schedule, which becomes s, and the locs become new.
Goes(p, s, n, m, new) ==
    /\ ScheduleInv /\ AppliedParts(p, s, n, m)
    /\ p \in Runnable
    /\ Grown(locs, new) /\ \A l \in DOMAIN new : LocFits(new[l])
    /\ \A l \in DOMAIN Plan(p).locs : l \in DOMAIN new /\ new[l].contents = Plan(p).locs[l].contents
    /\ \A l \in DOMAIN locs : l \notin ToSet(free_locs) => l \in DOMAIN new /\ new[l].contents = locs[l].contents

LEMMA GoesParts ==
    ASSUME NEW p, NEW s, NEW n, NEW m, NEW new, Goes(p, s, n, m, new)
    PROVE  /\ FifoTypes /\ IsProgram /\ StepsOnce /\ StepsOrdered /\ OutputsHeld /\ ValuesAlive
           /\ IsCorrect(scheduled, locs) /\ AreInputsApart(locs) /\ ValuesHeld /\ ValuesKept
           /\ p \in Steps /\ p \in pending /\ ~IsZero(p)
           /\ Dependencies(p) \subseteq Retired
           /\ \A a \in Outputs(p) : \A q \in 1..(p - 1) : a \in Outputs(q) /\ ~IsZero(q) => q \in Retired
           /\ n \in Nat /\ m \in Nat /\ n = Len(scheduled) /\ s \in Seq(Entries)
           /\ \A i \in 1..n : i \in DOMAIN scheduled /\ s[i] = scheduled[i]
           /\ \A q \in Retired : \E i \in 1..n : s[i].step = q
           /\ AppliedParts(p, s, n, m) /\ \E C : Memory(C)
  <1>1. FifoInv /\ AppliedParts(p, s, n, m) /\ p \in Runnable
    BY DEF Goes, ScheduleInv
  <1>2. FifoTypes /\ IsProgram /\ StepsOnce /\ StepsOrdered /\ OutputsHeld /\ ValuesAlive /\ \E C : Memory(C)
    BY <1>1, FifoInvParts
  <1>3. IsCorrect(scheduled, locs) /\ AreInputsApart(locs) /\ ValuesHeld /\ ValuesKept
    BY DEF Goes, ScheduleInv
  <1>4. /\ p \in Steps /\ p \in pending /\ ~IsZero(p)
        /\ Dependencies(p) \subseteq Retired
        /\ \A a \in Outputs(p) : \A q \in 1..(p - 1) : a \in Outputs(q) /\ ~IsZero(q) => q \in Retired
    BY <1>1, <1>2, RunnableFacts
  <1>5. /\ n \in Nat /\ m \in Nat /\ n = Len(scheduled) /\ s \in Seq(Entries)
        /\ \A i \in 1..n : i \in DOMAIN scheduled /\ s[i] = scheduled[i]
        /\ \A i \in DOMAIN scheduled : i \in 1..n
    BY <1>1 DEF AppliedParts
  <1>6. ASSUME NEW q \in Retired PROVE \E i \in 1..n : s[i].step = q
    <2>1. PICK i \in DOMAIN scheduled : scheduled[i].step = q
      BY <1>2, RetiredFacts
    <2>2. QED
      BY <1>5, <2>1
  <1>7. QED
    BY <1>1, <1>2, <1>3, <1>4, <1>5, <1>6

\* Each output of p has a loc of its own; that is where its value was, if it had one.
LEMMA EntryPuts ==
    ASSUME NEW p, NEW s, NEW n, NEW m, NEW new, Goes(p, s, n, m, new)
    PROVE  /\ Entry(p) \in Entries /\ Entry(p).step = p /\ IsPlaced(Entry(p))
           /\ \A a, l : Puts(Entry(p), a, l) =>
                 l \in DOMAIN new /\ new[l].contents = a /\ (a \in DOMAIN value_locs => l = value_locs[a])
  <1>1. IsProgram /\ p \in Steps
    BY GoesParts
  <1>2. PICK C : Memory(C)
    BY GoesParts
  <1>3. PICK plan : plan = Plan(p)
    OBVIOUS
  <1>4. plan \in Plans(C) /\ PlanOf(plan, p, Len(StepOf(p).outputs))
    BY <1>1, <1>2, <1>3, PlanFacts
  <1>5. plan.outputs \in Seq(Nat) /\ StepOf(p).outputs \in Seq(Allocs) /\ IsInjective(StepOf(p).outputs)
    BY <1>1, <1>4, ProgramTypes DEF Plans
  <1>6. PICK o \in Seq(Nat) : o = plan.outputs
    BY <1>5
  <1>7. PICK outs \in Seq(Allocs) : outs = StepOf(p).outputs /\ IsInjective(outs)
    BY <1>5
  <1>8. /\ Len(o) = Len(outs)
        /\ \A i \in 1..Len(outs) : /\ o[i] \in DOMAIN plan.locs /\ plan.locs[o[i]].contents = outs[i]
                                   /\ outs[i] \in DOMAIN value_locs => o[i] = value_locs[outs[i]]
    BY <1>4, <1>6, <1>7 DEF PlanOf
  <1>9. PICK e : e = Entry(p)
    OBVIOUS
  <1>10. e.step = p /\ e.outputs = o /\ e \in Entries
    BY <1>1, <1>3, <1>6, <1>9 DEF Entry, Entries
  <1>11. DOMAIN o = 1..Len(outs) /\ DOMAIN outs = 1..Len(outs)
    BY <1>8
  <1>12. IsPlaced(e)
    <2>1. \A i, j \in DOMAIN outs : outs[i] = outs[j] => i = j
      BY <1>7 DEF IsInjective
    <2>2. \A i, j \in DOMAIN o : o[i] = o[j] => i = j
      BY <1>8, <1>11, <2>1
    <2>3. IsInjective(o)
      BY <2>2 DEF IsInjective
    <2>4. QED
      BY <1>7, <1>8, <1>10, <2>3 DEF IsPlaced
  <1>13. ASSUME NEW a, NEW l, Puts(e, a, l)
         PROVE  l \in DOMAIN new /\ new[l].contents = a /\ (a \in DOMAIN value_locs => l = value_locs[a])
    <2>1. PICK k \in DOMAIN o : o[k] = l /\ outs[k] = a
      BY <1>7, <1>10, <1>13 DEF Puts
    <2>2. l \in DOMAIN plan.locs /\ plan.locs[l].contents = a /\ (a \in DOMAIN value_locs => l = value_locs[a])
      BY <1>8, <1>11, <2>1
    <2>3. QED
      BY <1>3, <2>2 DEF Goes
  <1>14. QED
    BY <1>9, <1>10, <1>12, <1>13

\* The zero steps leave their outputs where p is to leave them.
LEMMA NewPuts ==
    ASSUME NEW p, NEW s, NEW n, NEW m, NEW new, Goes(p, s, n, m, new), NEW i \in (n + 1)..(n + m + 1)
    PROVE  /\ s[i] \in Entries /\ IsPlaced(s[i])
           /\ \A a, l : Puts(s[i], a, l) => Puts(Entry(p), a, l)
           /\ \A l \in ToSet(s[i].outputs) : \E a : Puts(s[i], a, l)
           /\ i = n + m + 1 => s[i] = Entry(p)
           /\ i # n + m + 1 => \E a, l : Clears(s[i], p, a, l)
  <1>1. IsProgram /\ p \in Steps /\ n \in Nat /\ m \in Nat /\ AppliedParts(p, s, n, m) /\ s \in Seq(Entries)
    BY GoesParts
  <1>2. /\ i \in DOMAIN s /\ i \in Nat
        /\ s[n + m + 1] = Entry(p)
        /\ \A k \in (n + 1)..(n + m) : \E a, l : Clears(s[k], p, a, l)
    BY <1>1 DEF AppliedParts
  <1>3. s[i] \in Entries
    BY <1>1, <1>2
  <1>4. CASE i = n + m + 1
    <2>1. s[i] = Entry(p) /\ IsPlaced(s[i])
      BY <1>2, <1>4, EntryPuts
    <2>2. \A l \in ToSet(s[i].outputs) : \E a : Puts(s[i], a, l)
      BY <1>1, <1>3, <2>1, PutsFacts
    <2>3. QED
      BY <1>3, <1>4, <2>1, <2>2
  <1>5. CASE i # n + m + 1
    <2>1. i \in (n + 1)..(n + m)
      BY <1>1, <1>5
    <2>2. PICK a, l : Clears(s[i], p, a, l)
      BY <1>2, <2>1
    <2>3. PICK e \in Entries : e = s[i]
      BY <1>3
    <2>4. /\ e.outputs = <<l>> /\ Len(StepOf(e.step).outputs) = 1 /\ StepOf(e.step).outputs[1] = a
      BY <1>1, <2>2, <2>3, ClearsFacts
    <2>5. DOMAIN e.outputs = 1..1 /\ e.outputs[1] = l /\ Len(e.outputs) = 1
      BY <2>4
    <2>6. IsPlaced(e)
      BY <2>4, <2>5 DEF IsPlaced, IsInjective
    <2>7. ASSUME NEW b, NEW k, Puts(e, b, k) PROVE b = a /\ k = l
      BY <2>4, <2>5, <2>7 DEF Puts
    <2>8. Puts(Entry(p), a, l)
      BY <2>2 DEF Clears
    <2>9. \A k \in ToSet(e.outputs) : \E b : Puts(e, b, k)
      BY <1>1, <2>6, PutsFacts
    <2>10. \A b, k : Puts(e, b, k) => Puts(Entry(p), b, k)
      BY <2>7, <2>8
    <2>11. QED
      BY <1>3, <1>5, <2>2, <2>3, <2>6, <2>9, <2>10
  <1>6. QED
    BY <1>4, <1>5

\* What the new entries do to a loc whose contents is a.
LEMMA NewInto ==
    ASSUME NEW p, NEW s, NEW n, NEW m, NEW new, Goes(p, s, n, m, new), NEW i \in (n + 1)..(n + m + 1),
           NEW l \in DOMAIN new, l \in ToSet(s[i].outputs)
    PROVE  Puts(s[i], new[l].contents, l) /\ Puts(Entry(p), new[l].contents, l)
  <1>1. PICK a : Puts(s[i], a, l)
    BY NewPuts
  <1>2. Puts(Entry(p), a, l)
    BY <1>1, NewPuts
  <1>3. new[l].contents = a
    BY <1>2, EntryPuts
  <1>4. QED
    BY <1>1, <1>2, <1>3

\* What has been scheduled and writes an output of p comes before p and has retired, or is a
\* zero step that has.
LEMMA OldWriters ==
    ASSUME NEW p, NEW s, NEW n, NEW m, NEW new, Goes(p, s, n, m, new), NEW i \in 1..n,
           NEW a \in Outputs(p), a \in Outputs(scheduled[i].step)
    PROVE  /\ MostRecentWriter(a, p) # 0 /\ ~IsZero(MostRecentWriter(a, p))
           /\ i \notin Running
  <1>1. /\ FifoTypes /\ IsProgram /\ StepsOnce /\ StepsOrdered /\ p \in Steps /\ p \in pending /\ ~IsZero(p)
        /\ n \in Nat /\ i \in DOMAIN scheduled /\ AppliedParts(p, s, n, m)
        /\ \A b \in Outputs(p) : \A q \in 1..(p - 1) : b \in Outputs(q) /\ ~IsZero(q) => q \in Retired
    BY GoesParts
  <1>2. PICK q \in Steps : q = scheduled[i].step
    BY <1>1, RetiredFacts DEF Entries
  <1>3. Final \in Nat /\ p \in 1..Final /\ q \in 1..Final
    BY <1>1, ProgramTypes DEF Steps
  <1>4. p \notin Retired
    <2>1. \A k \in DOMAIN scheduled : scheduled[k].step # p
      BY <1>1 DEF StepsOnce
    <2>2. QED
      BY <1>1, <2>1, RetiredFacts
  <1>5. q # p
    BY <1>1, <1>2 DEF StepsOnce
  <1>6. ASSUME NEW u \in Steps, NEW k \in DOMAIN scheduled, scheduled[k].step = u, a \in Outputs(u)
        PROVE  u < p
    <2>1. u # p
      BY <1>1, <1>6 DEF StepsOnce
    <2>2. u \in 1..Final
      BY DEF Steps
    <2>3. CASE u > p
      <3>1. p \in 1..(u - 1)
        BY <1>3, <2>2, <2>3
      <3>2. p \in Retired
        BY <1>1, <1>6, <3>1 DEF StepsOrdered
      <3>3. QED
        BY <1>4, <3>2
    <2>4. QED
      BY <1>3, <2>1, <2>2, <2>3
  <1>7. q < p
    BY <1>1, <1>2, <1>6
  <1>8. PICK w : w = MostRecentWriter(a, p)
    OBVIOUS
  <1>9. q \in 1..(p - 1) /\ w \in 0..(p - 1) /\ q <= w /\ (w # 0 => w \in Steps /\ a \in Outputs(w))
    <2>1. q \in 1..(p - 1)
      BY <1>3, <1>7
    <2>2. QED
      BY <1>1, <1>2, <1>8, <2>1, WriterFacts
  <1>10. w # 0
    BY <1>3, <1>9
  <1>11. ~IsZero(w)
    <2> SUFFICES ASSUME IsZero(w) PROVE FALSE
      OBVIOUS
    <2>1. w \in Steps /\ a \in Outputs(w) /\ \A r \in 1..(w - 1) : a \notin Outputs(r)
      BY <1>1, <1>9, <1>10, ZeroFacts
    <2>2. q = w
      <3>1. q < w => q \in 1..(w - 1)
        BY <1>3, <1>9
      <3>2. QED
        BY <1>2, <1>3, <1>9, <2>1, <3>1
    <2>3. PICK C : Memory(C)
      BY GoesParts
    <2>4. IsCleared(a, p)
      BY <1>8, <1>10 DEF IsCleared
    <2>5. PICK k \in DOMAIN ZeroEntries(p) : \E l : Clears(ZeroEntries(p)[k], p, a, l)
      BY <1>1, <2>3, <2>4, ZeroEntriesFacts
    <2>6. ZeroEntries(p)[k].step = w
      BY <1>8, <2>5 DEF Clears
    <2>7. scheduled[i].step # ZeroEntries(p)[k].step
      BY <1>1, <2>3, ZeroEntriesNew
    <2>8. QED
      BY <1>2, <2>2, <2>6, <2>7
  <1>12. i \notin Running
    <2> SUFFICES ASSUME i \in Running PROVE FALSE
      OBVIOUS
    <2>1. ASSUME NEW u \in Steps, NEW k \in DOMAIN scheduled, scheduled[k].step = u, a \in Outputs(u), ~IsZero(u)
          PROVE  k < running
      <3>1. u < p
        BY <1>6, <2>1
      <3>2. u \in 1..(p - 1)
        BY <1>3, <3>1 DEF Steps
      <3>3. u \in Retired
        BY <1>1, <2>1, <3>2
      <3>4. PICK j \in DOMAIN scheduled : j < running /\ scheduled[j].step = u
        BY <1>1, <3>3, RetiredFacts
      <3>5. j = k
        BY <1>1, <2>1, <3>4 DEF StepsOnce
      <3>6. QED
        BY <3>4, <3>5
    <2>2. i >= running /\ i \in Nat /\ running \in Nat /\ DOMAIN scheduled = 1..Len(scheduled) /\ Len(scheduled) \in Nat
      BY <1>1, RetiredFacts
    <2>3. CASE ~IsZero(q)
      BY <1>1, <1>2, <2>1, <2>2, <2>3
    <2>4. CASE IsZero(q)
      <3>1. PICK u \in Steps, j \in DOMAIN scheduled :
               j > i /\ scheduled[j].step = u /\ \A b \in Outputs(q) : b \in Outputs(u) /\ MostRecentWriter(b, u) = q
        BY <1>1, <1>2, <2>4 DEF StepsOrdered
      <3>2. a \in Outputs(u) /\ MostRecentWriter(a, u) = q /\ q # 0
        BY <1>2, <1>3, <3>1
      <3>3. ~IsZero(u)
        BY <1>1, <3>2, ZeroFacts
      <3>4. j < running
        BY <2>1, <3>1, <3>2, <3>3
      <3>5. j \in Nat
        BY <2>2
      <3>6. QED
        BY <2>2, <3>1, <3>4, <3>5
    <2>5. QED
      BY <2>3, <2>4
  <1>13. QED
    BY <1>8, <1>10, <1>11, <1>12

\* The value of what p reads, and of what it updates, is known.
LEMMA InputKnown ==
    ASSUME NEW p, NEW s, NEW n, NEW m, NEW new, Goes(p, s, n, m, new), NEW a \in Inputs(p)
    PROVE  a \in DOMAIN value_locs
  <1>1. /\ FifoTypes /\ IsProgram /\ StepsOnce /\ ValuesAlive /\ p \in Steps /\ p \in pending
        /\ Dependencies(p) \subseteq Retired
    BY GoesParts
  <1>2. p \notin Retired
    <2>1. \A k \in DOMAIN scheduled : scheduled[k].step # p
      BY <1>1 DEF StepsOnce
    <2>2. QED
      BY <1>1, <2>1, RetiredFacts
  <1>3. p \in Readers(a) /\ a \in Allocs
    BY <1>1, <1>2, ProgramTypes DEF Readers
  <1>4. IsInput(a) \/ \E q \in Retired : ~IsZero(q) /\ a \in Outputs(q)
    <2> SUFFICES ASSUME ~IsInput(a) PROVE \E q \in Retired : ~IsZero(q) /\ a \in Outputs(q)
      OBVIOUS
    <2>1. PICK w : w = MostRecentWriter(a, p)
      OBVIOUS
    <2>2. w # 0 /\ w \in Dependencies(p)
      BY <1>1, <2>1, DependencyFacts
    <2>3. a \in Outputs(w) /\ ~IsZero(w)
      BY <1>1, <2>1, <2>2, WriterFacts, DependencyFacts
    <2>4. QED
      BY <1>1, <2>2, <2>3
  <1>5. QED
    BY <1>1, <1>3, <1>4 DEF ValuesAlive

LEMMA UpdatedKnown ==
    ASSUME NEW p, NEW s, NEW n, NEW m, NEW new, Goes(p, s, n, m, new), NEW a \in Outputs(p),
           MostRecentWriter(a, p) # 0, ~IsZero(MostRecentWriter(a, p))
    PROVE  a \in DOMAIN value_locs
  <1> SUFFICES ASSUME a \notin DOMAIN value_locs PROVE FALSE
    OBVIOUS
  <1>1. /\ FifoTypes /\ IsProgram /\ StepsOnce /\ StepsOrdered /\ ValuesAlive /\ ValuesKept
        /\ p \in Steps /\ p \in pending /\ ~IsZero(p) /\ Dependencies(p) \subseteq Retired
    BY GoesParts
  <1>2. PICK w : w = MostRecentWriter(a, p)
    OBVIOUS
  <1>3. w \in Retired /\ a \in Outputs(w) /\ ~IsZero(w)
    BY <1>1, <1>2, DependencyFacts, WriterFacts
  <1>4. a \in Allocs
    BY <1>1, ProgramTypes
  <1>5. PICK q \in Steps : a \in Inputs(q)
    BY <1>1, <1>3, <1>4 DEF ValuesKept
  <1>6. Readers(a) = {}
    BY <1>1, <1>3, <1>4 DEF ValuesAlive
  <1>7. q \in Retired
    BY <1>5, <1>6 DEF Readers
  <1>8. PICK j \in DOMAIN scheduled : scheduled[j].step = q
    BY <1>1, <1>7, RetiredFacts
  <1>9. p \notin Retired
    <2>1. \A k \in DOMAIN scheduled : scheduled[k].step # p
      BY <1>1 DEF StepsOnce
    <2>2. QED
      BY <1>1, <2>1, RetiredFacts
  <1>10. ~IsInput(a)
    BY <1>1, InputsUnwritten
  <1>11. PICK v : v = MostRecentWriter(a, q)
    OBVIOUS
  <1>12. v # 0 /\ v \in Dependencies(q) /\ p <= v
    BY <1>1, <1>5, <1>10, <1>11, DependencyFacts
  <1>13. v \in Steps /\ a \in Outputs(v) /\ v \in Retired
    BY <1>1, <1>8, <1>11, <1>12, WriterFacts DEF StepsOrdered
  <1>14. PICK k \in DOMAIN scheduled : scheduled[k].step = v
    BY <1>1, <1>13, RetiredFacts
  <1>15. v # p
    BY <1>9, <1>13
  <1>16. p \in 1..(v - 1)
    BY <1>1, <1>12, <1>13, <1>15, ProgramTypes DEF Steps
  <1>17. p \in Retired
    BY <1>1, <1>13, <1>14, <1>16 DEF StepsOrdered
  <1>18. QED
    BY <1>9, <1>17

\* Known values stay where they are.
LEMMA KnownHeld ==
    ASSUME NEW p, NEW s, NEW n, NEW m, NEW new, Goes(p, s, n, m, new), NEW a \in DOMAIN value_locs,
           NEW k \in n..(n + m + 1)
    PROVE  Holds(s, new, a, value_locs[a], k)
  <1>1. n \in Nat /\ m \in Nat /\ n = Len(scheduled) /\ ValuesHeld /\ AppliedParts(p, s, n, m)
    BY GoesParts
  <1>2. PICK l : l = value_locs[a]
    OBVIOUS
  <1>3. Holds(scheduled, locs, a, l, n)
    BY <1>1, <1>2 DEF ValuesHeld
  <1>4. Continues(scheduled, s, n)
    BY <1>1 DEF AppliedParts, Continues
  <1>5. Grown(locs, new)
    BY DEF Goes
  <1>6. Holds(s, new, a, l, n)
    BY <1>3, <1>4, <1>5, HoldsFurther
  <1>7. l \in DOMAIN new /\ new[l].contents = a
    <2>1. PICK C : Memory(C)
      BY GoesParts
    <2>2. l \in DOMAIN locs /\ l \notin ToSet(free_locs) /\ locs[l].contents = a
      BY <1>2, <2>1 DEF Memory
    <2>3. QED
      BY <2>2 DEF Goes
  <1>8. ASSUME NEW i \in (n + 1)..k
        PROVE  /\ l \in ToSet(s[i].outputs) => Puts(s[i], a, l)
               /\ \A o \in ToSet(s[i].outputs) : Puts(s[i], a, o) => o = l
    <2>1. i \in (n + 1)..(n + m + 1)
      BY <1>1
    <2>2. l \in ToSet(s[i].outputs) => Puts(s[i], a, l)
      BY <1>7, <2>1, NewInto
    <2>3. ASSUME NEW o, Puts(s[i], a, o) PROVE o = l
      <3>1. Puts(Entry(p), a, o)
        BY <2>1, <2>3, NewPuts
      <3>2. QED
        BY <1>2, <3>1, EntryPuts
    <2>4. QED
      BY <2>2, <2>3
  <1>9. k \in Nat /\ n <= k
    BY <1>1
  <1>10. Holds(s, new, a, l, k)
    BY <1>1, <1>6, <1>8, <1>9, HoldsLater
  <1>11. QED
    BY <1>2, <1>10

\* What p is to write has been written nowhere else.
LEMMA OldPuts ==
    ASSUME NEW p, NEW s, NEW n, NEW m, NEW new, Goes(p, s, n, m, new), NEW a, NEW l, Puts(Entry(p), a, l),
           NEW i \in 1..(n + m + 1), NEW o, o \in ToSet(s[i].outputs), Puts(s[i], a, o)
    PROVE  o = l
  <1>1. /\ IsProgram /\ p \in Steps /\ n \in Nat /\ m \in Nat /\ s \in Seq(Entries) /\ AppliedParts(p, s, n, m)
        /\ FifoTypes /\ IsCorrect(scheduled, locs)
    BY GoesParts
  <1>2. a \in Outputs(p)
    BY <1>1, EntryPuts, PutsFacts
  <1>3. CASE i \in (n + 1)..(n + m + 1)
    <2>1. Puts(Entry(p), a, o)
      BY <1>3, NewPuts
    <2>2. QED
      BY <1>1, <2>1, EntryPuts, PutsFacts
  <1>4. CASE i \in 1..n
    <2>1. i \in DOMAIN scheduled /\ s[i] = scheduled[i]
      BY <1>4, GoesParts
    <2>2. s[i] \in Entries /\ IsPlaced(s[i])
      BY <1>1, <2>1, RetiredFacts DEF IsCorrect, IsRight, IsSafe
    <2>3. a \in Outputs(scheduled[i].step)
      BY <1>1, <2>1, <2>2, PutsFacts
    <2>4. MostRecentWriter(a, p) # 0 /\ ~IsZero(MostRecentWriter(a, p))
      BY <1>2, <1>4, <2>3, OldWriters
    <2>5. a \in DOMAIN value_locs
      BY <1>2, <2>4, UpdatedKnown
    <2>6. l = value_locs[a]
      BY <2>5, EntryPuts
    <2>7. n \in n..(n + m + 1)
      BY <1>1
    <2>8. Holds(s, new, a, l, n)
      BY <2>5, <2>6, <2>7, KnownHeld
    <2>9. QED
      BY <1>4, <2>8 DEF Holds
  <1>5. QED
    BY <1>1, <1>3, <1>4

\* The outputs of a running step stay where they are.
LEMMA RunningHeld ==
    ASSUME NEW p, NEW s, NEW n, NEW m, NEW new, Goes(p, s, n, m, new), NEW i \in Running,
           NEW a \in Outputs(scheduled[i].step), NEW l \in ToSet(scheduled[i].outputs), Puts(scheduled[i], a, l)
    PROVE  Holds(s, new, a, l, n + m + 1)
  <1>1. /\ n \in Nat /\ m \in Nat /\ n = Len(scheduled) /\ ValuesHeld /\ AppliedParts(p, s, n, m) /\ OutputsHeld
        /\ IsProgram /\ p \in Steps /\ FifoTypes
    BY GoesParts
  <1>2. Holds(scheduled, locs, a, l, n)
    BY <1>1 DEF ValuesHeld
  <1>3. Continues(scheduled, s, n)
    BY <1>1 DEF AppliedParts, Continues
  <1>4. Grown(locs, new)
    BY DEF Goes
  <1>5. Holds(s, new, a, l, n)
    BY <1>2, <1>3, <1>4, HoldsFurther
  <1>6. i \in DOMAIN scheduled /\ i \in 1..n
    BY <1>1, RetiredFacts
  <1>7. l \in DOMAIN new /\ new[l].contents = a
    <2>1. PICK q \in Steps : q = scheduled[i].step
      BY <1>1, <1>6, RetiredFacts DEF Entries
    <2>2. PICK o \in Seq(Nat) : o = scheduled[i].outputs
      BY <1>1, <1>6, RetiredFacts DEF Entries
    <2>3. PICK k \in DOMAIN o : o[k] = l /\ StepOf(q).outputs[k] = a
      BY <2>1, <2>2 DEF Puts
    <2>4. Len(o) = Len(StepOf(q).outputs)
      BY <1>1, <2>1, <2>2 DEF OutputsHeld
    <2>5. k \in 1..Len(StepOf(q).outputs)
      BY <2>4
    <2>6. o[k] \in DOMAIN locs /\ o[k] \notin ToSet(free_locs) /\ locs[o[k]].contents = StepOf(q).outputs[k]
      <3>1. OutputsHeld /\ q \in Steps /\ i \in Running /\ scheduled[i].step = q
        BY <1>1, <2>1
      <3>2. \A j \in 1..Len(StepOf(q).outputs) :
              /\ scheduled[i].outputs[j] \in DOMAIN locs
              /\ scheduled[i].outputs[j] \notin ToSet(free_locs)
              /\ locs[scheduled[i].outputs[j]].contents = StepOf(q).outputs[j]
        BY <3>1 DEF OutputsHeld
      <3>3. QED
        BY <2>2, <2>5, <3>2
    <2>7. l \in DOMAIN locs /\ l \notin ToSet(free_locs) /\ locs[l].contents = a
      BY <2>3, <2>6
    <2>8. QED
      BY <2>7 DEF Goes
  <1>8. a \notin Outputs(p)
    BY <1>6, OldWriters
  <1>9. ASSUME NEW j \in (n + 1)..(n + m + 1)
        PROVE  /\ l \in ToSet(s[j].outputs) => Puts(s[j], a, l)
               /\ \A o \in ToSet(s[j].outputs) : Puts(s[j], a, o) => o = l
    <2>1. l \in ToSet(s[j].outputs) => Puts(s[j], a, l)
      BY <1>7, NewInto
    <2>2. ASSUME NEW o, Puts(s[j], a, o) PROVE FALSE
      <3>1. Puts(Entry(p), a, o)
        BY <2>2, NewPuts
      <3>2. QED
        BY <1>1, <1>8, <3>1, EntryPuts, PutsFacts
    <2>3. QED
      BY <2>1, <2>2
  <1>10. n + m + 1 \in Nat /\ n <= n + m + 1
    BY <1>1
  <1>11. QED
    BY <1>1, <1>5, <1>9, <1>10, HoldsLater

\* What p writes is where it is to be, and so are the zeros before it.
LEMMA NewHeld ==
    ASSUME NEW p, NEW s, NEW n, NEW m, NEW new, Goes(p, s, n, m, new), NEW a, NEW l, Puts(Entry(p), a, l)
    PROVE  Holds(s, new, a, l, n + m + 1)
  <1>1. /\ n \in Nat /\ m \in Nat /\ AppliedParts(p, s, n, m) /\ IsProgram
    BY GoesParts
  <1>2. s[n + m + 1] = Entry(p) /\ l \in DOMAIN new
    BY <1>1, EntryPuts DEF AppliedParts
  <1>3. \A i \in 1..(n + m + 1) : \A o \in ToSet(s[i].outputs) : Puts(s[i], a, o) => o = l
    BY OldPuts
  <1>4. \A i \in 1..(n + m + 1) : n + m + 1 \in i..(n + m + 1)
    BY <1>1
  <1>5. n + m + 1 \in 1..(n + m + 1)
    BY <1>1
  <1>6. l \in ToSet(s[n + m + 1].outputs)
    BY <1>1, <1>2, EntryPuts, PutsFacts
  <1>7. Puts(s[n + m + 1], a, l)
    BY <1>2
  <1>8. QED
    BY <1>2, <1>3, <1>4, <1>5, <1>6, <1>7 DEF Holds

\* What p updates is there.
LEMMA UpdateFound ==
    ASSUME NEW p, NEW s, NEW n, NEW m, NEW new, Goes(p, s, n, m, new), NEW a, NEW l, Puts(Entry(p), a, l),
           MostRecentWriter(a, p) # 0
    PROVE  Holds(s, new, a, l, n + m)
  <1>1. /\ n \in Nat /\ m \in Nat /\ AppliedParts(p, s, n, m) /\ IsProgram /\ p \in Steps
    BY GoesParts
  <1>2. a \in Outputs(p) /\ l \in DOMAIN new /\ new[l].contents = a
    BY <1>1, EntryPuts, PutsFacts
  <1>3. CASE ~IsZero(MostRecentWriter(a, p))
    <2>1. a \in DOMAIN value_locs
      BY <1>2, <1>3, UpdatedKnown
    <2>2. n + m \in n..(n + m + 1) /\ l = value_locs[a]
      BY <1>1, <2>1, EntryPuts
    <2>3. QED
      BY <2>1, <2>2, KnownHeld
  <1>4. CASE IsZero(MostRecentWriter(a, p))
    <2>1. PICK C : Memory(C)
      BY GoesParts
    <2>2. IsCleared(a, p)
      BY <1>4 DEF IsCleared
    <2>3. PICK k \in DOMAIN ZeroEntries(p) : \E o : Clears(ZeroEntries(p)[k], p, a, o)
      BY <1>1, <1>2, <2>1, <2>2, ZeroEntriesFacts
    <2>4. PICK o : Clears(ZeroEntries(p)[k], p, a, o)
      BY <2>3
    <2>5. k \in 1..m /\ k \in Nat
      BY <1>1 DEF AppliedParts
    <2>6. PICK z : z = n + k
      OBVIOUS
    <2>7. z \in (n + 1)..(n + m) /\ z - n = k /\ z \in (n + 1)..(n + m + 1) /\ z \in 1..(n + m)
      BY <1>1, <2>5, <2>6
    <2>8. s[z] = ZeroEntries(p)[k]
      BY <1>1, <2>7 DEF AppliedParts
    <2>9. o = l
      <3>1. Puts(Entry(p), a, o)
        BY <2>4 DEF Clears
      <3>2. QED
        BY <1>1, <3>1, EntryPuts, PutsFacts
    <2>10. l \in ToSet(s[z].outputs)
      <3>1. s[z].outputs = <<l>>
        BY <1>1, <2>4, <2>8, <2>9, ClearsFacts
      <3>2. QED
        BY <3>1 DEF ToSet
    <2>11. Puts(s[z], a, l)
      BY <1>2, <2>7, <2>10, NewInto
    <2>12. \A i \in 1..(n + m) : i \in 1..(n + m + 1)
      BY <1>1
    <2>13. \A i \in 1..(n + m) : \A q \in ToSet(s[i].outputs) : Puts(s[i], a, q) => q = l
      BY <2>12, OldPuts
    <2>14. ASSUME NEW i \in 1..(n + m), l \in ToSet(s[i].outputs)
           PROVE  \E j \in i..(n + m) : Puts(s[j], a, l)
      <3>1. CASE i <= z
        <4>1. z \in i..(n + m)
          BY <1>1, <2>7, <3>1
        <4>2. QED
          BY <2>11, <4>1
      <3>2. CASE i > z
        <4>1. i \in (n + 1)..(n + m + 1) /\ i \in i..(n + m)
          BY <1>1, <2>7, <3>2
        <4>2. Puts(s[i], a, l)
          BY <1>2, <2>14, <4>1, NewInto
        <4>3. QED
          BY <4>1, <4>2
      <3>3. QED
        BY <1>1, <2>7, <3>1, <3>2
    <2>15. QED
      BY <1>2, <2>7, <2>10, <2>13, <2>14 DEF Holds
  <1>5. QED
    BY <1>3, <1>4

\* The new entries have enough memory, which is not that of an input that is to survive.
LEMMA NewSafe ==
    ASSUME NEW p, NEW s, NEW n, NEW m, NEW new, Goes(p, s, n, m, new), NEW i \in (n + 1)..(n + m + 1)
    PROVE  IsSafe(s[i], new)
  <1>1. /\ IsProgram /\ p \in Steps /\ AreInputsApart(locs) /\ ValuesHeld /\ ValuesKept /\ FifoTypes
        /\ n = Len(scheduled) /\ n \in Nat /\ IsCorrect(scheduled, locs)
    BY GoesParts
  <1>2. s[i] \in Entries /\ IsPlaced(s[i])
    BY NewPuts
  <1>3. ASSUME NEW a, NEW l, Puts(s[i], a, l)
        PROVE  /\ l \in DOMAIN new /\ new[l].contents = a /\ a \in Allocs /\ a \in Outputs(p)
    <2>1. Puts(Entry(p), a, l)
      BY <1>3, NewPuts
    <2>2. l \in DOMAIN new /\ new[l].contents = a /\ a \in Outputs(p)
      BY <1>1, <2>1, EntryPuts, PutsFacts
    <2>3. QED
      BY <1>1, <2>2, ProgramTypes
  <1>4. Final \in Steps /\ NoAlloc \notin Allocs
    BY <1>1, ProgramTypes DEF Steps, IsProgram
  <1>5. ASSUME NEW a, NEW l, Puts(s[i], a, l), new[l].input \in Inputs(Final)
        PROVE  FALSE
    <2>1. l \in DOMAIN new /\ new[l].contents = a /\ a \in Outputs(p)
      BY <1>3, <1>5
    <2>2. PICK x : x = new[l].input
      OBVIOUS
    <2>3. x \in Inputs(Final) /\ x \in Allocs /\ x # NoAlloc
      BY <1>1, <1>4, <1>5, <2>2, ProgramTypes
    <2>4. l \in DOMAIN locs /\ locs[l].input = x
      BY <2>1, <2>2, <2>3 DEF Goes, Grown
    <2>5. IsInput(x)
      BY <1>1, <2>3, <2>4 DEF AreInputsApart
    <2>6. x \in DOMAIN value_locs
      BY <1>1, <2>3, <2>5 DEF ValuesKept
    <2>7. PICK o : o = value_locs[x]
      OBVIOUS
    <2>8. Holds(scheduled, locs, x, o, n)
      BY <1>1, <2>6, <2>7 DEF ValuesHeld
    <2>9. ASSUME NEW j \in 1..n, o \in ToSet(scheduled[j].outputs) PROVE FALSE
      <3>1. PICK k \in j..n : Puts(scheduled[k], x, o)
        BY <2>8, <2>9 DEF Holds
      <3>2. k \in 1..n /\ k \in DOMAIN scheduled
        BY <1>1, RetiredFacts
      <3>3. scheduled[k] \in Entries /\ IsPlaced(scheduled[k]) /\ scheduled[k].step \in Steps
        BY <1>1, <3>2, RetiredFacts DEF Entries, IsCorrect, IsRight, IsSafe
      <3>4. x \in Outputs(scheduled[k].step)
        BY <1>1, <3>1, <3>3, PutsFacts
      <3>5. QED
        BY <1>1, <2>5, <3>3, <3>4, InputsUnwritten
    <2>10. o \in DOMAIN locs /\ locs[o].input = x
      BY <2>8, <2>9 DEF Holds
    <2>11. o = l
      BY <1>1, <2>3, <2>4, <2>10 DEF AreInputsApart
    <2>12. new[l].contents = x
      <3>1. PICK C : Memory(C)
        BY GoesParts
      <3>2. o \notin ToSet(free_locs) /\ locs[o].contents = x
        BY <2>6, <2>7, <3>1 DEF Memory
      <3>3. QED
        BY <2>10, <2>11, <3>2 DEF Goes
    <2>13. x \in Outputs(p)
      BY <2>1, <2>12
    <2>14. QED
      BY <1>1, <2>5, <2>13, InputsUnwritten
  <1>6. ASSUME NEW l \in ToSet(s[i].outputs)
        PROVE  l \in DOMAIN new /\ new[l].contents # NoAlloc /\ new[l].input \notin Inputs(Final)
    <2>1. PICK a : Puts(s[i], a, l)
      BY NewPuts
    <2>2. QED
      BY <1>3, <1>4, <1>5, <2>1
  <1>7. ASSUME NEW a, NEW l, Puts(s[i], a, l)
        PROVE  Size(a) <= new[l].byte_size
    <2>1. l \in DOMAIN new /\ new[l].contents = a /\ a \in Allocs
      BY <1>3, <1>7
    <2>2. LocFits(new[l])
      BY <2>1 DEF Goes
    <2>3. IF IsTmp(a) THEN new[l].byte_size >= Size(a) ELSE new[l].byte_size = Size(a)
      BY <1>4, <2>1, <2>2 DEF LocFits
    <2>4. Size(a) \in Nat
      BY <1>1, <2>1, ProgramTypes
    <2>5. CASE IsTmp(a)
      BY <2>3, <2>5
    <2>6. CASE ~IsTmp(a)
      BY <2>3, <2>4, <2>6
    <2>7. QED
      BY <2>5, <2>6
  <1>8. QED
    BY <1>2, <1>6, <1>7 DEF IsSafe

\* p goes behind what it needs; the zero steps need nothing.
LEMMA NewRight ==
    ASSUME NEW p, NEW s, NEW n, NEW m, NEW new, Goes(p, s, n, m, new), NEW i \in (n + 1)..(n + m + 1)
    PROVE  IsInTime(s, i) /\ FindsValues(s, new, i)
  <1>1. /\ IsProgram /\ p \in Steps /\ n \in Nat /\ m \in Nat /\ AppliedParts(p, s, n, m) /\ FifoTypes
        /\ IsCorrect(scheduled, locs)
        /\ Dependencies(p) \subseteq Retired
        /\ \A a \in Outputs(p) : \A q \in 1..(p - 1) : a \in Outputs(q) /\ ~IsZero(q) => q \in Retired
        /\ \A k \in 1..n : k \in DOMAIN scheduled /\ s[k] = scheduled[k]
        /\ \A q \in Retired : \E k \in 1..n : s[k].step = q
    BY GoesParts
  <1>2. CASE i # n + m + 1
    <2>1. PICK a, l : Clears(s[i], p, a, l)
      BY <1>2, NewPuts
    <2>2. PICK z \in Steps : z = s[i].step
      BY <1>1, <2>1, ClearsFacts
    <2>3. /\ Outputs(z) = {a} /\ Inputs(z) = {} /\ Dependencies(z) = {} /\ IsZero(z)
          /\ \A q \in 1..(z - 1) : a \notin Outputs(q)
      BY <1>1, <2>1, <2>2, ClearsFacts
    <2>4. IsInTime(s, i)
      BY <2>2, <2>3 DEF IsInTime
    <2>5. \A b \in Outputs(z) : MostRecentWriter(b, z) = 0
      BY <1>1, <2>3, ZeroFacts
    <2>6. FindsValues(s, new, i)
      BY <2>2, <2>3, <2>5 DEF FindsValues
    <2>7. QED
      BY <2>4, <2>6
  <1>3. CASE i = n + m + 1
    <2>1. s[i] = Entry(p) /\ s[i].step = p /\ i - 1 = n + m
      BY <1>1, <1>3, NewPuts, EntryPuts
    <2>2. p \in Nat /\ p <= Final /\ Final \in Nat
      BY <1>1, ProgramTypes DEF Steps
    <2>3. ASSUME NEW q \in Retired PROVE \E k \in 1..(i - 1) : s[k].step = q
      <3>1. PICK k \in 1..n : s[k].step = q
        BY <1>1
      <3>2. k \in 1..(i - 1)
        BY <1>1, <2>1
      <3>3. QED
        BY <3>1, <3>2
    <2>4. ASSUME NEW q \in 1..(p - 1), Outputs(q) \cap Outputs(p) # {}
          PROVE  \E k \in 1..(i - 1) : s[k].step = q
      <3>1. PICK a \in Outputs(p) : a \in Outputs(q)
        BY <2>4
      <3>2. q \in Steps
        BY <2>2 DEF Steps
      <3>3. CASE ~IsZero(q)
        BY <1>1, <2>3, <3>1, <3>3
      <3>4. CASE IsZero(q)
        <4>1. PICK w : w = MostRecentWriter(a, p)
          OBVIOUS
        <4>2. w \in 0..(p - 1) /\ q <= w
          BY <1>1, <3>1, <4>1, WriterFacts
        <4>3. w # 0 /\ w \in Nat
          BY <2>2, <4>2
        <4>4. w \in Steps /\ a \in Outputs(w)
          BY <1>1, <4>1, <4>3, WriterFacts
        <4>5. CASE q = w
          <5>1. PICK C : Memory(C)
            BY GoesParts
          <5>2. IsCleared(a, p)
            BY <3>4, <4>1, <4>3, <4>5 DEF IsCleared
          <5>3. PICK k \in DOMAIN ZeroEntries(p) : \E l : Clears(ZeroEntries(p)[k], p, a, l)
            BY <1>1, <5>1, <5>2, ZeroEntriesFacts
          <5>4. ZeroEntries(p)[k].step = q
            BY <4>1, <4>5, <5>3 DEF Clears
          <5>5. k \in 1..m
            BY <1>1 DEF AppliedParts
          <5>6. PICK j : j = n + k
            OBVIOUS
          <5>7. j \in (n + 1)..(n + m) /\ j - n = k /\ j \in 1..(i - 1)
            BY <1>1, <2>1, <5>5, <5>6
          <5>8. s[j] = ZeroEntries(p)[k]
            BY <1>1, <5>7 DEF AppliedParts
          <5>9. QED
            BY <5>4, <5>7, <5>8
        <4>6. CASE q # w
          <5>1. q \in 1..(w - 1)
            BY <2>2, <4>2, <4>3, <4>6
          <5>2. ~IsZero(w)
            BY <1>1, <3>1, <4>4, <5>1, ZeroFacts
          <5>3. w \in Dependencies(p)
            BY <1>1, <3>1, <4>1, <4>3, <5>2, DependencyFacts
          <5>4. PICK j \in 1..n : s[j].step = w
            BY <1>1, <5>3
          <5>5. j \in DOMAIN scheduled /\ scheduled[j].step = w
            BY <1>1, <5>4
          <5>6. IsInTime(scheduled, j)
            BY <1>1, <5>5 DEF IsCorrect, IsRight
          <5>7. Outputs(q) \cap Outputs(w) # {}
            BY <3>1, <4>4
          <5>8. PICK k \in 1..(j - 1) : scheduled[k].step = q
            BY <5>1, <5>5, <5>6, <5>7 DEF IsInTime
          <5>9. k \in 1..n /\ k \in 1..(i - 1)
            BY <1>1, <2>1, <5>4
          <5>10. s[k] = scheduled[k]
            BY <1>1, <5>9
          <5>11. QED
            BY <5>8, <5>9, <5>10
        <4>7. QED
          BY <4>5, <4>6
      <3>5. QED
        BY <3>3, <3>4
    <2>5. IsInTime(s, i)
      BY <1>1, <2>1, <2>3, <2>4 DEF IsInTime
    <2>6. ASSUME NEW a \in Inputs(p)
          PROVE  \E l \in DOMAIN new : Holds(s, new, a, l, i - 1)
      <3>1. a \in DOMAIN value_locs
        BY InputKnown
      <3>2. n + m \in n..(n + m + 1)
        BY <1>1
      <3>3. Holds(s, new, a, value_locs[a], n + m)
        BY <3>1, <3>2, KnownHeld
      <3>4. value_locs[a] \in DOMAIN new
        BY <3>3 DEF Holds
      <3>5. QED
        BY <2>1, <3>3, <3>4
    <2>7. ASSUME NEW a, NEW l, Puts(s[i], a, l), MostRecentWriter(a, p) # 0
          PROVE  Holds(s, new, a, l, i - 1)
      BY <2>1, <2>7, UpdateFound
    <2>8. FindsValues(s, new, i)
      BY <2>1, <2>6, <2>7 DEF FindsValues
    <2>9. QED
      BY <2>5, <2>8
  <1>4. QED
    BY <1>2, <1>3

LEMMA GoesCorrect ==
    ASSUME NEW p, NEW s, NEW n, NEW m, NEW new, Goes(p, s, n, m, new), NEW D, new \in Seq(LocOf(D))
    PROVE  IsCorrect(s, new) /\ AreInputsApart(new)
  <1>1. /\ IsProgram /\ n \in Nat /\ m \in Nat /\ n = Len(scheduled) /\ AppliedParts(p, s, n, m) /\ FifoTypes
        /\ IsCorrect(scheduled, locs) /\ AreInputsApart(locs)
    BY GoesParts
  <1>2. PICK C : locs \in Seq(LocOf(C))
    <2>1. PICK C : Memory(C)
      BY GoesParts
    <2>2. QED
      BY <2>1 DEF Memory
  <1>3. Grown(locs, new)
    BY DEF Goes
  <1>4. DOMAIN s = 1..(n + m + 1) /\ DOMAIN scheduled = 1..n /\ scheduled \in Seq(Entries)
    BY <1>1 DEF AppliedParts, FifoTypes
  <1>5. ASSUME NEW i \in DOMAIN s PROVE IsRight(s, new, i)
    <2>1. CASE i \in 1..n
      <3>1. i \in DOMAIN scheduled /\ IsRight(scheduled, locs, i)
        BY <1>1, <1>4, <2>1 DEF IsCorrect
      <3>2. i - 1 \in Nat /\ i - 1 <= n
        BY <1>1, <2>1
      <3>3. Continues(scheduled, s, i - 1)
        BY <1>1, <3>2 DEF AppliedParts, Continues
      <3>4. QED
        BY <1>1, <1>2, <1>3, <1>4, <3>1, <3>3, RightFurther
    <2>2. CASE i \in (n + 1)..(n + m + 1)
      BY <2>2, NewSafe, NewRight DEF IsRight
    <2>3. QED
      BY <1>1, <1>4, <2>1, <2>2
  <1>6. AreInputsApart(new)
    <2>1. \A l \in DOMAIN new : new[l].input # NoAlloc =>
             l \in DOMAIN locs /\ locs[l].input = new[l].input /\ (locs[l].contents # NoAlloc => new[l].contents # NoAlloc)
      BY <1>3 DEF Grown
    <2>2. QED
      BY <1>1, <2>1 DEF AreInputsApart
  <1>7. QED
    BY <1>5, <1>6 DEF IsCorrect

\* The same for what is running after.
LEMMA GoesHeld ==
    ASSUME NEW p, NEW s, NEW n, NEW m, NEW new, Goes(p, s, n, m, new), NEW r \in Nat, r >= running,
           NEW i \in r..(n + m + 1), NEW a, NEW l, Puts(s[i], a, l)
    PROVE  Holds(s, new, a, l, n + m + 1)
  <1>1. /\ IsProgram /\ n \in Nat /\ m \in Nat /\ FifoTypes /\ n = Len(scheduled)
        /\ IsCorrect(scheduled, locs)
    BY GoesParts
  <1>2. running \in Nat /\ running >= 1
    BY <1>1 DEF FifoTypes
  <1>3. CASE i \in 1..n
    <2>1. i \in DOMAIN scheduled /\ s[i] = scheduled[i]
      BY <1>3, GoesParts
    <2>2. i >= running
      BY <1>2
    <2>3. i \in Running
      BY <1>1, <2>1, <2>2, RetiredFacts
    <2>4. s[i] \in Entries /\ IsPlaced(s[i])
      BY <1>1, <2>1, RetiredFacts DEF IsCorrect, IsRight, IsSafe
    <2>5. a \in Outputs(scheduled[i].step) /\ l \in ToSet(scheduled[i].outputs) /\ Puts(scheduled[i], a, l)
      BY <1>1, <2>1, <2>4, PutsFacts
    <2>6. QED
      BY <2>3, <2>5, RunningHeld
  <1>4. CASE i \in (n + 1)..(n + m + 1)
    <2>1. Puts(Entry(p), a, l)
      BY <1>4, NewPuts
    <2>2. QED
      BY <2>1, NewHeld
  <1>5. i \in 1..n \/ i \in (n + 1)..(n + m + 1)
    BY <1>1, <1>2
  <1>6. QED
    BY <1>3, <1>4, <1>5

LEMMA ScheduleGoes ==
    ASSUME ScheduleInv, NEW C, NEW p, Applied(p, C)
    PROVE  \E s, n, m, new, D : /\ Goes(p, s, n, m, new) /\ new \in Seq(LocOf(D))
                                /\ s = scheduled' /\ new = locs' /\ Len(s) = n + m + 1
                                /\ running' \in Nat /\ running' >= running
  <1>1. /\ FifoTypes /\ Memory(C) /\ IsProgram /\ p \in Steps /\ p \in Runnable
        /\ Apply(p) /\ UNCHANGED <<program, size_goal, value_locs>>
    BY RunnableFacts DEF Applied, FifoTypes
  <1>2. PICK s, n, m : AppliedParts(p, s, n, m) /\ s = scheduled' /\ running' = IF Running = {} THEN n + m + 1 ELSE running
    BY <1>1, ApplyParts
  <1>3. PICK new : new = locs'
    OBVIOUS
  <1>4. MemoryKept'
    BY <1>1, ApplyMemory
  <1>5. PICK D : Memory(D)'
    BY <1>4 DEF MemoryKept
  <1>6. new \in Seq(LocOf(D)) /\ \A l \in DOMAIN new : LocFits(new[l])
    <2>1. locs' \in Seq(LocOf(D)') /\ \A l \in DOMAIN locs' : LocFits(locs[l])'
      BY <1>5 DEF Memory
    <2>2. QED
      BY <1>1, <1>3, <2>1, LocFitsPrime
  <1>7. Grown(locs, new)
    BY <1>1, <1>3, ApplyMemory
  <1>8. \A l \in DOMAIN locs : l \notin ToSet(free_locs) => l \in DOMAIN new /\ new[l].contents = locs[l].contents
    BY <1>1, <1>3, ApplyMemory
  <1>9. \A l \in DOMAIN Plan(p).locs : l \in DOMAIN new /\ new[l].contents = Plan(p).locs[l].contents
    <2>1. DOMAIN locs' = DOMAIN Plan(p).locs
      BY <1>1, ApplyMemory
    <2>2. \A l \in DOMAIN locs' : locs'[l].contents = Plan(p).locs[l].contents
      BY <1>1, ApplyMemory
    <2>3. QED
      BY <1>3, <2>1, <2>2
  <1>10. Goes(p, s, n, m, new)
    BY <1>1, <1>2, <1>6, <1>7, <1>8, <1>9 DEF Goes
  <1>11. running \in Nat /\ n \in Nat /\ m \in Nat /\ running <= n + 1 /\ Len(s) = n + m + 1
    BY <1>1, <1>2 DEF FifoTypes, AppliedParts
  <1>12. running' \in Nat /\ running' >= running
    BY <1>2, <1>11
  <1>13. QED
    BY <1>2, <1>3, <1>6, <1>10, <1>11, <1>12

\* The operators on schedules look at the program, but not at the rest of the state.
LEMMA SchedulePrime ==
    ASSUME UNCHANGED program
    PROVE  /\ IsCorrect(scheduled, locs)' <=> IsCorrect(scheduled', locs')
           /\ AreInputsApart(locs)' <=> AreInputsApart(locs')
           /\ \A a, l, n : Holds(scheduled, locs, a, l, n)' <=> Holds(scheduled', locs', a, l, n)
           /\ \A a, l, i : Puts(scheduled[i], a, l)' <=> Puts(scheduled'[i], a, l)
  <1>1. IsCorrect(scheduled, locs)' <=> IsCorrect(scheduled', locs')
    BY DEF IsCorrect, IsRight, IsSafe, IsInTime, FindsValues, Holds, IsPlaced, Puts, Inputs, Outputs, StepOf, Final,
           Dependencies, MostRecentWriter, Size, IsTmp, IsZero, IsInput, Allocs
  <1>2. AreInputsApart(locs)' <=> AreInputsApart(locs')
    BY DEF AreInputsApart, Allocs, IsInput
  <1>3. \A a, l, n : Holds(scheduled, locs, a, l, n)' <=> Holds(scheduled', locs', a, l, n)
    BY DEF Holds, Puts, StepOf, Final, Allocs, IsTmp
  <1>4. \A a, l, i : Puts(scheduled[i], a, l)' <=> Puts(scheduled'[i], a, l)
    BY DEF Puts, StepOf, Final, Allocs, IsTmp
  <1>5. QED
    BY <1>1, <1>2, <1>3, <1>4

LEMMA ScheduleStepComputes ==
    ASSUME ScheduleInv, ScheduleStep
    PROVE  ScheduleInv'
  <1>0. FifoInv
    BY DEF ScheduleInv
  <1>1. PICK C, p : Applied(p, C)
    BY <1>0, ScheduledStep
  <1>2. PICK s, n, m, new, D : /\ Goes(p, s, n, m, new) /\ new \in Seq(LocOf(D))
                               /\ s = scheduled' /\ new = locs' /\ Len(s) = n + m + 1
                               /\ running' \in Nat /\ running' >= running
    BY <1>1, ScheduleGoes
  <1>3. /\ UNCHANGED program /\ value_locs' = value_locs /\ FifoTypes /\ IsProgram /\ n \in Nat /\ m \in Nat
        /\ ValuesKept /\ Apply(p) /\ Memory(C) /\ p \in Steps
    BY <1>1, <1>2, GoesParts DEF Applied
  <1>4. IsCorrect(s, new) /\ AreInputsApart(new)
    BY <1>2, GoesCorrect
  <1>5. IsCorrect(scheduled, locs)' /\ AreInputsApart(locs)'
    <2>1. IsCorrect(scheduled', locs') /\ AreInputsApart(locs')
      BY <1>2, <1>4
    <2>2. QED
      BY <1>3, <2>1, SchedulePrime
  <1>6. ValuesHeld'
    <2>1. ASSUME NEW a \in DOMAIN value_locs PROVE Holds(s, new, a, value_locs[a], n + m + 1)
      <3>1. n + m + 1 \in n..(n + m + 1)
        BY <1>3
      <3>2. QED
        BY <1>2, <3>1, KnownHeld
    <2>2. ASSUME NEW a \in DOMAIN value_locs' PROVE Holds(scheduled, locs, a, value_locs[a], Len(scheduled))'
      <3>1. Holds(s, new, a, value_locs'[a], n + m + 1)
        BY <1>3, <2>1, <2>2
      <3>2. Holds(scheduled', locs', a, value_locs'[a], Len(scheduled'))
        BY <1>2, <3>1
      <3>3. QED
        BY <1>3, <3>2 DEF Holds, Puts, StepOf, Final, Allocs, IsTmp
    <2>3. PICK r : r = running'
      OBVIOUS
    <2>4. Running' = r..(n + m + 1)
      BY <1>2, <2>3 DEF Running
    <2>5. ASSUME NEW i \in Running', NEW a, NEW l, Puts(scheduled'[i], a, l)
          PROVE  Holds(scheduled', locs', a, l, Len(scheduled'))
      <3>1. Holds(s, new, a, l, n + m + 1)
        BY <1>2, <2>3, <2>4, <2>5, GoesHeld
      <3>2. QED
        BY <1>2, <3>1
    <2>6. ASSUME NEW i \in Running', NEW a \in Outputs(scheduled[i].step)', NEW l \in ToSet(scheduled'[i].outputs),
                 Puts(scheduled[i], a, l)'
          PROVE  Holds(scheduled, locs, a, l, Len(scheduled))'
      <3>1. Puts(scheduled'[i], a, l)
        BY <1>3, <2>6, SchedulePrime
      <3>2. Holds(scheduled', locs', a, l, Len(scheduled'))
        BY <2>5, <3>1
      <3>3. QED
        BY <1>3, <3>2 DEF Holds, Puts, StepOf, Final, Allocs, IsTmp
    <2>7. QED
      BY <2>2, <2>6 DEF ValuesHeld
  <1>7. ValuesKept'
    <2>1. /\ Steps' = Steps /\ Allocs' = Allocs /\ Final' = Final
          /\ \A q : Inputs(q)' = Inputs(q) /\ Outputs(q)' = Outputs(q) /\ IsZero(q)' = IsZero(q)
          /\ \A a : IsInput(a)' = IsInput(a)
      BY <1>3, SameProgram
    <2>2. \A q \in Retired' : q \in Retired \/ (q \in Steps /\ IsZero(q))
      BY <1>3, ApplyRetired
    <2>3. ASSUME NEW a \in Allocs, IsInput(a) \/ \E q \in Retired' : ~IsZero(q) /\ a \in Outputs(q), a \notin DOMAIN value_locs
          PROVE  a \notin Inputs(Final) /\ \E q \in Steps : a \in Inputs(q)
      <3>1. IsInput(a) \/ \E q \in Retired : ~IsZero(q) /\ a \in Outputs(q)
        BY <2>2, <2>3
      <3>2. QED
        BY <1>3, <2>3, <3>1 DEF ValuesKept
    <2>4. Inputs(Final)' = Inputs(Final)
      BY <2>1
    <2>5. QED
      BY <1>3, <2>1, <2>3, <2>4 DEF ValuesKept
  <1>8. FifoInv'
    BY <1>0, ScheduleStepKeeps
  <1>9. QED
    BY <1>5, <1>6, <1>7, <1>8 DEF ScheduleInv

LEMMA GrowsCorrect ==
    ASSUME FifoTypes, IsCorrect(scheduled, locs), AreInputsApart(locs),
           NEW C, locs \in Seq(LocOf(C)), NEW D, NEW new \in Seq(LocOf(D)), Grown(locs, new)
    PROVE  /\ IsCorrect(scheduled, new) /\ AreInputsApart(new)
           /\ \A a, l : Holds(scheduled, locs, a, l, Len(scheduled)) => Holds(scheduled, new, a, l, Len(scheduled))
  <1>1. /\ IsProgram /\ scheduled \in Seq(Entries) /\ Len(scheduled) \in Nat /\ DOMAIN scheduled = 1..Len(scheduled)
    BY DEF FifoTypes
  <1>2. ASSUME NEW i \in DOMAIN scheduled PROVE IsRight(scheduled, new, i)
    <2>1. i - 1 \in Nat /\ i - 1 <= Len(scheduled)
      BY <1>1
    <2>2. Continues(scheduled, scheduled, i - 1)
      BY <1>1, <2>1 DEF Continues
    <2>3. IsRight(scheduled, locs, i)
      BY DEF IsCorrect
    <2>4. QED
      BY <1>1, <2>2, <2>3, RightFurther
  <1>3. AreInputsApart(new)
    <2>1. \A l \in DOMAIN new : new[l].input # NoAlloc =>
             l \in DOMAIN locs /\ locs[l].input = new[l].input /\ (locs[l].contents # NoAlloc => new[l].contents # NoAlloc)
      BY DEF Grown
    <2>2. QED
      BY <2>1 DEF AreInputsApart
  <1>4. Continues(scheduled, scheduled, Len(scheduled))
    BY <1>1 DEF Continues
  <1>5. \A a, l : Holds(scheduled, locs, a, l, Len(scheduled)) => Holds(scheduled, new, a, l, Len(scheduled))
    BY <1>4, HoldsFurther
  <1>6. QED
    BY <1>2, <1>3, <1>5 DEF IsCorrect

LEMMA RetiredPut ==
    ASSUME NEW p, NEW values, NEW loaded, NEW now, Retiring(p, values, loaded, now), ValuesHeld, NEW a \in DOMAIN values
    PROVE  Holds(scheduled, locs, a, values[a], Len(scheduled))
  <1>1. /\ FifoTypes /\ IsProgram /\ OutputsHeld /\ AreValues(values) /\ AddsTo(values, scheduled[running])
        /\ running \in Running /\ p \in Steps /\ scheduled[running].step = p
    BY FifoInvParts DEF Retiring
  <1>2. CASE a \in DOMAIN value_locs
    BY <1>1, <1>2 DEF ValuesHeld, AddsTo
  <1>3. CASE a \notin DOMAIN value_locs
    <2>1. PICK e \in Entries : e = scheduled[running]
      BY <1>1, RetiredFacts
    <2>2. values[a] \in ToSet(e.outputs) /\ locs[values[a]].contents = a
      BY <1>1, <1>3, <2>1 DEF AddsTo, AreValues
    <2>3. PICK o \in Seq(Nat) : o = e.outputs
      BY <2>1 DEF Entries
    <2>4. PICK outs \in Seq(Allocs) : outs = StepOf(p).outputs
      BY <1>1, ProgramTypes
    <2>5. PICK k \in DOMAIN o : o[k] = values[a]
      BY <2>2, <2>3 DEF ToSet
    <2>6. Len(o) = Len(outs) /\ \A i \in 1..Len(outs) : locs[o[i]].contents = outs[i]
      BY <1>1, <2>1, <2>3, <2>4 DEF OutputsHeld
    <2>7. k \in DOMAIN outs /\ outs[k] = a
      BY <2>2, <2>5, <2>6
    <2>8. Puts(e, a, values[a])
      BY <1>1, <2>1, <2>3, <2>4, <2>5, <2>7 DEF Puts
    <2>9. a \in Outputs(e.step)
      BY <1>1, <2>1, <2>4, <2>7 DEF Outputs, ToSet
    <2>10. QED
      BY <1>1, <2>1, <2>2, <2>8, <2>9 DEF ValuesHeld
  <1>4. QED
    BY <1>2, <1>3

LEMMA RetireComputes ==
    ASSUME ScheduleInv, NEW p, NEW values, NEW loaded, NEW now, Retiring(p, values, loaded, now)
    PROVE  IsCorrect(scheduled, locs)' /\ AreInputsApart(locs)' /\ ValuesHeld' /\ ValuesKept'
  <1>1. /\ FifoTypes /\ IsProgram /\ IsCorrect(scheduled, locs) /\ AreInputsApart(locs) /\ ValuesHeld /\ ValuesKept
        /\ p \in Steps /\ Outputs(p) \subseteq DOMAIN values /\ DOMAIN value_locs \subseteq DOMAIN values
    BY FifoInvParts DEF Retiring, ScheduleInv
  <1>2. /\ scheduled' = scheduled /\ UNCHANGED program /\ Retired' = Retired \cup {p}
        /\ \A i : i \in Running' <=> i \in Running /\ i > running
    BY RetireRetired
  <1>3. PICK new : new = locs'
    OBVIOUS
  <1>4. Grown(locs, new) /\ IsWithout(value_locs', values, Unread(p))
    BY <1>3, RetireMemory
  <1>5. PICK C : Memory(C)
    BY FifoInvParts DEF Retiring
  <1>6. locs \in Seq(LocOf(C))
    BY <1>5 DEF Memory
  <1>7. PICK D : new \in Seq(LocOf(D))
    <2>1. MemoryKept'
      BY RetireMemory
    <2>2. PICK D : Memory(D)'
      BY <2>1 DEF MemoryKept
    <2>3. locs' \in Seq(LocOf(D)')
      BY <2>2 DEF Memory
    <2>4. QED
      BY <1>2, <1>3, <2>3, LocFitsPrime
  <1>8. /\ IsCorrect(scheduled, new) /\ AreInputsApart(new)
        /\ \A a, l : Holds(scheduled, locs, a, l, Len(scheduled)) => Holds(scheduled, new, a, l, Len(scheduled))
    BY <1>1, <1>4, <1>6, <1>7, GrowsCorrect
  <1>9. IsCorrect(scheduled, locs)' /\ AreInputsApart(locs)'
    <2>1. IsCorrect(scheduled', locs') /\ AreInputsApart(locs')
      BY <1>2, <1>3, <1>8
    <2>2. QED
      BY <1>2, <2>1, SchedulePrime
  <1>10. ValuesHeld'
    <2>1. ASSUME NEW a \in DOMAIN value_locs' PROVE Holds(scheduled, locs, a, value_locs[a], Len(scheduled))'
      <3>1. a \in DOMAIN values /\ value_locs'[a] = values[a]
        BY <1>4, <2>1 DEF IsWithout
      <3>2. Holds(scheduled, locs, a, values[a], Len(scheduled))
        BY <1>1, <3>1, RetiredPut
      <3>3. Holds(scheduled, new, a, value_locs'[a], Len(scheduled))
        BY <1>8, <3>1, <3>2
      <3>4. Holds(scheduled', locs', a, value_locs'[a], Len(scheduled'))
        BY <1>2, <1>3, <3>3
      <3>5. QED
        BY <1>2, <3>4 DEF Holds, Puts, StepOf, Final, Allocs, IsTmp
    <2>2. ASSUME NEW i \in Running', NEW a \in Outputs(scheduled[i].step)', NEW l \in ToSet(scheduled'[i].outputs),
                 Puts(scheduled[i], a, l)'
          PROVE  Holds(scheduled, locs, a, l, Len(scheduled))'
      <3>1. Puts(scheduled[i], a, l) /\ l \in ToSet(scheduled[i].outputs) /\ i \in Running
        BY <1>2, <2>2, SchedulePrime
      <3>2. a \in Outputs(scheduled[i].step)
        BY <1>2 DEF Outputs, StepOf, Final, Allocs, IsTmp
      <3>3. Holds(scheduled, locs, a, l, Len(scheduled))
        BY <1>1, <3>1, <3>2 DEF ValuesHeld
      <3>4. Holds(scheduled', locs', a, l, Len(scheduled'))
        BY <1>2, <1>3, <1>8, <3>3
      <3>5. QED
        BY <1>2, <3>4 DEF Holds, Puts, StepOf, Final, Allocs, IsTmp
    <2>3. QED
      BY <2>1, <2>2 DEF ValuesHeld
  <1>11. ValuesKept'
    <2>1. /\ Steps' = Steps /\ Allocs' = Allocs /\ Final' = Final
          /\ \A q : Inputs(q)' = Inputs(q) /\ Outputs(q)' = Outputs(q) /\ IsZero(q)' = IsZero(q)
          /\ \A a : IsInput(a)' = IsInput(a)
      BY <1>2, SameProgram
    <2>2. ASSUME NEW a \in Allocs, IsInput(a) \/ \E q \in Retired' : ~IsZero(q) /\ a \in Outputs(q), a \notin DOMAIN value_locs'
          PROVE  a \notin Inputs(Final) /\ \E q \in Steps : a \in Inputs(q)
      <3>1. CASE a \in Unread(p)
        BY <1>1, <3>1, UnreadFacts
      <3>2. CASE a \notin Unread(p)
        <4>1. a \notin DOMAIN values
          BY <1>4, <2>2, <3>2 DEF IsWithout
        <4>2. a \notin Outputs(p) /\ a \notin DOMAIN value_locs
          BY <1>1, <4>1
        <4>3. IsInput(a) \/ \E q \in Retired : ~IsZero(q) /\ a \in Outputs(q)
          BY <1>2, <2>2, <4>2
        <4>4. QED
          BY <1>1, <4>2, <4>3 DEF ValuesKept
      <3>3. QED
        BY <3>1, <3>2
    <2>3. Inputs(Final)' = Inputs(Final)
      BY <2>1
    <2>4. QED
      BY <2>1, <2>2, <2>3 DEF ValuesKept
  <1>12. QED
    BY <1>9, <1>10, <1>11

LEMMA SameSchedule ==
    ASSUME IsCorrect(scheduled, locs), AreInputsApart(locs), ValuesHeld, ValuesKept, UNCHANGED fifoState
    PROVE  IsCorrect(scheduled, locs)' /\ AreInputsApart(locs)' /\ ValuesHeld' /\ ValuesKept'
  <1>1. UNCHANGED <<program, locs, value_locs, scheduled, running>>
    BY DEF fifoState
  <1>2. IsCorrect(scheduled, locs)' /\ AreInputsApart(locs)'
    BY <1>1, SchedulePrime
  <1>3. ValuesHeld'
    <2>1. Running' = Running
      BY <1>1 DEF Running
    <2>2. ASSUME NEW a \in DOMAIN value_locs' PROVE Holds(scheduled, locs, a, value_locs[a], Len(scheduled))'
      <3>1. Holds(scheduled, locs, a, value_locs[a], Len(scheduled))
        BY <1>1, <2>2 DEF ValuesHeld
      <3>2. Holds(scheduled', locs', a, value_locs'[a], Len(scheduled'))
        BY <1>1, <3>1
      <3>3. QED
        BY <1>1, <3>2, SMTT(60) DEF Holds, Puts, StepOf, Final, Allocs, IsTmp
    <2>3. ASSUME NEW i \in Running', NEW a \in Outputs(scheduled[i].step)', NEW l \in ToSet(scheduled'[i].outputs),
                 Puts(scheduled[i], a, l)'
          PROVE  Holds(scheduled, locs, a, l, Len(scheduled))'
      <3>1. Puts(scheduled[i], a, l) /\ l \in ToSet(scheduled[i].outputs) /\ i \in Running
        BY <1>1, <2>1, <2>3, SchedulePrime
      <3>2. a \in Outputs(scheduled[i].step)
        BY <1>1 DEF Outputs, StepOf, Final, Allocs, IsTmp
      <3>3. Holds(scheduled, locs, a, l, Len(scheduled))
        BY <3>1, <3>2 DEF ValuesHeld
      <3>4. Holds(scheduled', locs', a, l, Len(scheduled'))
        BY <1>1, <3>3
      <3>5. QED
        BY <1>1, <3>4 DEF Holds, Puts, StepOf, Final, Allocs, IsTmp
    <2>4. QED
      BY <2>2, <2>3 DEF ValuesHeld
  <1>4. ValuesKept'
    <2>1. /\ Steps' = Steps /\ Allocs' = Allocs /\ Final' = Final
          /\ \A q : Inputs(q)' = Inputs(q) /\ Outputs(q)' = Outputs(q) /\ IsZero(q)' = IsZero(q)
          /\ \A a : IsInput(a)' = IsInput(a)
      BY <1>1, SameProgram
    <2>2. Retired' = Retired
      BY <1>1 DEF Retired
    <2>3. Inputs(Final)' = Inputs(Final)
      BY <2>1
    <2>4. QED
      BY <1>1, <2>1, <2>2, <2>3 DEF ValuesKept
  <1>5. QED
    BY <1>2, <1>3, <1>4

LEMMA ScheduleInit ==
    ASSUME FifoInit
    PROVE  ScheduleInv
  <1>1. FifoInv /\ AreInputsApart(locs) /\ InputsThere
    BY FifoInitInv, InitialMemory
  <1>2. scheduled = <<>> /\ running = 1 /\ DOMAIN value_locs = {a \in Allocs : IsInput(a)}
    BY DEF FifoInit
  <1>3. DOMAIN scheduled = {} /\ Len(scheduled) = 0 /\ Retired = {} /\ Running = {}
    BY <1>2 DEF Retired, Running
  <1>4. IsCorrect(scheduled, locs)
    BY <1>3 DEF IsCorrect
  <1>5. ASSUME NEW a \in DOMAIN value_locs PROVE Holds(scheduled, locs, a, value_locs[a], Len(scheduled))
    <2>1. value_locs[a] \in DOMAIN locs /\ locs[value_locs[a]].input = a
      BY <1>1 DEF InputsThere
    <2>2. Holds(scheduled, locs, a, value_locs[a], 0)
      BY <2>1 DEF Holds
    <2>3. QED
      BY <1>3, <2>2
  <1>6. ValuesHeld
    BY <1>3, <1>5 DEF ValuesHeld
  <1>7. ValuesKept
    BY <1>2, <1>3 DEF ValuesKept
  <1>8. QED
    BY <1>1, <1>4, <1>6, <1>7 DEF ScheduleInv

LEMMA ScheduleKept ==
    ASSUME ScheduleInv, [FifoNext]_fifoVars
    PROVE  ScheduleInv'
  <1>1. FifoInv /\ IsCorrect(scheduled, locs) /\ AreInputsApart(locs) /\ ValuesHeld /\ ValuesKept
    BY DEF ScheduleInv
  <1>2. FifoInv'
    BY <1>1, FifoStep
  <1>3. ASSUME UNCHANGED fifoState PROVE ScheduleInv'
    BY <1>1, <1>2, <1>3, SameSchedule DEF ScheduleInv
  <1>4. CASE ScheduleStep
    BY <1>4, ScheduleStepComputes
  <1>5. CASE NothingToSchedule
    BY <1>3, <1>5 DEF NothingToSchedule, fifoState
  <1>6. CASE RetireStep
    <2>1. CASE Running = {}
      BY <1>3, <1>6, <2>1 DEF RetireStep, fifoState
    <2>2. CASE Running # {}
      <3>1. Retire
        BY <1>6, <2>2 DEF RetireStep
      <3>2. PICK p, values, loaded, now : Retiring(p, values, loaded, now)
        BY <1>1, <2>2, <3>1, RetiringFacts
      <3>3. QED
        BY <1>2, <3>2, RetireComputes DEF ScheduleInv
    <2>3. QED
      BY <2>1, <2>2
  <1>7. CASE Finalize
    BY <1>3, <1>7 DEF Finalize, fifoState
  <1>8. CASE UNCHANGED fifoVars
    BY <1>3, <1>8 DEF fifoVars, fifoState
  <1>9. QED
    BY <1>4, <1>5, <1>6, <1>7, <1>8 DEF FifoNext, Returned

\* What FinalizeSchedule returns.
Returns == [steps |-> FinalSteps,
            allocs |-> {l \in DOMAIN locs : locs[l].contents # NoAlloc},
            output |-> [a \in {b \in Allocs : IsOutput(b)} |-> value_locs[a]]]

ResultKept ==
    /\ phase \in {"finalize", "done"} => pending = {}
    /\ phase = "done" => result = Returns

\* The loc in which an entry leaves a, where outs are the outputs of its step.
OutputAt(e, outs, a) == e.outputs[CHOOSE i \in DOMAIN e.outputs : outs[i] = a]
InputAt(list, a) == CHOOSE l \in DOMAIN list : list[l].input = a
WritersAt(a, k) == {i \in 1..(k - 1) : a \in Outputs(scheduled[i].step)}

LEMMA SameReturns ==
    ASSUME UNCHANGED fifoState
    PROVE  Returns' = Returns
  <1>1. UNCHANGED <<program, locs, value_locs, scheduled>> /\ UNCHANGED program
    BY DEF fifoState
  <1>2. /\ Allocs' = Allocs
        /\ \A q : Inputs(q)' = Inputs(q) /\ Outputs(q)' = Outputs(q) /\ StepOf(q)' = StepOf(q)
    BY <1>1, SameProgram
  <1>3. \A i : /\ Outputs(scheduled[i].step)' = Outputs(scheduled[i].step)
               /\ Inputs(scheduled[i].step)' = Inputs(scheduled[i].step)
               /\ StepOf(scheduled[i].step)' = StepOf(scheduled[i].step)
    BY <1>1 DEF Outputs, Inputs, StepOf, Final, Allocs, IsTmp
  <1>4. ASSUME NEW a, NEW k PROVE LocAt(a, k)' = LocAt(a, k)
    <2>1. WritersAt(a, k)' = WritersAt(a, k)
      BY <1>3 DEF WritersAt
    <2>2. LocAt(a, k) = IF WritersAt(a, k) = {} THEN InputAt(locs, a)
                        ELSE OutputAt(scheduled[Max(WritersAt(a, k))],
                                      StepOf(scheduled[Max(WritersAt(a, k))].step).outputs, a)
      BY DEF LocAt, WritersAt, InputAt, OutputAt
    <2>3. LocAt(a, k)' = IF WritersAt(a, k)' = {} THEN InputAt(locs', a)
                         ELSE OutputAt(scheduled'[Max(WritersAt(a, k)')],
                                       StepOf(scheduled[Max(WritersAt(a, k))].step)'.outputs, a)
      BY DEF LocAt, WritersAt, InputAt, OutputAt
    <2>4. PICK w : w = Max(WritersAt(a, k))
      OBVIOUS
    <2>5. StepOf(scheduled[Max(WritersAt(a, k))].step)' = StepOf(scheduled[w].step)
      BY <1>1, <2>1, <2>4 DEF StepOf, Final, Allocs, IsTmp
    <2>6. QED
      BY <1>1, <2>1, <2>2, <2>3, <2>4, <2>5
  <1>5. FinalSteps' = FinalSteps
    <2>1. ASSUME NEW k PROVE [a \in Inputs(scheduled[k].step) |-> LocAt(a, k)]' = [a \in Inputs(scheduled[k].step) |-> LocAt(a, k)]
      BY <1>3, <1>4
    <2>2. QED
      BY <1>1, <2>1 DEF FinalSteps
  <1>6. \A a : IsOutput(a)' = IsOutput(a)
    BY <1>1 DEF IsOutput
  <1>7. QED
    BY <1>1, <1>2, <1>5, <1>6 DEF Returns

LEMMA ResultStays ==
    ASSUME ResultKept, [FifoNext]_fifoVars
    PROVE  ResultKept'
  <1>1. CASE ScheduleStep
    <2>1. phase' \in {"schedule", "retire"}
      BY <1>1 DEF ScheduleStep
    <2>2. QED
      BY <2>1 DEF ResultKept
  <1>2. CASE NothingToSchedule
    BY <1>2 DEF NothingToSchedule, ResultKept
  <1>3. CASE RetireStep
    <2>1. pending' = pending /\ phase' = IF pending = {} THEN "finalize" ELSE "schedule"
      BY <1>3 DEF RetireStep, Retire
    <2>2. QED
      BY <2>1 DEF ResultKept
  <1>4. CASE Finalize
    <2>1. UNCHANGED fifoState /\ phase = "finalize" /\ result' = Returns /\ pending' = pending
      BY <1>4 DEF Finalize, fifoState, Returns
    <2>2. QED
      BY <2>1, SameReturns DEF ResultKept
  <1>5. CASE UNCHANGED fifoVars
    <2>1. UNCHANGED fifoState /\ phase' = phase /\ result' = result /\ pending' = pending
      BY <1>5 DEF fifoVars, fifoState
    <2>2. QED
      BY <2>1, SameReturns DEF ResultKept
  <1>6. QED
    BY <1>1, <1>2, <1>3, <1>4, <1>5 DEF FifoNext, Returned

-----------------------------------------------------------------------------
(* The schedule at its end *)

\* Every step of the program has been scheduled, the synthetic one last.
IsWhole(s) ==
    /\ Len(s) = Final
    /\ s[Final].step = Final
    /\ \A p \in Steps : \E i \in 1..Final : s[i].step = p

LEMMA AllScheduled ==
    ASSUME ScheduleInv, pending = {}
    PROVE  /\ IsSchedule(scheduled, locs)
           /\ \A p \in Steps : \E i \in DOMAIN scheduled : scheduled[i].step = p
  <1>1. FifoTypes /\ IsProgram /\ StepsOnce /\ IsCorrect(scheduled, locs)
    BY FifoInvParts DEF ScheduleInv
  <1>2. scheduled \in Seq(Entries) /\ DOMAIN scheduled = 1..Len(scheduled) /\ Len(scheduled) \in Nat
    BY <1>1, RetiredFacts DEF FifoTypes
  <1>3. \A i \in DOMAIN scheduled : scheduled[i].step \in Steps
    BY <1>1, RetiredFacts DEF Entries
  <1>4. IsSchedule(scheduled, locs)
    BY <1>1, <1>2, <1>3 DEF IsSchedule, StepsOnce
  <1>5. \A p \in Steps : ~IsZero(p) => \E i \in DOMAIN scheduled : scheduled[i].step = p
    BY <1>1 DEF StepsOnce
  <1>6. ASSUME NEW z \in Steps, IsZero(z) PROVE \E i \in DOMAIN scheduled : scheduled[i].step = z
    <2>1. z < Final /\ z \in Nat /\ z >= 1 /\ Final \in Nat
      BY <1>1, <1>6, ZeroFacts, ProgramTypes DEF Steps
    <2>2. PICK a \in Outputs(z) : \E q \in (z + 1)..(Final - 1) : a \in Outputs(q)
      BY <1>1, <1>6, ZeroFacts
    <2>3. PICK q \in (z + 1)..(Final - 1) : a \in Outputs(q)
      BY <2>2
    <2>4. q \in Steps /\ z \in 1..(q - 1)
      BY <2>1 DEF Steps
    <2>5. ~IsZero(q)
      BY <1>1, <2>2, <2>3, <2>4, ZeroFacts
    <2>6. PICK j \in DOMAIN scheduled : scheduled[j].step = q
      BY <1>5, <2>4, <2>5
    <2>7. IsInTime(scheduled, j)
      BY <1>4, <2>6, ScheduleFacts
    <2>8. Outputs(z) \cap Outputs(q) # {}
      BY <2>2, <2>3
    <2>9. PICK i \in 1..(j - 1) : scheduled[i].step = z
      BY <2>4, <2>6, <2>7, <2>8 DEF IsInTime
    <2>10. i \in DOMAIN scheduled
      BY <1>2, <2>6
    <2>11. QED
      BY <2>9, <2>10
  <1>7. QED
    BY <1>4, <1>5, <1>6

LEMMA FinalIsLast ==
    ASSUME NEW s, NEW list, IsSchedule(s, list), \A p \in Steps : \E i \in DOMAIN s : s[i].step = p
    PROVE  IsWhole(s)
  <1>1. IsProgram /\ Len(s) \in Nat /\ DOMAIN s = 1..Len(s) /\ Final \in Nat /\ Final > 1
    BY ScheduleFacts, ProgramTypes
  <1>2. \A i \in DOMAIN s : s[i].step \in Steps /\ s[i].step \in 1..Final
    BY ScheduleFacts DEF Steps
  <1>3. Len(s) = Final
    <2> DEFINE f == [i \in 1..Len(s) |-> s[i].step]
    <2>1. f \in [1..Len(s) -> 1..Final]
      BY <1>1, <1>2
    <2>2. ASSUME NEW p \in 1..Final PROVE \E i \in 1..Len(s) : f[i] = p
      <3>1. PICK i \in DOMAIN s : s[i].step = p
        BY DEF Steps
      <3>2. i \in 1..Len(s) /\ f[i] = p
        BY <1>1, <3>1
      <3>3. QED
        BY <3>2
    <2>3. \A i, j \in 1..Len(s) : f[i] = f[j] => i = j
      BY <1>1, ScheduleFacts
    <2> HIDE DEF f
    <2>4. f \in Bijection(1..Len(s), 1..Final)
      BY <2>1, <2>2, <2>3 DEF Bijection, Injection, Surjection, IsInjective
    <2>5. ExistsBijection(1..Len(s), 1..Final)
      BY <2>4 DEF ExistsBijection
    <2>6. IsFiniteSet(1..Len(s)) /\ Cardinality(1..Len(s)) = Len(s) /\ Cardinality(1..Final) = Final
      <3>1. ASSUME NEW n \in Nat PROVE IsFiniteSet(1..n) /\ Cardinality(1..n) = n
        <4>1. IsFiniteSet(1..n) /\ Cardinality(1..n) = IF 1 > n THEN 0 ELSE n - 1 + 1
          BY FS_Interval
        <4>2. QED
          BY <4>1
      <3>2. QED
        BY <1>1, <3>1
    <2>7. Cardinality(1..Final) = Cardinality(1..Len(s))
      <3>1. PICK S, T : S = 1..Len(s) /\ T = 1..Final
        OBVIOUS
      <3>2. IsFiniteSet(S) /\ ExistsBijection(S, T)
        BY <2>5, <2>6, <3>1
      <3>3. Cardinality(T) = Cardinality(S)
        BY <3>2, FS_Bijection
      <3>4. QED
        BY <3>1, <3>3
    <2>8. QED
      BY <2>6, <2>7
  <1>4. PICK f \in DOMAIN s : s[f].step = Final
    BY <1>1 DEF Steps
  <1>5. ASSUME f # Final PROVE FALSE
    <2>1. PICK T : T = {s[i].step : i \in (f + 1)..Final}
      OBVIOUS
    <2>2. f \in 1..Final /\ Final \in (f + 1)..Final
      BY <1>1, <1>3, <1>4, <1>5
    <2>3. \A i \in (f + 1)..Final : i \in DOMAIN s /\ i # f
      BY <1>1, <1>3, <2>2
    <2>4. T \in SUBSET (0..Final) /\ T # {}
      BY <1>2, <2>1, <2>2, <2>3
    <2>5. PICK p : p = Max(T)
      OBVIOUS
    <2>6. p \in T /\ \A y \in T : y <= p
      BY <1>1, <2>4, <2>5, MaxOf
    <2>7. PICK i \in (f + 1)..Final : s[i].step = p
      BY <2>1, <2>6
    <2>8. p # Final /\ p \in 1..Final
      BY <1>2, <1>4, <2>3, <2>7, ScheduleFacts
    <2>9. p \in 1..(Final - 1) /\ p \in Nat
      BY <1>1, <2>8
    <2>10. Outputs(p) \cap UNION {Inputs(q) \cup Outputs(q) : q \in (p + 1)..Final} # {}
      BY <1>1, <2>9 DEF IsProgram
    <2>11. PICK a : a \in Outputs(p) /\ \E q \in (p + 1)..Final : a \in Inputs(q) \cup Outputs(q)
      BY <2>10
    <2>12. PICK q \in (p + 1)..Final : a \in Inputs(q) \cup Outputs(q)
      BY <2>11
    <2>13. q \in Steps /\ p \in 1..(q - 1) /\ q > p
      BY <1>1, <2>9 DEF Steps
    <2>14. PICK j \in DOMAIN s : s[j].step = q
      BY <2>13
    <2>15. HasWriters(s, a, q, j - 1)
      <3>1. CASE a \in Inputs(q)
        BY <2>14, <3>1, ReadHasWriters
      <3>2. CASE a \in Outputs(q)
        BY <2>14, <3>2, WrittenHasWriters
      <3>3. QED
        BY <2>12, <3>1, <3>2
    <2>16. PICK k \in 1..(j - 1) : s[k].step = p
      BY <2>11, <2>13, <2>15 DEF HasWriters
    <2>17. k \in DOMAIN s /\ j \in 1..Final
      BY <1>1, <1>3, <2>14
    <2>18. k = i
      BY <2>3, <2>7, <2>16, <2>17, ScheduleFacts
    <2>19. j \in (f + 1)..Final
      BY <1>1, <2>2, <2>17, <2>18
    <2>20. q \in T
      BY <2>1, <2>14, <2>19
    <2>21. q <= p
      BY <2>6, <2>20
    <2>22. QED
      BY <2>9, <2>12, <2>13, <2>21
  <1>6. s[Final].step = Final
    BY <1>4, <1>5
  <1>7. QED
    BY <1>1, <1>3, <1>6 DEF IsWhole

\* What is in its loc when all is scheduled was there for the last step.
LEMMA HoldsAtEnd ==
    ASSUME NEW s, NEW list, IsSchedule(s, list), IsWhole(s), NEW a, NEW l, Holds(s, list, a, l, Final)
    PROVE  Holds(s, list, a, l, Final - 1)
  <1>1. IsProgram /\ Final \in Nat /\ Final > 1 /\ Len(s) = Final /\ DOMAIN s = 1..Final /\ s[Final].step = Final
    BY ScheduleFacts, ProgramTypes DEF IsWhole
  <1>2. s[Final] \in Entries /\ IsPlaced(s[Final]) /\ Outputs(Final) = {}
    BY <1>1, ScheduleFacts, ProgramTypes
  <1>3. \A m : m \notin ToSet(s[Final].outputs) /\ ~Puts(s[Final], a, m)
    <2>1. \A m \in ToSet(s[Final].outputs) : \E b : Puts(s[Final], b, m)
      BY <1>1, <1>2, PutsFacts
    <2>2. \A b, m : ~Puts(s[Final], b, m)
      BY <1>1, <1>2, PutsFacts
    <2>3. QED
      BY <2>1, <2>2
  <1>4. \A i \in 1..Final : i \in 1..(Final - 1) \/ i = Final
    BY <1>1
  <1>5. \A i \in 1..(Final - 1) : i \in 1..Final
    BY <1>1
  <1>6. \A i \in 1..(Final - 1) : \A m \in ToSet(s[i].outputs) : Puts(s[i], a, m) => m = l
    BY <1>5 DEF Holds
  <1>7. ASSUME NEW i \in 1..(Final - 1), l \in ToSet(s[i].outputs) PROVE \E j \in i..(Final - 1) : Puts(s[j], a, l)
    <2>1. PICK j \in i..Final : Puts(s[j], a, l)
      BY <1>5, <1>7 DEF Holds
    <2>2. j # Final
      BY <1>3, <2>1
    <2>3. j \in i..(Final - 1)
      BY <1>1, <2>2
    <2>4. QED
      BY <2>1, <2>3
  <1>8. (\A i \in 1..(Final - 1) : l \notin ToSet(s[i].outputs)) => list[l].input = a
    BY <1>3, <1>4 DEF Holds
  <1>9. QED
    BY <1>6, <1>7, <1>8 DEF Holds

\* The loc that FinalizeSchedule says holds a is the one that holds it.
LEMMA LocAtFacts ==
    ASSUME IsSchedule(scheduled, locs), AreInputsApart(locs), NEW k \in DOMAIN scheduled, NEW a \in Allocs,
           NEW l, Holds(scheduled, locs, a, l, k - 1)
    PROVE  LocAt(a, k) = l /\ locs[l].contents # NoAlloc
  <1>1. IsProgram /\ Len(scheduled) \in Nat /\ k \in 1..Len(scheduled) /\ k - 1 \in Nat
        /\ DOMAIN scheduled = 1..Len(scheduled) /\ a # NoAlloc /\ l \in DOMAIN locs
    BY ScheduleFacts DEF IsProgram, Holds
  <1>2. \A i \in 1..(k - 1) : /\ scheduled[i] \in Entries /\ IsPlaced(scheduled[i]) /\ IsSafe(scheduled[i], locs)
                              /\ i \in DOMAIN scheduled
    BY <1>1, ScheduleFacts
  <1>3. LocAt(a, k) = IF WritersAt(a, k) = {} THEN InputAt(locs, a)
                      ELSE OutputAt(scheduled[Max(WritersAt(a, k))],
                                    StepOf(scheduled[Max(WritersAt(a, k))].step).outputs, a)
    BY DEF LocAt, WritersAt, InputAt, OutputAt
  <1>4. locs[l].contents # NoAlloc
    <2>1. CASE \A i \in 1..(k - 1) : l \notin ToSet(scheduled[i].outputs)
      <3>1. locs[l].input = a
        BY <2>1 DEF Holds
      <3>2. QED
        BY <1>1, <3>1 DEF AreInputsApart
    <2>2. CASE \E i \in 1..(k - 1) : l \in ToSet(scheduled[i].outputs)
      BY <1>2, <2>2 DEF IsSafe
    <2>3. QED
      BY <2>1, <2>2
  <1>5. CASE WritersAt(a, k) = {}
    <2>1. ASSUME NEW i \in 1..(k - 1), l \in ToSet(scheduled[i].outputs) PROVE FALSE
      <3>1. PICK j \in i..(k - 1) : Puts(scheduled[j], a, l)
        BY <2>1 DEF Holds
      <3>2. j \in 1..(k - 1)
        BY <1>1, <3>1
      <3>3. a \in Outputs(scheduled[j].step)
        BY <1>1, <1>2, <3>1, <3>2, PutsFacts
      <3>4. QED
        BY <1>5, <3>2, <3>3 DEF WritersAt
    <2>2. locs[l].input = a
      BY <2>1 DEF Holds
    <2>3. PICK m \in DOMAIN locs : m = InputAt(locs, a) /\ locs[m].input = a
      BY <1>1, <2>2 DEF InputAt
    <2>4. m = l
      BY <1>1, <2>2, <2>3 DEF AreInputsApart
    <2>5. QED
      BY <1>3, <1>4, <1>5, <2>3, <2>4
  <1>6. CASE WritersAt(a, k) # {}
    <2>1. PICK W : W = WritersAt(a, k)
      OBVIOUS
    <2>2. W \in SUBSET (0..(k - 1)) /\ W # {}
      BY <1>6, <2>1 DEF WritersAt
    <2>3. PICK w : w = Max(W)
      OBVIOUS
    <2>4. w \in W
      BY <1>1, <2>2, <2>3, MaxOf
    <2>5. w \in 1..(k - 1) /\ a \in Outputs(scheduled[w].step)
      BY <2>1, <2>4 DEF WritersAt
    <2>6. PICK e \in Entries : e = scheduled[w] /\ IsPlaced(e)
      BY <1>2, <2>5
    <2>7. PICK m : Puts(e, a, m)
      BY <1>1, <2>5, <2>6, PutsFacts
    <2>8. \E i \in DOMAIN e.outputs : StepOf(e.step).outputs[i] = a
      BY <2>7 DEF Puts
    <2>9. PICK i \in DOMAIN e.outputs : /\ StepOf(e.step).outputs[i] = a
                                        /\ OutputAt(e, StepOf(e.step).outputs, a) = e.outputs[i]
      BY <2>8 DEF OutputAt
    <2>10. Puts(e, a, e.outputs[i])
      BY <2>9 DEF Puts
    <2>11. e.outputs[i] \in ToSet(e.outputs)
      BY <1>1, <2>6, <2>10, PutsFacts
    <2>12. e.outputs[i] = l
      BY <2>5, <2>6, <2>10, <2>11 DEF Holds
    <2>13. QED
      BY <1>3, <1>4, <1>6, <2>1, <2>3, <2>6, <2>9, <2>12
  <1>7. QED
    BY <1>5, <1>6

\* BuildSchedule has returned.
AtEnd ==
    /\ IsSchedule(scheduled, locs) /\ AreInputsApart(locs) /\ IsWhole(scheduled)
    /\ result = Returns

LEMMA ResultFacts ==
    ASSUME AtEnd
    PROVE  /\ IsProgram /\ Final \in Nat /\ Final > 1 /\ Len(scheduled) = Final
           /\ Len(ResultSteps) = Final - 1
           /\ \A k : k \in DOMAIN ResultSteps <=> k \in 1..(Final - 1)
           /\ result.allocs = {l \in DOMAIN locs : locs[l].contents # NoAlloc}
           /\ \A k \in 1..Final : k \in DOMAIN scheduled /\ scheduled[k].step \in Steps
           /\ \A k \in 1..(Final - 1) :
                 /\ k \in DOMAIN scheduled
                 /\ ResultSteps[k].kernel = scheduled[k].step /\ ResultSteps[k].outputs = scheduled[k].outputs
                 /\ ResultSteps[k].inputs = [a \in Inputs(scheduled[k].step) |-> LocAt(a, k)]
  <1>1. IsProgram /\ Final \in Nat /\ Final > 1 /\ Len(scheduled) = Final /\ DOMAIN scheduled = 1..Final
        /\ \A k \in DOMAIN scheduled : scheduled[k].step \in Steps
    BY ScheduleFacts, ProgramTypes DEF AtEnd, IsWhole
  <1>2. ResultSteps = FinalSteps /\ result.allocs = {l \in DOMAIN locs : locs[l].contents # NoAlloc}
    BY DEF AtEnd, Returns, ResultSteps
  <1>3. FinalSteps = [k \in 1..(Final - 1) |->
           [kernel |-> scheduled[k].step,
            inputs |-> [a \in Inputs(scheduled[k].step) |-> LocAt(a, k)],
            outputs |-> scheduled[k].outputs]]
    BY <1>1 DEF FinalSteps
  <1>4. Final - 1 \in Nat
    BY <1>1
  <1>5. Len(ResultSteps) = Final - 1
    BY <1>2, <1>3, <1>4
  <1>6. \A k : k \in DOMAIN ResultSteps <=> k \in 1..(Final - 1)
    BY <1>2, <1>3
  <1>7. \A k \in 1..(Final - 1) :
                 /\ k \in DOMAIN scheduled
                 /\ ResultSteps[k].kernel = scheduled[k].step /\ ResultSteps[k].outputs = scheduled[k].outputs
                 /\ ResultSteps[k].inputs = [a \in Inputs(scheduled[k].step) |-> LocAt(a, k)]
    BY <1>1, <1>2, <1>3
  <1>8. QED
    BY <1>1, <1>2, <1>5, <1>6, <1>7

\* A step finds its inputs where the result says they are.
LEMMA InputFound ==
    ASSUME AtEnd, NEW k \in 1..Final, NEW a \in Inputs(scheduled[k].step)
    PROVE  LocAt(a, k) \in result.allocs /\ Holds(scheduled, locs, a, LocAt(a, k), k - 1)
  <1>1. IsSchedule(scheduled, locs) /\ AreInputsApart(locs) /\ k \in DOMAIN scheduled /\ IsProgram
        /\ scheduled[k].step \in Steps /\ result.allocs = {l \in DOMAIN locs : locs[l].contents # NoAlloc}
    BY ResultFacts DEF AtEnd
  <1>2. a \in Allocs
    BY <1>1, ProgramTypes
  <1>3. PICK l : Holds(scheduled, locs, a, l, k - 1)
    BY <1>1, ScheduleFacts DEF FindsValues
  <1>4. LocAt(a, k) = l /\ locs[l].contents # NoAlloc
    BY <1>1, <1>2, <1>3, LocAtFacts
  <1>5. l \in DOMAIN locs
    BY <1>3 DEF Holds
  <1>6. QED
    BY <1>1, <1>3, <1>4, <1>5

\* What a step of the result writes.
LEMMA OutputWritten ==
    ASSUME AtEnd, NEW k \in 1..(Final - 1), NEW l \in ToSet(scheduled[k].outputs)
    PROVE  /\ l \in result.allocs /\ l \in DOMAIN locs
           /\ Puts(scheduled[k], Written(ResultSteps[k], l), l)
           /\ Written(ResultSteps[k], l) \in Outputs(scheduled[k].step)
  <1>1. k \in DOMAIN scheduled /\ IsProgram /\ result.allocs = {m \in DOMAIN locs : locs[m].contents # NoAlloc}
        /\ ResultSteps[k].kernel = scheduled[k].step /\ ResultSteps[k].outputs = scheduled[k].outputs
    BY ResultFacts
  <1>2. PICK e \in Entries : e = scheduled[k] /\ IsPlaced(e) /\ IsSafe(e, locs)
    BY <1>1, ScheduleFacts DEF AtEnd
  <1>3. l \in result.allocs /\ l \in DOMAIN locs
    BY <1>1, <1>2 DEF IsSafe
  <1>4. PICK b : Puts(e, b, l)
    BY <1>1, <1>2, PutsFacts
  <1>5. \E i \in DOMAIN e.outputs : e.outputs[i] = l
    BY <1>4 DEF Puts
  <1>6. PICK i \in DOMAIN e.outputs : e.outputs[i] = l /\ Written(ResultSteps[k], l) = StepOf(e.step).outputs[i]
    BY <1>1, <1>2, <1>5 DEF Written
  <1>7. PICK a : a = StepOf(e.step).outputs[i]
    OBVIOUS
  <1>8. Puts(e, a, l)
    BY <1>6, <1>7 DEF Puts
  <1>9. a \in Outputs(e.step)
    BY <1>1, <1>2, <1>8, PutsFacts
  <1>10. QED
    BY <1>2, <1>3, <1>6, <1>7, <1>8, <1>9

\* The memory after k steps of the result.
MemoryAfter(k) == [l \in result.allocs |-> Content(scheduled, locs, l, k)]

LEMMA ExecuteFacts ==
    ASSUME AtEnd, NEW k \in 1..(Final - 1)
    PROVE  Execute(MemoryAfter(k - 1), ResultSteps[k]) = MemoryAfter(k)
  <1>1. /\ IsSchedule(scheduled, locs) /\ AreInputsApart(locs) /\ k \in DOMAIN scheduled
        /\ ResultSteps[k].kernel = scheduled[k].step /\ ResultSteps[k].outputs = scheduled[k].outputs
    BY ResultFacts DEF AtEnd
  <1>2. PICK st : st = ResultSteps[k]
    OBVIOUS
  <1>3. PICK A : A = result.allocs
    OBVIOUS
  <1>4. PICK mem : mem = MemoryAfter(k - 1)
    OBVIOUS
  <1>5. PICK new : new = MemoryAfter(k)
    OBVIOUS
  <1>6. /\ mem = [l \in A |-> Content(scheduled, locs, l, k - 1)]
        /\ new = [l \in A |-> Content(scheduled, locs, l, k)]
    BY <1>3, <1>4, <1>5 DEF MemoryAfter
  <1> DEFINE Next(l) == IF l \notin ToSet(st.outputs) THEN mem[l]
                        ELSE [alloc |-> Written(st, l),
                              by |-> IF mem[l].alloc = Written(st, l) THEN Append(mem[l].by, st.kernel) ELSE <<st.kernel>>]
  <1>7. Execute(mem, st) = [l \in A |-> Next(l)]
    BY <1>6 DEF Execute
  <1>8. ASSUME NEW l \in A PROVE Next(l) = new[l]
    <2>1. PICK c : c = Content(scheduled, locs, l, k - 1)
      OBVIOUS
    <2>2. mem[l] = c /\ new[l] = Content(scheduled, locs, l, k)
      BY <1>6, <2>1
    <2>3. CASE l \notin ToSet(scheduled[k].outputs)
      <3>1. Content(scheduled, locs, l, k) = c
        BY <1>1, <2>1, <2>3, ContentKept
      <3>2. QED
        BY <1>1, <1>2, <2>2, <2>3, <3>1
    <2>4. CASE l \in ToSet(scheduled[k].outputs)
      <3>1. PICK a : a = Written(ResultSteps[k], l)
        OBVIOUS
      <3>2. Puts(scheduled[k], a, l)
        BY <2>4, <3>1, OutputWritten
      <3>3. Content(scheduled, locs, l, k)
              = [alloc |-> a, by |-> IF c.alloc = a THEN Append(c.by, scheduled[k].step) ELSE <<scheduled[k].step>>]
        BY <1>1, <2>1, <3>2, ContentWritten
      <3>4. QED
        BY <1>1, <1>2, <2>2, <2>4, <3>1, <3>3
    <2>5. QED
      BY <2>3, <2>4
  <1> HIDE DEF Next
  <1>9. [l \in A |-> Next(l)] = new
    BY <1>6, <1>8
  <1>10. QED
    BY <1>2, <1>4, <1>5, <1>7, <1>9

LEMMA MemoryStart ==
    ASSUME AtEnd
    PROVE  MemoryAfter(0) = [l \in result.allocs |-> [alloc |-> locs[l].input, by |-> <<>>]]
  <1>1. ASSUME NEW l PROVE Content(scheduled, locs, l, 0) = [alloc |-> locs[l].input, by |-> <<>>]
    <2>1. IsFresh(scheduled, l, 0)
      BY DEF IsFresh
    <2>2. QED
      BY <2>1 DEF Content
  <1>2. QED
    BY <1>1 DEF MemoryAfter

LEMMA MemoryIs ==
    ASSUME AtEnd, NEW k \in 1..Final
    PROVE  MemoryBefore(k) = MemoryAfter(k - 1)
  <1> DEFINE n == Len(ResultSteps)
             Start == [l \in result.allocs |-> [alloc |-> locs[l].input, by |-> <<>>]]
             Is(f) == f = [j \in 0..n |-> IF j = 0 THEN Start ELSE Execute(f[j - 1], ResultSteps[j])]
             g == [j \in 0..n |-> MemoryAfter(j)]
  <1>1. n \in Nat /\ n = Final - 1 /\ k - 1 \in 0..n
    BY ResultFacts
  <1>2. MemoryBefore(k) = (CHOOSE f : Is(f))[k - 1]
    BY DEF MemoryBefore
  <1>3. MemoryAfter(0) = Start
    BY MemoryStart
  <1> HIDE DEF n, Start
  <1>4. ASSUME NEW j \in 1..n PROVE Execute(MemoryAfter(j - 1), ResultSteps[j]) = MemoryAfter(j)
    BY <1>1, ExecuteFacts
  <1>5. Is(g)
    <2>1. ASSUME NEW j \in 0..n, j # 0 PROVE Execute(g[j - 1], ResultSteps[j]) = MemoryAfter(j)
      <3>1. j \in 1..n /\ j - 1 \in 0..n
        BY <1>1, <2>1
      <3>2. g[j - 1] = MemoryAfter(j - 1)
        BY <3>1
      <3> HIDE DEF g
      <3>3. QED
        BY <1>4, <3>1, <3>2
    <2>2. \A j \in 0..n : MemoryAfter(j) = IF j = 0 THEN Start ELSE Execute(g[j - 1], ResultSteps[j])
      <3> HIDE DEF g
      <3>1. QED
        BY <1>3, <2>1
    <2>3. [j \in 0..n |-> MemoryAfter(j)] = [j \in 0..n |-> IF j = 0 THEN Start ELSE Execute(g[j - 1], ResultSteps[j])]
      <3> HIDE DEF g
      <3>1. QED
        BY <2>2
    <2>4. QED
      BY <2>3
  <1>6. PICK f : Is(f) /\ f = CHOOSE h : Is(h)
    <2> HIDE DEF Is, g
    <2>1. QED
      BY <1>5
  <1>7. f[0] = Start /\ \A j \in 1..n : f[j] = Execute(f[j - 1], ResultSteps[j])
    BY <1>1, <1>6
  <1> HIDE DEF Is
  <1> DEFINE T == {j \in 0..n : f[j] = MemoryAfter(j)}
  <1>8. 0 \in T
    BY <1>1, <1>3, <1>7
  <1>9. ASSUME NEW j \in 1..n, j - 1 \in T PROVE j \in T
    <2>1. f[j] = Execute(MemoryAfter(j - 1), ResultSteps[j])
      BY <1>7, <1>9
    <2>2. QED
      BY <1>1, <1>4, <2>1
  <1>10. 0..n \subseteq T
    <2> HIDE DEF T
    <2>1. QED
      BY <1>1, <1>8, <1>9, UpTo
  <1>11. f[k - 1] = MemoryAfter(k - 1)
    BY <1>1, <1>10
  <1>12. QED
    BY <1>2, <1>6, <1>11

\* What survives is in its loc behind the last step.
LEMMA SurvivorHeld ==
    ASSUME ScheduleInv, pending = {}, AtEnd, NEW a \in Inputs(Final)
    PROVE  /\ a \in DOMAIN value_locs
           /\ value_locs[a] \in result.allocs
           /\ Content(scheduled, locs, value_locs[a], Final - 1) = ValueFor(a, Final)
           /\ IsInput(a) => locs[value_locs[a]].input = a
  <1>1. /\ FifoTypes /\ IsProgram /\ StepsOrdered /\ ValuesHeld /\ ValuesKept
        /\ IsSchedule(scheduled, locs) /\ AreInputsApart(locs) /\ IsWhole(scheduled)
    BY FifoInvParts DEF ScheduleInv, AtEnd
  <1>2. /\ Final \in Nat /\ Final > 1 /\ Len(scheduled) = Final /\ DOMAIN scheduled = 1..Final
        /\ scheduled[Final].step = Final /\ Final \in Steps /\ Final \in 1..Final /\ Final - 1 \in 0..Len(scheduled)
    <2>1. Final \in Nat /\ Final > 1
      BY <1>1, ProgramTypes
    <2>2. Len(scheduled) = Final /\ scheduled[Final].step = Final
      BY <1>1 DEF IsWhole
    <2>3. DOMAIN scheduled = 1..Final
      BY <1>1, <2>2, ScheduleFacts
    <2>4. Final \in Steps /\ Final \in 1..Final /\ Final - 1 \in 0..Len(scheduled)
      BY <2>1, <2>2 DEF Steps
    <2>5. QED
      BY <2>1, <2>2, <2>3, <2>4
  <1>3. a \in Allocs
    BY <1>1, <1>2, ProgramTypes
  <1>4. IsInput(a) \/ \E q \in Retired : ~IsZero(q) /\ a \in Outputs(q)
    <2>1. CASE ~IsInput(a)
      <3>1. MostRecentWriter(a, Final) # 0 /\ MostRecentWriter(a, Final) \in Dependencies(Final)
        BY <1>1, <1>2, <2>1, DependencyFacts
      <3>2. PICK w : w = MostRecentWriter(a, Final)
        OBVIOUS
      <3>3. w \in Steps /\ a \in Outputs(w)
        BY <1>1, <1>2, <3>1, <3>2, WriterFacts
      <3>4. ~IsZero(w)
        BY <1>1, <1>2, <3>1, <3>2, DependencyFacts
      <3>5. w \in Retired
        BY <1>1, <1>2, <3>1, <3>2 DEF StepsOrdered
      <3>6. QED
        BY <3>3, <3>4, <3>5
    <2>2. QED
      BY <2>1
  <1>5. a \in DOMAIN value_locs
    BY <1>1, <1>3, <1>4 DEF ValuesKept
  <1>6. PICK l : l = value_locs[a]
    OBVIOUS
  <1>7. Holds(scheduled, locs, a, l, Final)
    BY <1>1, <1>2, <1>5, <1>6 DEF ValuesHeld
  <1>8. Holds(scheduled, locs, a, l, Final - 1)
    BY <1>1, <1>7, HoldsAtEnd
  <1>9. HasWriters(scheduled, a, Final, Final - 1)
    <2>1. a \in Inputs(scheduled[Final].step) /\ Final \in DOMAIN scheduled
      BY <1>2
    <2>2. HasWriters(scheduled, a, scheduled[Final].step, Final - 1)
      BY <1>1, <2>1, ReadHasWriters
    <2>3. QED
      BY <1>2, <2>2
  <1>10. Content(scheduled, locs, l, Final - 1) = ValueFor(a, Final)
    BY <1>1, <1>2, <1>8, <1>9, ContentHeld
  <1>11. l \in result.allocs
    <2>1. LocAt(a, Final) = l
      BY <1>1, <1>2, <1>3, <1>8, LocAtFacts
    <2>2. a \in Inputs(scheduled[Final].step)
      BY <1>2
    <2>3. LocAt(a, Final) \in result.allocs
      BY <1>2, <2>2, InputFound
    <2>4. QED
      BY <2>1, <2>3
  <1>12. ASSUME IsInput(a) PROVE locs[l].input = a
    <2>1. PICK w : w = MostRecentWriter(a, Final)
      OBVIOUS
    <2>2. w = 0
      <3>1. w # 0 => w \in Steps /\ a \in Outputs(w)
        BY <1>1, <1>2, <2>1, WriterFacts
      <3>2. QED
        BY <1>1, <1>12, <3>1, InputsUnwritten
    <2>3. MostRecentWriter(a, Final) = 0 => IsFresh(scheduled, l, Final - 1) /\ locs[l].input = a
      BY <1>1, <1>2, <1>8, <1>9, HoldsValue
    <2>4. QED
      BY <2>1, <2>2, <2>3
  <1>13. QED
    BY <1>5, <1>6, <1>10, <1>11, <1>12

LEMMA KernelsOnce ==
    ASSUME AtEnd
    PROVE  /\ {ResultSteps[k].kernel : k \in DOMAIN ResultSteps} = 1..(Final - 1)
           /\ \A k, m \in DOMAIN ResultSteps : k # m => ResultSteps[k].kernel # ResultSteps[m].kernel
  <1>1. /\ Final \in Nat /\ Final > 1 /\ \A k : k \in DOMAIN ResultSteps <=> k \in 1..(Final - 1)
        /\ \A k \in 1..(Final - 1) : /\ ResultSteps[k].kernel = scheduled[k].step /\ k \in DOMAIN scheduled
                                     /\ k # Final /\ k \in 1..Final
        /\ \A k \in 1..Final : scheduled[k].step \in 1..Final /\ k \in DOMAIN scheduled
    <2>1. /\ Final \in Nat /\ Final > 1 /\ \A k : k \in DOMAIN ResultSteps <=> k \in 1..(Final - 1)
          /\ \A k \in 1..(Final - 1) : ResultSteps[k].kernel = scheduled[k].step /\ k \in DOMAIN scheduled
          /\ \A k \in 1..Final : scheduled[k].step \in Steps /\ k \in DOMAIN scheduled
      BY ResultFacts
    <2>2. \A k \in 1..(Final - 1) : k # Final /\ k \in 1..Final
      BY <2>1
    <2>3. QED
      BY <2>1, <2>2 DEF Steps
  <1>2. /\ scheduled[Final].step = Final
        /\ \A p \in 1..Final : \E i \in 1..Final : scheduled[i].step = p
        /\ \A i, j \in DOMAIN scheduled : scheduled[i].step = scheduled[j].step => i = j
    <2>1. IsSchedule(scheduled, locs) /\ IsWhole(scheduled)
      BY DEF AtEnd
    <2>2. ASSUME NEW i \in DOMAIN scheduled, NEW j \in DOMAIN scheduled, scheduled[i].step = scheduled[j].step
          PROVE  i = j
      BY <2>1, <2>2, ScheduleFacts
    <2>3. scheduled[Final].step = Final /\ \A p \in 1..Final : \E i \in 1..Final : scheduled[i].step = p
      BY <2>1 DEF IsWhole, Steps
    <2>4. QED
      BY <2>2, <2>3
  <1>3. Final \in 1..Final
    BY <1>1
  <1>4. ASSUME NEW k \in DOMAIN ResultSteps PROVE ResultSteps[k].kernel \in 1..(Final - 1)
    <2>1. k \in 1..(Final - 1)
      BY <1>1
    <2>2. scheduled[k].step # Final
      BY <1>1, <1>2, <1>3, <2>1
    <2>3. scheduled[k].step \in 1..Final
      BY <1>1, <2>1
    <2>4. ResultSteps[k].kernel = scheduled[k].step
      BY <1>1, <2>1
    <2>5. QED
      BY <1>1, <2>2, <2>3, <2>4
  <1>5. ASSUME NEW p \in 1..(Final - 1) PROVE \E k \in DOMAIN ResultSteps : ResultSteps[k].kernel = p
    <2>1. p \in 1..Final /\ p # Final
      BY <1>1
    <2>2. PICK i \in 1..Final : scheduled[i].step = p
      BY <1>2, <2>1
    <2>3. i # Final
      BY <1>2, <2>1, <2>2
    <2>4. i \in 1..(Final - 1)
      BY <1>1, <2>2, <2>3
    <2>5. i \in DOMAIN ResultSteps /\ ResultSteps[i].kernel = p
      BY <1>1, <2>2, <2>4
    <2>6. QED
      BY <2>5
  <1>6. {ResultSteps[k].kernel : k \in DOMAIN ResultSteps} = 1..(Final - 1)
    BY <1>4, <1>5
  <1>7. \A k, m \in DOMAIN ResultSteps : k # m => ResultSteps[k].kernel # ResultSteps[m].kernel
    BY <1>1, <1>2
  <1>8. QED
    BY <1>6, <1>7

\* One step of the result finds what the program has there.
LEMMA StepComputes ==
    ASSUME AtEnd, NEW k \in 1..(Final - 1), NEW st, st = ResultSteps[k], NEW mem, mem = MemoryBefore(k)
    PROVE  /\ \A a \in DOMAIN st.inputs : mem[st.inputs[a]] = ValueFor(a, st.kernel)
           /\ \A l \in ToSet(st.outputs) :
                 MostRecentWriter(Written(st, l), st.kernel) # 0 => mem[l] = ValueFor(Written(st, l), st.kernel)
  <1>1. /\ k \in 1..Final /\ k - 1 \in 0..Len(scheduled) /\ k \in DOMAIN scheduled
        /\ st.kernel = scheduled[k].step /\ st.outputs = scheduled[k].outputs
        /\ st.inputs = [a \in Inputs(scheduled[k].step) |-> LocAt(a, k)]
        /\ scheduled[k].step \in Steps
    BY ResultFacts
  <1>2. IsSchedule(scheduled, locs) /\ AreInputsApart(locs)
    BY DEF AtEnd
  <1>3. mem = [l \in result.allocs |-> Content(scheduled, locs, l, k - 1)]
    BY <1>1, MemoryIs DEF MemoryAfter
  <1>4. PICK q \in Steps : q = scheduled[k].step
    BY <1>1
  <1>5. ASSUME NEW a \in DOMAIN st.inputs PROVE mem[st.inputs[a]] = ValueFor(a, st.kernel)
    <2>1. a \in Inputs(scheduled[k].step) /\ st.inputs[a] = LocAt(a, k)
      BY <1>1
    <2>2. PICK l : l = LocAt(a, k)
      OBVIOUS
    <2>3. l \in result.allocs /\ Holds(scheduled, locs, a, l, k - 1)
      BY <1>1, <2>1, <2>2, InputFound
    <2>4. HasWriters(scheduled, a, q, k - 1)
      BY <1>1, <1>2, <1>4, <2>1, ReadHasWriters
    <2>5. Content(scheduled, locs, l, k - 1) = ValueFor(a, q)
      BY <1>1, <1>2, <2>3, <2>4, ContentHeld
    <2>6. QED
      BY <1>1, <1>3, <1>4, <2>1, <2>2, <2>3, <2>5
  <1>6. ASSUME NEW l \in ToSet(st.outputs), MostRecentWriter(Written(st, l), st.kernel) # 0
        PROVE  mem[l] = ValueFor(Written(st, l), st.kernel)
    <2>1. l \in ToSet(scheduled[k].outputs)
      BY <1>1
    <2>2. PICK a : a = Written(ResultSteps[k], l)
      OBVIOUS
    <2>3. l \in result.allocs /\ Puts(scheduled[k], a, l)
      BY <2>1, <2>2, OutputWritten
    <2>4. MostRecentWriter(a, scheduled[k].step) # 0
      BY <1>1, <1>6, <2>2
    <2>5. Content(scheduled, locs, l, k - 1) = ValueFor(a, scheduled[k].step)
      BY <1>1, <1>2, <2>3, <2>4, ContentWritten
    <2>6. QED
      BY <1>1, <1>3, <2>2, <2>3, <2>5
  <1>7. QED
    BY <1>5, <1>6

LEMMA EndComputes ==
    ASSUME ScheduleInv, pending = {}, AtEnd
    PROVE  ComputesProgram
  <1>1. /\ IsProgram /\ Final \in Nat /\ Final > 1 /\ Final \in 1..Final /\ Len(ResultSteps) = Final - 1
        /\ \A k : k \in DOMAIN ResultSteps <=> k \in 1..(Final - 1)
        /\ result.allocs = {l \in DOMAIN locs : locs[l].contents # NoAlloc}
    BY ResultFacts
  <1>2. {ResultSteps[k].kernel : k \in DOMAIN ResultSteps} = 1..(Final - 1)
    BY KernelsOnce
  <1>3. ASSUME NEW k \in DOMAIN ResultSteps
        PROVE  LET st == ResultSteps[k]
                   mem == MemoryBefore(k)
               IN /\ \A a \in DOMAIN st.inputs : mem[st.inputs[a]] = ValueFor(a, st.kernel)
                  /\ \A l \in ToSet(st.outputs) :
                       LET a == Written(st, l)
                       IN MostRecentWriter(a, st.kernel) # 0 => mem[l] = ValueFor(a, st.kernel)
    <2>1. k \in 1..(Final - 1)
      BY <1>1
    <2>2. QED
      BY <2>1, StepComputes
  <1>4. PICK mem : mem = MemoryBefore(Final)
    OBVIOUS
  <1>5. mem = [l \in result.allocs |-> Content(scheduled, locs, l, Final - 1)]
    BY <1>1, <1>4, MemoryIs DEF MemoryAfter
  <1>6. ASSUME NEW a \in DOMAIN result.output PROVE mem[result.output[a]] = ValueFor(a, Final)
    <2>1. result.output = [b \in {c \in Allocs : IsOutput(c)} |-> value_locs[b]]
      BY DEF AtEnd, Returns
    <2>2. a \in Allocs /\ IsOutput(a) /\ result.output[a] = value_locs[a]
      BY <2>1
    <2>3. a \in Inputs(Final)
      BY <2>2 DEF Inputs, StepOf, IsOutput, IsTmp
    <2>4. /\ value_locs[a] \in result.allocs
          /\ Content(scheduled, locs, value_locs[a], Final - 1) = ValueFor(a, Final)
      BY <2>3, SurvivorHeld
    <2>5. QED
      BY <1>5, <2>2, <2>4
  <1>7. ASSUME NEW l \in result.allocs, locs[l].input \in Inputs(Final)
        PROVE  mem[l] = ValueFor(locs[l].input, Final)
    <2>1. PICK a : a = locs[l].input
      OBVIOUS
    <2>2. l \in DOMAIN locs /\ a \in Inputs(Final) /\ Final \in Steps /\ AreInputsApart(locs)
      BY <1>1, <1>7, <2>1 DEF AtEnd, Steps
    <2>3. a \in Allocs /\ a # NoAlloc
      BY <1>1, <2>2, ProgramTypes DEF IsProgram
    <2>4. IsInput(a)
      BY <2>1, <2>2, <2>3 DEF AreInputsApart
    <2>5. /\ value_locs[a] \in result.allocs /\ locs[value_locs[a]].input = a
          /\ Content(scheduled, locs, value_locs[a], Final - 1) = ValueFor(a, Final)
      BY <2>2, <2>4, SurvivorHeld
    <2>6. value_locs[a] = l
      BY <1>1, <2>1, <2>2, <2>3, <2>5 DEF AreInputsApart
    <2>7. QED
      BY <1>5, <1>7, <2>1, <2>5, <2>6
  <1>8. QED
    BY <1>1, <1>2, <1>3, <1>4, <1>6, <1>7 DEF ComputesProgram

-----------------------------------------------------------------------------
(* ValidateSchedule on the result *)

\* A step of the result waits for those that it conflicts with.
LEMMA OrderFacts ==
    ASSUME Len(ResultSteps) \in Nat
    PROVE  \A j \in 1..Len(ResultSteps) : ResultConflicts(j) \subseteq ResultOrder[j]
  <1> DEFINE n == Len(ResultSteps)
             D == Seq(SUBSET Nat)
             Waits(x, j) == ResultConflicts(j) \cup UNION {x[i] : i \in ResultConflicts(j)}
             Next(x, j) == Append(x, Waits(x, j))
             Is(f) == f = [j \in 0..n |-> IF j = 0 THEN <<>> ELSE Next(f[j - 1], j)]
             F == [x \in (1..n) \X D |-> IF Len(x[2]) = x[1] - 1 THEN Next(x[2], x[1]) ELSE x[2]]
  <1>1. n \in Nat /\ <<>> \in D
    OBVIOUS
  <1>2. \A j \in 1..n : ResultConflicts(j) \subseteq 1..(j - 1)
    BY DEF ResultConflicts
  <1> HIDE DEF n
  <1>3. ASSUME NEW x \in D, NEW j \in 1..n, Len(x) = j - 1
        PROVE  Next(x, j) \in D
    <2>1. \A i \in ResultConflicts(j) : x[i] \in SUBSET Nat
      <3>1. \A i \in 1..(j - 1) : i \in 1..Len(x)
        BY <1>3
      <3>2. QED
        BY <1>2, <1>3, <3>1
    <2>2. ResultConflicts(j) \subseteq Nat
      BY <1>1, <1>2
    <2>3. Waits(x, j) \in SUBSET Nat
      BY <2>1, <2>2
    <2> HIDE DEF Waits
    <2>4. QED
      BY <2>3
  <1>4. F \in StepsIn(n, D)
    <2> SUFFICES ASSUME NEW x \in (1..n) \X D
                 PROVE  (IF Len(x[2]) = x[1] - 1 THEN Next(x[2], x[1]) ELSE x[2]) \in D
      BY DEF StepsIn
    <2> HIDE DEF Next, D
    <2>1. x[1] \in 1..n /\ x[2] \in D
      OBVIOUS
    <2>2. QED
      BY <1>3, <2>1
  <1> HIDE DEF D, Waits, Next
  <1>5. PICK f : IsRun(f, n, D, <<>>, F)
    <2> HIDE DEF F
    <2>1. QED
      BY <1>1, <1>4, Repeated
  <1>6. f \in [0..n -> D] /\ f[0] = <<>>
    BY <1>5 DEF IsRun
  <1>7. ASSUME NEW j \in 1..n
        PROVE  f[j] = IF Len(f[j - 1]) = j - 1 THEN Next(f[j - 1], j) ELSE f[j - 1]
    <2>1. f[j - 1] \in D
      BY <1>1, <1>6
    <2>2. QED
      BY <1>5, <2>1 DEF IsRun
  <1> HIDE DEF F
  <1> DEFINE T == {j \in 0..n : Len(f[j]) = j}
  <1>8. 0..n \subseteq T
    <2>1. 0 \in T
      BY <1>1, <1>6
    <2>2. ASSUME NEW j \in 1..n, j - 1 \in T PROVE j \in T
      <3>1. PICK x \in D : x = f[j - 1] /\ Len(x) = j - 1
        BY <1>1, <1>6, <2>2
      <3>2. f[j] = Append(x, Waits(x, j))
        BY <1>7, <3>1 DEF Next
      <3>3. Len(Append(x, Waits(x, j))) = Len(x) + 1
        BY <3>1 DEF D
      <3>4. Len(f[j]) = j
        BY <3>1, <3>2, <3>3
      <3>5. QED
        BY <1>1, <3>4
    <2> HIDE DEF T
    <2>3. QED
      BY <1>1, <2>1, <2>2, UpTo
  <1>9. \A j \in 1..n : Len(f[j - 1]) = j - 1 /\ f[j] = Next(f[j - 1], j)
    <2>1. \A j \in 1..n : j - 1 \in 0..n
      BY <1>1
    <2>2. QED
      BY <1>7, <1>8, <2>1
  <1>10. Is(f)
    BY <1>1, <1>6, <1>9
  <1>11. Is(CHOOSE h : Is(h))
    <2> HIDE DEF Is
    <2>1. QED
      BY <1>10
  <1>12. ResultOrder = (CHOOSE h : Is(h))[n]
    BY DEF ResultOrder, n, Waits, Next
  <1>13. ASSUME NEW h, Is(h) PROVE h[0] = <<>> /\ \A j \in 1..n : h[j] = Next(h[j - 1], j)
    BY <1>1, <1>13
  <1>14. PICK h : /\ ResultOrder = h[n] /\ h[0] = <<>>
                  /\ \A j \in 1..n : h[j] = Next(h[j - 1], j)
    <2> HIDE DEF Is
    <2>1. QED
      BY <1>11, <1>12, <1>13
  <1> DEFINE U == {j \in 0..n : h[j] = f[j]}
  <1>15. 0..n \subseteq U
    <2>1. 0 \in U
      BY <1>1, <1>6, <1>14
    <2>2. ASSUME NEW j \in 1..n, j - 1 \in U PROVE j \in U
      <3>1. h[j - 1] = f[j - 1] /\ j \in 0..n
        BY <1>1, <2>2
      <3>2. h[j] = Next(h[j - 1], j) /\ f[j] = Next(f[j - 1], j)
        BY <1>9, <1>14
      <3>3. QED
        BY <3>1, <3>2
    <2> HIDE DEF U
    <2>3. QED
      BY <1>1, <2>1, <2>2, UpTo
  <1>16. ASSUME NEW j \in 1..n PROVE ResultConflicts(j) \subseteq ResultOrder[j]
    <2> DEFINE m == n - j
               V == {k \in 0..m : f[j + k][j] = Waits(f[j - 1], j)}
    <2>1. m \in Nat /\ j \in Nat
      BY <1>1
    <2>2. 0 \in V
      <3>1. PICK x \in D : x = f[j - 1] /\ Len(x) = j - 1
        <4>1. j - 1 \in 0..n
          BY <1>1
        <4>2. QED
          BY <1>6, <1>9, <4>1
      <3>2. Append(x, Waits(x, j))[j] = Waits(x, j)
        BY <2>1, <3>1 DEF D
      <3>3. f[j] = Append(x, Waits(x, j))
        BY <1>9, <3>1 DEF Next
      <3>4. j + 0 = j /\ 0 \in 0..m
        BY <2>1
      <3>5. QED
        BY <3>1, <3>2, <3>3, <3>4
    <2>3. ASSUME NEW k \in 1..m, k - 1 \in V PROVE k \in V
      <3>1. PICK i : i = j + k
        OBVIOUS
      <3>2. i \in 1..n /\ i - 1 = j + (k - 1) /\ j \in 1..(i - 1) /\ i - 1 \in 0..n
        BY <1>1, <2>1, <3>1
      <3>3. PICK x \in D : x = f[i - 1] /\ Len(x) = i - 1
        BY <1>6, <1>9, <3>2
      <3>4. f[i] = Append(x, Waits(x, i))
        BY <1>9, <3>2, <3>3 DEF Next
      <3>5. Append(x, Waits(x, i))[j] = x[j]
        BY <3>2, <3>3 DEF D
      <3>6. x[j] = Waits(f[j - 1], j)
        BY <2>3, <3>2, <3>3
      <3>7. f[i][j] = Waits(f[j - 1], j)
        BY <3>4, <3>5, <3>6
      <3>8. f[j + k][j] = Waits(f[j - 1], j)
        BY <3>1, <3>7
      <3>9. k \in 0..m
        BY <2>1
      <3> HIDE DEF m
      <3>10. QED
        BY <3>8, <3>9
    <2>4. 0..m \subseteq V
      <3> HIDE DEF V
      <3>1. QED
        BY <2>1, <2>2, <2>3, UpTo
    <2>5. m \in V /\ j + m = n
      <3>1. m \in 0..m /\ j + m = n
        BY <1>1, <2>1
      <3> HIDE DEF m, V
      <3>2. QED
        BY <2>4, <3>1
    <2>6. f[n][j] = Waits(f[j - 1], j)
      <3>1. f[j + m][j] = Waits(f[j - 1], j)
        BY <2>5
      <3> HIDE DEF m
      <3>2. QED
        BY <2>5, <3>1
    <2>7. ResultOrder = f[n]
      BY <1>1, <1>14, <1>15
    <2>8. QED
      BY <2>6, <2>7 DEF Waits
  <1>17. QED
    BY <1>16 DEF n

\* What ValidateSchedule knows after k steps: who has used a loc since it was written last.
UsedSince(l, k) ==
    {j \in 1..k : /\ l \in Uses(ResultSteps[j]) \cup ToSet(ResultSteps[j].outputs)
                  /\ \A i \in (j + 1)..k : l \notin ToSet(ResultSteps[i].outputs)}
InfoOf(l, k) ==
    [contents |-> Content(scheduled, locs, l, k).alloc,
     writer |-> IF IsFresh(scheduled, l, k) THEN 0 ELSE LastOf(scheduled, l, k),
     accessors |-> UsedSince(l, k)]
InfoAfter(k) == [l \in result.allocs |-> InfoOf(l, k)]

LEMMA PositionFacts ==
    ASSUME AtEnd, NEW k \in 1..(Final - 1)
    PROVE  /\ IsSchedule(scheduled, locs) /\ AreInputsApart(locs) /\ IsProgram
           /\ k \in DOMAIN scheduled /\ ResultSteps[k].outputs = scheduled[k].outputs
           /\ k \in Nat /\ k > 0 /\ k \in 1..Final /\ k - 1 \in Nat /\ k - 1 \in 0..Len(scheduled)
           /\ Final \in Nat /\ Len(ResultSteps) \in Nat /\ k \in 1..Len(ResultSteps)
           /\ \A i \in 1..(k - 1) : i \in 1..(Final - 1) /\ ResultSteps[i].outputs = scheduled[i].outputs
           /\ ResultConflicts(k) \subseteq ResultOrder[k]
  <1>1. /\ IsProgram /\ Final \in Nat /\ Final > 1 /\ Len(scheduled) = Final /\ Len(ResultSteps) = Final - 1
        /\ k \in DOMAIN scheduled
        /\ \A i \in 1..(Final - 1) : ResultSteps[i].outputs = scheduled[i].outputs
    BY ResultFacts
  <1>2. /\ k \in Nat /\ k > 0 /\ k \in 1..Final /\ k - 1 \in Nat /\ k - 1 \in 0..Len(scheduled)
        /\ Len(ResultSteps) \in Nat /\ k \in 1..Len(ResultSteps)
    BY <1>1
  <1>3. \A i \in 1..(k - 1) : i \in 1..(Final - 1)
    BY <1>1
  <1>4. ResultConflicts(k) \subseteq ResultOrder[k]
    BY <1>2, OrderFacts
  <1>5. QED
    BY <1>1, <1>2, <1>3, <1>4 DEF AtEnd

LEMMA UsedFacts ==
    ASSUME NEW k \in Nat, k > 0, NEW l
    PROVE  /\ l \in ToSet(ResultSteps[k].outputs) =>
                 UsedSince(l, k) = {k} /\ UsedSince(l, k - 1) \subseteq ResultConflicts(k)
           /\ l \notin ToSet(ResultSteps[k].outputs) =>
                 UsedSince(l, k) = UsedSince(l, k - 1) \cup (IF l \in Uses(ResultSteps[k]) THEN {k} ELSE {})
  <1> DEFINE Writes(j) == l \in ToSet(ResultSteps[j].outputs)
             Used(j) == l \in Uses(ResultSteps[j])
  <1>1. \A n : UsedSince(l, n) = {j \in 1..n : (Used(j) \/ Writes(j)) /\ \A i \in (j + 1)..n : ~Writes(i)}
    BY DEF UsedSince
  <1>2. \A j \in 1..k : j \in 1..(k - 1) \/ j = k
    OBVIOUS
  <1>3. \A j \in 1..(k - 1) : j \in 1..k /\ j # k /\ k \in (j + 1)..k
    OBVIOUS
  <1>4. CASE Writes(k)
    <2> HIDE DEF Used
    <2>1. ASSUME NEW j \in UsedSince(l, k) PROVE j = k
      <3>1. j \in 1..k /\ \A i \in (j + 1)..k : ~Writes(i)
        BY <1>1
      <3> HIDE DEF Writes
      <3>2. QED
        BY <1>2, <1>3, <1>4, <3>1
    <2>2. k \in UsedSince(l, k)
      <3>1. k \in 1..k /\ \A i \in (k + 1)..k : ~Writes(i)
        OBVIOUS
      <3> HIDE DEF Writes
      <3>2. QED
        BY <1>1, <1>4, <3>1
    <2>3. UsedSince(l, k - 1) \subseteq ResultConflicts(k)
      <3>1. ASSUME NEW j \in UsedSince(l, k - 1) PROVE j \in ResultConflicts(k)
        <4>1. j \in 1..(k - 1) /\ l \in Uses(ResultSteps[j]) \cup ToSet(ResultSteps[j].outputs)
          BY DEF UsedSince
        <4>2. l \in ToSet(ResultSteps[k].outputs)
          BY <1>4
        <4>3. \/ ToSet(ResultSteps[j].outputs) \cap (Uses(ResultSteps[k]) \cup ToSet(ResultSteps[k].outputs)) # {}
              \/ Uses(ResultSteps[j]) \cap ToSet(ResultSteps[k].outputs) # {}
          BY <4>1, <4>2
        <4>4. QED
          BY <4>1, <4>3 DEF ResultConflicts
      <3>2. QED
        BY <3>1
    <2>4. QED
      BY <1>4, <2>1, <2>2, <2>3
  <1>5. CASE ~Writes(k)
    <2>1. \A j \in 1..(k - 1) : (\A i \in (j + 1)..k : ~Writes(i)) <=> (\A i \in (j + 1)..(k - 1) : ~Writes(i))
      <3> HIDE DEF Writes
      <3>1. \A j \in 1..(k - 1) : \A i \in (j + 1)..k : i \in (j + 1)..(k - 1) \/ i = k
        OBVIOUS
      <3>2. \A j \in 1..(k - 1) : \A i \in (j + 1)..(k - 1) : i \in (j + 1)..k
        OBVIOUS
      <3>3. QED
        BY <1>5, <3>1, <3>2
    <2>2. \A i \in (k + 1)..k : FALSE
      OBVIOUS
    <2> HIDE DEF Writes
    <2>3. \A j \in 1..(k - 1) : j \in UsedSince(l, k) <=> j \in UsedSince(l, k - 1)
      BY <1>1, <1>3, <2>1
    <2>4. k \in UsedSince(l, k) <=> Used(k)
      <3>1. k \in 1..k
        OBVIOUS
      <3>2. QED
        BY <1>1, <1>5, <2>2, <3>1
    <2>5. \A n : UsedSince(l, n) \subseteq 1..n
      BY DEF UsedSince
    <2>6. k \notin UsedSince(l, k - 1) /\ UsedSince(l, k - 1) \subseteq 1..(k - 1) /\ UsedSince(l, k) \subseteq 1..k
      BY <1>3, <2>5
    <2>7. UsedSince(l, k) = UsedSince(l, k - 1) \cup (IF Used(k) THEN {k} ELSE {})
      <3> HIDE DEF Used
      <3>1. QED
        BY <1>2, <2>3, <2>4, <2>6
    <2>8. QED
      BY <1>5, <2>7 DEF Writes
  <1>6. QED
    BY <1>4, <1>5

\* What a step makes of what is known.
ReadInfo(l, k) ==
    IF l \in Uses(ResultSteps[k]) THEN [InfoOf(l, k - 1) EXCEPT !.accessors = @ \cup {k}] ELSE InfoOf(l, k - 1)

LEMMA InfoStep ==
    ASSUME AtEnd, NEW k \in 1..(Final - 1), NEW l \in result.allocs
    PROVE  InfoOf(l, k) = IF l \in ToSet(ResultSteps[k].outputs)
                          THEN [contents |-> Written(ResultSteps[k], l), writer |-> k, accessors |-> {k}]
                          ELSE ReadInfo(l, k)
  <1>1. /\ k \in DOMAIN scheduled /\ ResultSteps[k].outputs = scheduled[k].outputs
        /\ IsSchedule(scheduled, locs) /\ AreInputsApart(locs) /\ k \in Nat /\ k > 0
    BY PositionFacts
  <1>2. CASE l \in ToSet(ResultSteps[k].outputs)
    <2>1. PICK a : a = Written(ResultSteps[k], l)
      OBVIOUS
    <2>2. Puts(scheduled[k], a, l)
      BY <1>1, <1>2, <2>1, OutputWritten
    <2>3. ~IsFresh(scheduled, l, k) /\ LastOf(scheduled, l, k) = k
      BY <1>1, <2>2, ContentWritten
    <2>4. Content(scheduled, locs, l, k).alloc = a
      <3>1. Content(scheduled, locs, l, k)
                = [alloc |-> a,
                   by |-> IF Content(scheduled, locs, l, k - 1).alloc = a
                          THEN Append(Content(scheduled, locs, l, k - 1).by, scheduled[k].step)
                          ELSE <<scheduled[k].step>>]
        BY <1>1, <2>2, ContentWritten
      <3>2. QED
        BY <3>1
    <2>5. UsedSince(l, k) = {k}
      BY <1>1, <1>2, UsedFacts
    <2>6. QED
      BY <1>2, <2>1, <2>3, <2>4, <2>5 DEF InfoOf
  <1>3. CASE l \notin ToSet(ResultSteps[k].outputs)
    <2>1. /\ IsFresh(scheduled, l, k) = IsFresh(scheduled, l, k - 1)
          /\ ~IsFresh(scheduled, l, k) => LastOf(scheduled, l, k) = LastOf(scheduled, l, k - 1)
          /\ Content(scheduled, locs, l, k) = Content(scheduled, locs, l, k - 1)
      BY <1>1, <1>3, ContentKept
    <2>2. UsedSince(l, k) = UsedSince(l, k - 1) \cup (IF l \in Uses(ResultSteps[k]) THEN {k} ELSE {})
      BY <1>1, <1>3, UsedFacts
    <2>3. PICK c, u, w, v :
             /\ c = Content(scheduled, locs, l, k - 1).alloc
             /\ u = UsedSince(l, k - 1) /\ v = UsedSince(l, k)
             /\ w = IF IsFresh(scheduled, l, k - 1) THEN 0 ELSE LastOf(scheduled, l, k - 1)
      OBVIOUS
    <2>4. InfoOf(l, k - 1) = [contents |-> c, writer |-> w, accessors |-> u]
      BY <2>3 DEF InfoOf
    <2>5. InfoOf(l, k) = [contents |-> c, writer |-> w, accessors |-> v]
      BY <2>1, <2>3 DEF InfoOf
    <2>6. v = u \cup (IF l \in Uses(ResultSteps[k]) THEN {k} ELSE {})
      BY <2>2, <2>3
    <2>7. ReadInfo(l, k) = [contents |-> c, writer |-> w, accessors |-> v]
      BY <2>4, <2>6 DEF ReadInfo
    <2>8. QED
      BY <1>3, <2>5, <2>7
  <1>4. QED
    BY <1>2, <1>3

\* ValidateSchedule accepts what a step reads.
LEMMA ReadsValid ==
    ASSUME AtEnd, NEW k \in 1..(Final - 1), NEW a \in DOMAIN ResultSteps[k].inputs, NEW l, l = ResultSteps[k].inputs[a]
    PROVE  /\ l \in result.allocs /\ InfoOf(l, k - 1).contents = a
           /\ locs[l].input # NoAlloc \/ InfoOf(l, k - 1).writer \in ResultOrder[k]
  <1>1. /\ IsSchedule(scheduled, locs) /\ AreInputsApart(locs) /\ IsProgram
        /\ k \in DOMAIN scheduled /\ k \in Nat /\ k > 0 /\ k \in 1..Final
        /\ k - 1 \in Nat /\ k - 1 \in 0..Len(scheduled)
        /\ \A i \in 1..(k - 1) : i \in 1..(Final - 1) /\ ResultSteps[i].outputs = scheduled[i].outputs
        /\ ResultConflicts(k) \subseteq ResultOrder[k]
    BY PositionFacts
  <1>2. a \in Inputs(scheduled[k].step) /\ l = LocAt(a, k)
    <2>1. ResultSteps[k].inputs = [b \in Inputs(scheduled[k].step) |-> LocAt(b, k)]
      BY ResultFacts
    <2>2. QED
      BY <2>1
  <1>3. l \in result.allocs /\ Holds(scheduled, locs, a, l, k - 1)
    BY <1>1, <1>2, InputFound
  <1>4. PICK q \in Steps : q = scheduled[k].step
    BY <1>1, ScheduleFacts
  <1>5. a \in Allocs /\ a # NoAlloc
    BY <1>1, <1>2, <1>4, ProgramTypes DEF IsProgram
  <1>6. HasWriters(scheduled, a, q, k - 1)
    BY <1>1, <1>2, <1>4, ReadHasWriters
  <1>7. Content(scheduled, locs, l, k - 1) = ValueFor(a, q)
    BY <1>1, <1>3, <1>6, ContentHeld
  <1>8. InfoOf(l, k - 1).contents = a
    <2>1. Content(scheduled, locs, l, k - 1).alloc = a
      BY <1>7 DEF ValueFor
    <2>2. QED
      BY <2>1 DEF InfoOf
  <1>9. CASE IsFresh(scheduled, l, k - 1)
    <2>1. locs[l].input = a
      BY <1>3, <1>9 DEF Holds, IsFresh
    <2>2. QED
      BY <1>3, <1>5, <1>8, <2>1
  <1>10. CASE ~IsFresh(scheduled, l, k - 1)
    <2>1. PICK i : i = LastOf(scheduled, l, k - 1)
      OBVIOUS
    <2>2. IsLast(scheduled, l, k - 1, i)
      <3>1. \E j : IsLast(scheduled, l, k - 1, j)
        BY <1>1, <1>10, LastExists
      <3>2. QED
        BY <2>1, <3>1 DEF LastOf
    <2>3. i \in 1..(k - 1) /\ l \in ToSet(scheduled[i].outputs)
      BY <2>2 DEF IsLast
    <2>4. InfoOf(l, k - 1).writer = i
      BY <1>10, <2>1 DEF InfoOf
    <2>5. l \in ToSet(ResultSteps[i].outputs)
      BY <1>1, <2>3
    <2>6. l \in Uses(ResultSteps[k])
      BY DEF Uses
    <2>7. i \in ResultConflicts(k)
      BY <2>3, <2>5, <2>6 DEF ResultConflicts
    <2>8. QED
      BY <1>1, <1>3, <1>8, <2>4, <2>7
  <1>11. QED
    BY <1>9, <1>10

\* ... and what it writes.
LEMMA WritesValid ==
    ASSUME AtEnd, NEW k \in 1..(Final - 1), NEW l \in ToSet(ResultSteps[k].outputs)
    PROVE  /\ locs[l].input # NoAlloc => program.role[locs[l].input] = "consumed"
           /\ l \in result.allocs /\ ReadInfo(l, k).accessors \subseteq ResultOrder[k] \cup {k}
           /\ Size(Written(ResultSteps[k], l)) <= locs[l].byte_size
  <1>1. /\ IsSchedule(scheduled, locs) /\ AreInputsApart(locs) /\ IsProgram
        /\ k \in DOMAIN scheduled /\ ResultSteps[k].outputs = scheduled[k].outputs /\ k \in Nat /\ k > 0
        /\ ResultConflicts(k) \subseteq ResultOrder[k]
    BY PositionFacts
  <1>2. IsSafe(scheduled[k], locs)
    BY <1>1, ScheduleFacts
  <1>3. PICK a : a = Written(ResultSteps[k], l)
    OBVIOUS
  <1>4. /\ l \in result.allocs /\ l \in DOMAIN locs /\ Puts(scheduled[k], a, l) /\ a \in Outputs(scheduled[k].step)
        /\ l \in ToSet(scheduled[k].outputs)
    BY <1>1, <1>3, OutputWritten
  <1>5. Size(a) <= locs[l].byte_size
    BY <1>2, <1>4 DEF IsSafe
  <1>6. ASSUME locs[l].input # NoAlloc PROVE program.role[locs[l].input] = "consumed"
    <2>1. PICK b : b = locs[l].input
      OBVIOUS
    <2>2. b \in Allocs /\ IsInput(b) /\ b \notin Inputs(Final)
      BY <1>1, <1>2, <1>4, <1>6, <2>1 DEF IsSafe, AreInputsApart
    <2>3. program.role[b] \in {"input", "consumed"}
      BY <2>2 DEF IsInput
    <2>4. Inputs(Final) = {c \in Allocs : ~IsTmp(c) /\ program.role[c] # "consumed"}
      BY DEF Inputs, StepOf
    <2>5. IsTmp(b) \/ program.role[b] = "consumed"
      BY <2>2, <2>4
    <2>6. QED
      BY <2>1, <2>3, <2>5 DEF IsTmp
  <1>7. ReadInfo(l, k).accessors \subseteq UsedSince(l, k - 1) \cup {k}
    BY DEF ReadInfo, InfoOf
  <1>8. UsedSince(l, k - 1) \subseteq ResultConflicts(k)
    BY <1>1, UsedFacts
  <1>9. QED
    BY <1>1, <1>3, <1>4, <1>5, <1>6, <1>7, <1>8

LEMMA ValidatesStep ==
    ASSUME AtEnd, NEW k \in 1..(Final - 1)
    PROVE  ValidateStep([info |-> InfoAfter(k - 1), ok |-> TRUE], k) = [info |-> InfoAfter(k), ok |-> TRUE]
  <1>1. PICK acc : acc = [info |-> InfoAfter(k - 1), ok |-> TRUE]
    OBVIOUS
  <1>2. PICK A : A = result.allocs
    OBVIOUS
  <1>3. acc.ok = TRUE /\ acc.info = [l \in A |-> InfoOf(l, k - 1)]
    BY <1>1, <1>2 DEF InfoAfter
  <1>4. PICK new : new = InfoAfter(k) /\ new = [l \in A |-> InfoOf(l, k)]
    BY <1>2 DEF InfoAfter
  <1> DEFINE st == ResultSteps[k]
             deps == ResultOrder[k]
             info == acc.info
             read == [l \in DOMAIN info |-> IF l \in Uses(st) THEN [info[l] EXCEPT !.accessors = @ \cup {k}] ELSE info[l]]
             Next(l) == IF l \in ToSet(st.outputs)
                        THEN [contents |-> Written(st, l), writer |-> k, accessors |-> {k}] ELSE read[l]
             Reads(a, l) == info[l].contents = a /\ (locs[l].input # NoAlloc \/ info[l].writer \in deps)
             Writes(l) == /\ locs[l].input # NoAlloc => program.role[locs[l].input] = "consumed"
                          /\ read[l].accessors \subseteq deps \cup {k}
                          /\ Size(Written(st, l)) <= locs[l].byte_size
             ok == /\ acc.ok
                   /\ \A a \in DOMAIN st.inputs : Reads(a, st.inputs[a])
                   /\ \A l \in ToSet(st.outputs) : Writes(l)
  <1>5. ValidateStep(acc, k) = [info |-> [l \in DOMAIN info |-> Next(l)], ok |-> ok]
    BY DEF ValidateStep
  <1>6. ASSUME NEW l \in A PROVE info[l] = InfoOf(l, k - 1) /\ read[l] = ReadInfo(l, k)
    BY <1>3 DEF ReadInfo
  <1>7. ASSUME NEW x PROVE x \in DOMAIN info <=> x \in A
    BY <1>3
  <1> HIDE DEF read, info
  <1>8. ASSUME NEW l \in A PROVE Next(l) = new[l]
    <2>1. new[l] = IF l \in ToSet(ResultSteps[k].outputs)
                   THEN [contents |-> Written(ResultSteps[k], l), writer |-> k, accessors |-> {k}]
                   ELSE ReadInfo(l, k)
      BY <1>2, <1>4, InfoStep
    <2>2. QED
      BY <1>6, <2>1
  <1>9. ASSUME NEW a \in DOMAIN st.inputs PROVE Reads(a, st.inputs[a])
    <2>1. PICK l : l = ResultSteps[k].inputs[a] /\ a \in DOMAIN ResultSteps[k].inputs
      OBVIOUS
    <2>2. /\ l \in result.allocs /\ InfoOf(l, k - 1).contents = a
          /\ locs[l].input # NoAlloc \/ InfoOf(l, k - 1).writer \in ResultOrder[k]
      BY <2>1, ReadsValid
    <2>3. info[l] = InfoOf(l, k - 1)
      BY <1>2, <1>6, <2>2
    <2>4. QED
      BY <2>1, <2>2, <2>3
  <1>10. ASSUME NEW l \in ToSet(st.outputs) PROVE Writes(l)
    <2>1. l \in ToSet(ResultSteps[k].outputs)
      OBVIOUS
    <2>2. /\ locs[l].input # NoAlloc => program.role[locs[l].input] = "consumed"
          /\ l \in result.allocs /\ ReadInfo(l, k).accessors \subseteq ResultOrder[k] \cup {k}
          /\ Size(Written(ResultSteps[k], l)) <= locs[l].byte_size
      BY <2>1, WritesValid
    <2>3. read[l] = ReadInfo(l, k)
      BY <1>2, <1>6, <2>2
    <2>4. QED
      BY <2>2, <2>3
  <1> HIDE DEF Reads, Writes, st
  <1>11. ok = TRUE
    BY <1>3, <1>9, <1>10
  <1> HIDE DEF Next, ok
  <1>12. [l \in DOMAIN info |-> Next(l)] = new
    <2>1. DOMAIN info = A
      BY <1>7
    <2>2. [l \in A |-> Next(l)] = new
      BY <1>4, <1>8
    <2>3. QED
      BY <2>1, <2>2
  <1>13. QED
    BY <1>1, <1>4, <1>5, <1>11, <1>12

LEMMA ValidatedIs ==
    ASSUME AtEnd
    PROVE  Validated = [info |-> InfoAfter(Final - 1), ok |-> TRUE]
  <1> DEFINE n == Len(ResultSteps)
             Start == [l \in result.allocs |-> [contents |-> locs[l].input, writer |-> 0, accessors |-> {}]]
             First == [info |-> Start, ok |-> TRUE]
             Is(f) == f = [k \in 0..n |-> IF k = 0 THEN First ELSE ValidateStep(f[k - 1], k)]
             After(k) == [info |-> InfoAfter(k), ok |-> TRUE]
             g == [k \in 0..n |-> After(k)]
  <1>1. n \in Nat /\ n = Final - 1
    BY ResultFacts
  <1>2. Validated = (CHOOSE f : Is(f))[n]
    BY DEF Validated
  <1>3. InfoAfter(0) = Start
    <2>1. ASSUME NEW l PROVE InfoOf(l, 0) = [contents |-> locs[l].input, writer |-> 0, accessors |-> {}]
      <3>1. IsFresh(scheduled, l, 0) /\ UsedSince(l, 0) = {}
        BY DEF IsFresh, UsedSince
      <3>2. Content(scheduled, locs, l, 0) = [alloc |-> locs[l].input, by |-> <<>>]
        BY <3>1 DEF Content
      <3>3. PICK c : c = Content(scheduled, locs, l, 0) /\ c.alloc = locs[l].input
        BY <3>2
      <3>4. QED
        BY <3>1, <3>3 DEF InfoOf
    <2>2. QED
      BY <2>1 DEF InfoAfter
  <1> HIDE DEF n, Start
  <1>4. ASSUME NEW k \in 1..n PROVE ValidateStep(After(k - 1), k) = After(k)
    BY <1>1, ValidatesStep
  <1>5. After(0) = First
    BY <1>3
  <1> HIDE DEF After, First
  <1>6. Is(g)
    <2>1. ASSUME NEW k \in 0..n, k # 0 PROVE ValidateStep(g[k - 1], k) = After(k)
      <3>1. k \in 1..n /\ k - 1 \in 0..n
        BY <1>1, <2>1
      <3>2. g[k - 1] = After(k - 1)
        BY <3>1
      <3> HIDE DEF g
      <3>3. QED
        BY <1>4, <3>1, <3>2
    <2>2. \A k \in 0..n : After(k) = IF k = 0 THEN First ELSE ValidateStep(g[k - 1], k)
      <3> HIDE DEF g
      <3>1. QED
        BY <1>5, <2>1
    <2>3. [k \in 0..n |-> After(k)] = [k \in 0..n |-> IF k = 0 THEN First ELSE ValidateStep(g[k - 1], k)]
      <3> HIDE DEF g
      <3>1. QED
        BY <2>2
    <2>4. QED
      BY <2>3
  <1>7. PICK f : Is(f) /\ f = CHOOSE h : Is(h)
    <2> HIDE DEF Is, g
    <2>1. QED
      BY <1>6
  <1>8. f[0] = First /\ \A k \in 1..n : f[k] = ValidateStep(f[k - 1], k)
    BY <1>1, <1>7
  <1> HIDE DEF Is
  <1> DEFINE T == {k \in 0..n : f[k] = After(k)}
  <1>9. 0 \in T
    BY <1>1, <1>5, <1>8
  <1>10. ASSUME NEW k \in 1..n, k - 1 \in T PROVE k \in T
    <2>1. f[k] = ValidateStep(After(k - 1), k)
      BY <1>8, <1>10
    <2>2. QED
      BY <1>1, <1>4, <2>1
  <1>11. 0..n \subseteq T
    <2> HIDE DEF T
    <2>1. QED
      BY <1>1, <1>9, <1>10, UpTo
  <1>12. f[n] = After(n)
    BY <1>1, <1>11
  <1>13. QED
    BY <1>1, <1>2, <1>7, <1>12 DEF After

LEMMA EndValidates ==
    ASSUME ScheduleInv, pending = {}, AtEnd
    PROVE  ResultValidates
  <1>1. IsProgram /\ Final \in Nat /\ Len(ResultSteps) = Final - 1
    BY ResultFacts
  <1>2. PICK end : end = Validated
    OBVIOUS
  <1>3. end.info = [l \in result.allocs |-> InfoOf(l, Final - 1)] /\ end.ok
    BY <1>2, ValidatedIs DEF InfoAfter
  <1>4. ASSUME NEW a \in DOMAIN result.output PROVE end.info[result.output[a]].contents = a
    <2>1. result.output = [b \in {c \in Allocs : IsOutput(c)} |-> value_locs[b]]
      BY DEF AtEnd, Returns
    <2>2. a \in Allocs /\ IsOutput(a) /\ result.output[a] = value_locs[a]
      BY <2>1
    <2>3. a \in Inputs(Final)
      BY <2>2 DEF Inputs, StepOf, IsOutput, IsTmp
    <2>4. PICK l : l = value_locs[a]
      OBVIOUS
    <2>5. l \in result.allocs /\ Content(scheduled, locs, l, Final - 1) = ValueFor(a, Final)
      BY <2>3, <2>4, SurvivorHeld
    <2>6. InfoOf(l, Final - 1).contents = a
      BY <2>5 DEF InfoOf, ValueFor
    <2>7. QED
      BY <1>3, <2>2, <2>4, <2>5, <2>6
  <1>5. \A k, m \in DOMAIN ResultSteps : k # m => ResultSteps[k].kernel # ResultSteps[m].kernel
    BY KernelsOnce
  <1>6. Len(ResultSteps) = Len(program.kernels)
    <2>1. Len(program.kernels) \in Nat
      BY <1>1 DEF IsProgram
    <2>2. QED
      BY <1>1, <2>1 DEF Final
  <1>7. QED
    BY <1>2, <1>3, <1>4, <1>5, <1>6 DEF ResultValidates

\* BuildSchedule keeps that what is scheduled is right: each step finds its inputs in their
\* locs, and the values that it updates, and its own value stays until its readers are done.
THEOREM ScheduleInvariant == FifoSpec => [](ScheduleInv /\ ResultKept)
  <1>1. FifoInit => ScheduleInv /\ ResultKept
    <2>1. FifoInit => ResultKept
      BY DEF FifoInit, ResultKept
    <2>2. QED
      BY <2>1, ScheduleInit
  <1>2. ScheduleInv /\ ResultKept /\ [FifoNext]_fifoVars => (ScheduleInv /\ ResultKept)'
    BY ScheduleKept, ResultStays
  <1>3. QED
    BY <1>1, <1>2, PTL DEF FifoSpec

LEMMA ReturnedAtEnd ==
    ASSUME ScheduleInv, ResultKept, phase = "done"
    PROVE  pending = {} /\ AtEnd
  <1>1. pending = {} /\ result = Returns
    BY DEF ResultKept
  <1>2. IsSchedule(scheduled, locs) /\ \A p \in Steps : \E i \in DOMAIN scheduled : scheduled[i].step = p
    BY <1>1, AllScheduled
  <1>3. IsWhole(scheduled)
    BY <1>2, FinalIsLast
  <1>4. AreInputsApart(locs)
    BY DEF ScheduleInv
  <1>5. QED
    BY <1>1, <1>2, <1>3, <1>4 DEF AtEnd

\* Whatever the program and the memory: the steps that BuildSchedule returns, run one after
\* the other, compute what the kernels compute in the order of the program.
THEOREM ScheduleComputes == FifoSpec => []ComputesProgram
  <1>1. ScheduleInv /\ ResultKept => ComputesProgram
    <2>1. CASE phase = "done"
      BY <2>1, ReturnedAtEnd, EndComputes
    <2>2. CASE phase # "done"
      BY <2>2 DEF ComputesProgram
    <2>3. QED
      BY <2>1, <2>2
  <1>2. QED
    BY <1>1, ScheduleInvariant, PTL

\* ValidateSchedule throws on no schedule that BuildSchedule has made.
THEOREM ScheduleValidates == FifoSpec => []ResultValidates
  <1>1. ScheduleInv /\ ResultKept => ResultValidates
    <2>1. CASE phase = "done"
      BY <2>1, ReturnedAtEnd, EndValidates
    <2>2. CASE phase # "done"
      BY <2>2 DEF ResultValidates
    <2>3. QED
      BY <2>1, <2>2
  <1>2. QED
    BY <1>1, ScheduleInvariant, PTL
=============================================================================
