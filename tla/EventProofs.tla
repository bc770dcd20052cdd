------------------------------ MODULE EventProofs ------------------------------
(***************************************************************************)
(* Proofs about the calls that an event is put together by, of all inputs: *)
(* what it shows of stacks and exceptions, what is read of a request,      *)
(* which records of a log are reported, and what settings come to. A lemma *)
(* for each function says what it returns, one for each question says that *)
(* every step of Next keeps what is asked of the answer, and the theorems  *)
(* at the end put those together. What an event carries besides is in      *)
(* PayloadProofs.                                                          *)
(***************************************************************************)
EXTENDS EventProperties, FiniteSetTheorems, FunctionTheorems, WellFoundedInduction, TLAPS

(* The greater of two numbers. *)
LEMMA MaxTwo ==
    ASSUME NEW a \in Int, NEW b \in Int
    PROVE  Max({a, b}) = IF a >= b THEN a ELSE b
  <1>1. PICK x \in {a, b} : \A y \in {a, b} : x >= y
    OBVIOUS
  <1>2. /\ Max({a, b}) \in {a, b}
        /\ \A y \in {a, b} : Max({a, b}) >= y
    BY <1>1 DEF Max
  <1> QED BY <1>2

(* The lesser of two numbers. *)
LEMMA MinTwo ==
    ASSUME NEW a \in Int, NEW b \in Int
    PROVE  Min({a, b}) = IF a <= b THEN a ELSE b
  <1>1. PICK x \in {a, b} : \A y \in {a, b} : x <= y
    OBVIOUS
  <1>2. /\ Min({a, b}) \in {a, b}
        /\ \A y \in {a, b} : Min({a, b}) <= y
    BY <1>1 DEF Min
  <1> QED BY <1>2

-----------------------------------------------------------------------------
(* slim_frame_data(): the middle of a list that has been split into frames *)
(* of the application and frames of the system.                            *)

(* Members of a finite set of numbers have ranks of their own, in their    *)
(* order, and every number below the size of the set is the rank of one.   *)
LEMMA Ranks ==
    ASSUME NEW S, IsFiniteSet(S), S \subseteq Int
    PROVE  /\ \A i \in S : Rank(S, i) \in 0..(Cardinality(S) - 1)
           /\ \A i, j \in S : i < j <=> Rank(S, i) < Rank(S, j)
           /\ \A k \in 0..(Cardinality(S) - 1) : \E i \in S : Rank(S, i) = k
  <1> DEFINE below(i) == {j \in S : j < i}
             n == Cardinality(S)
             r == [i \in S |-> Rank(S, i)]
  <1>1. /\ n \in Nat
        /\ \A i \in S : IsFiniteSet(below(i)) /\ Rank(S, i) \in Nat
    <2>1. n \in Nat
      BY FS_CardinalityType
    <2>2. \A i \in S : IsFiniteSet(below(i))
      BY FS_Subset
    <2>3. \A i \in S : Rank(S, i) \in Nat
      BY <2>2, FS_CardinalityType DEF Rank
    <2> QED BY <2>1, <2>2, <2>3
  <1>2. ASSUME NEW i \in S, NEW j \in S, i < j
        PROVE  Rank(S, i) < Rank(S, j)
    <2>1. below(i) \in SUBSET below(j) /\ below(i) # below(j)
      <3>1. i \in below(j) /\ i \notin below(i)
        BY <1>2
      <3>2. \A k \in below(i) : k \in below(j)
        BY <1>2
      <3> QED BY <3>1, <3>2
    <2>2. /\ Cardinality(below(i)) <= Cardinality(below(j))
          /\ Cardinality(below(i)) # Cardinality(below(j))
      BY <2>1, <1>1, FS_Subset
    <2> QED BY <2>2, <1>1 DEF Rank
  <1>3. \A i \in S : Rank(S, i) \in 0..(n - 1)
    <2> SUFFICES ASSUME NEW i \in S
                 PROVE  Rank(S, i) \in 0..(n - 1)
      OBVIOUS
    <2>1. below(i) \in SUBSET S /\ below(i) # S
      OBVIOUS
    <2>2. Cardinality(below(i)) <= n /\ Cardinality(below(i)) # n
      BY <2>1, FS_Subset
    <2> QED BY <2>2, <1>1 DEF Rank
  <1>4. \A i, j \in S : i < j <=> Rank(S, i) < Rank(S, j)
    <2> SUFFICES ASSUME NEW i \in S, NEW j \in S
                 PROVE  i < j <=> Rank(S, i) < Rank(S, j)
      OBVIOUS
    <2>1. i < j \/ i = j \/ j < i
      OBVIOUS
    <2>2. Rank(S, i) \in Nat /\ Rank(S, j) \in Nat
      BY <1>1
    <2> QED BY <2>1, <2>2, <1>2
  <1>5. r \in Injection(S, 0..(n - 1))
    <2>1. r \in [S -> 0..(n - 1)]
      BY <1>3
    <2>2. \A a, b \in S : r[a] = r[b] => a = b
      <3> SUFFICES ASSUME NEW a \in S, NEW b \in S, r[a] = r[b]
                   PROVE  a = b
        OBVIOUS
      <3>1. Rank(S, a) = Rank(S, b) /\ Rank(S, a) \in Nat
        BY <1>1
      <3>2. ~ (a < b) /\ ~ (b < a)
        BY <3>1, <1>4
      <3> QED BY <3>2
    <2> QED BY <2>1, <2>2, Fun_IsInj
  <1>6. r \in Surjection(S, 0..(n - 1))
    <2>1. IsFiniteSet(0..(n - 1)) /\ Cardinality(0..(n - 1)) = n
      <3> HIDE DEF n
      <3>1. n - 1 \in Int /\ 0 \in Int
        BY <1>1
      <3>2. /\ IsFiniteSet(0..(n - 1))
            /\ Cardinality(0..(n - 1)) = IF 0 > n - 1 THEN 0 ELSE (n - 1) - 0 + 1
        BY <3>1, FS_Interval
      <3> QED BY <3>2, <1>1
    <2> QED BY <1>5, <2>1, FS_Injection
  <1>7. \A k \in 0..(n - 1) : \E i \in S : Rank(S, i) = k
    BY <1>6 DEF Surjection
  <1> QED BY <1>3, <1>4, <1>7

(* s[h:-h] of n members: those from h on that are h before the end or      *)
(* more; without a half there is no middle at all.                         *)
LEMMA SliceOfHalf ==
    ASSUME NEW n \in Nat, NEW h \in Nat
    PROVE  Slice(n, h, -h) = IF h = 0 THEN {} ELSE {k \in 0..(n - 1) : h <= k /\ k < n - h}
  <1> DEFINE from == IF h < 0 THEN Max({n + h, 0}) ELSE Min({h, n})
             to == IF -h < 0 THEN Max({n + (-h), 0}) ELSE Min({-h, n})
  <1>1. from = IF h <= n THEN h ELSE n
    BY MinTwo
  <1>2. h > 0 => to = IF n - h >= 0 THEN n - h ELSE 0
    <2> SUFFICES ASSUME h > 0
                 PROVE  to = IF n - h >= 0 THEN n - h ELSE 0
      OBVIOUS
    <2>1. to = Max({n - h, 0})
      BY n + (-h) = n - h
    <2>2. n - h \in Int /\ 0 \in Int
      OBVIOUS
    <2> QED BY <2>1, <2>2, MaxTwo
  <1>3. h = 0 => to = 0
    <2> SUFFICES ASSUME h = 0
                 PROVE  to = 0
      OBVIOUS
    <2>1. -h = 0
      <3> DEFINE minus == -h
      <3>1. minus \in Int /\ h + minus = 0
        OBVIOUS
      <3>2. minus = 0
        <4> HIDE DEF minus
        <4> QED BY <3>1
      <3> QED BY <3>2
    <2>2. to = Min({0, n})
      BY <2>1
    <2> QED BY <2>2, MinTwo
  <1>4. Slice(n, h, -h) = {k \in 0..(n - 1) : from <= k /\ k < to}
    BY DEF Slice
  <1> HIDE DEF from, to
  <1>5. CASE h = 0
    <2>1. from = 0 /\ to = 0
      BY <1>5, <1>1, <1>3
    <2> QED BY <2>1, <1>4, <1>5
  <1>6. CASE h > 0
    <2>1. \A k \in 0..(n - 1) : from <= k /\ k < to <=> h <= k /\ k < n - h
      BY <1>6, <1>1, <1>2
    <2> QED BY <2>1, <1>4, <1>6
  <1> QED BY <1>5, <1>6

(* Half() rounds down what is not negative. *)
LEMMA HalfOfNat ==
    ASSUME NEW m \in Nat
    PROVE  /\ Half(m) \in Nat
           /\ m = 2 * Half(m) \/ m = 2 * Half(m) + 1
  BY DEF Half

(* The middle has no gaps, and both halves of it stay; when there is less  *)
(* than two halves, or no half, nothing is taken away.                     *)
LEMMA MiddleIs ==
    ASSUME NEW S, IsFiniteSet(S), S \subseteq Int, NEW m \in Nat
    PROVE  /\ Middle(S, m) \subseteq S
           /\ Half(m) = 0 => Middle(S, m) = {}
           /\ Cardinality(S) <= 2 * Half(m) => Middle(S, m) = {}
           /\ Half(m) > 0 /\ Cardinality(S) > 2 * Half(m) =>
                 Cardinality(Middle(S, m)) = Cardinality(S) - 2 * Half(m)
           /\ \A i, j \in Middle(S, m), k \in S : i < k /\ k < j => k \in Middle(S, m)
  <1> DEFINE n == Cardinality(S)
             h == Half(m)
             inside(k) == h <= k /\ k < n - h
             r == [i \in Middle(S, m) |-> Rank(S, i)]
  <1>1. n \in Nat /\ h \in Nat
    BY FS_CardinalityType, HalfOfNat
  <1>2. \A i \in S : Rank(S, i) \in 0..(n - 1)
    BY Ranks
  <1>3. \A i, j \in S : i < j <=> Rank(S, i) < Rank(S, j)
    BY Ranks
  <1>4. \A k \in 0..(n - 1) : \E i \in S : Rank(S, i) = k
    BY Ranks
  <1>5. Middle(S, m) = {i \in S : Rank(S, i) \in Slice(n, h, -h)}
    BY DEF Middle
  <1>6. Slice(n, h, -h) = IF h = 0 THEN {} ELSE {k \in 0..(n - 1) : inside(k)}
    <2> HIDE DEF n, h
    <2> QED BY <1>1, SliceOfHalf
  <1> HIDE DEF n, h
  <1>7. h = 0 => Middle(S, m) = {}
    BY <1>5, <1>6
  <1>8. h > 0 => Middle(S, m) = {i \in S : inside(Rank(S, i))}
    <2> SUFFICES ASSUME h > 0
                 PROVE  Middle(S, m) = {i \in S : inside(Rank(S, i))}
      OBVIOUS
    <2>1. Slice(n, h, -h) = {k \in 0..(n - 1) : inside(k)}
      BY <1>6
    <2>2. \A i \in S : Rank(S, i) \in Slice(n, h, -h) <=> inside(Rank(S, i))
      BY <2>1, <1>2
    <2> QED BY <2>2, <1>5
  <1>9. n <= 2 * h => Middle(S, m) = {}
    <2>1. CASE h = 0
      BY <2>1, <1>7
    <2>2. CASE h > 0
      <3> SUFFICES ASSUME n <= 2 * h, NEW i \in Middle(S, m)
                   PROVE  FALSE
        OBVIOUS
      <3>1. Rank(S, i) \in Nat /\ inside(Rank(S, i))
        <4>1. i \in S /\ inside(Rank(S, i))
          BY <2>2, <1>8
        <4>2. Rank(S, i) \in 0..(n - 1)
          BY <4>1, <1>2
        <4> QED BY <4>1, <4>2, <1>1
      <3> QED BY <3>1, <1>1
    <2> QED BY <2>1, <2>2, <1>1
  <1>10. ASSUME h > 0, n > 2 * h
         PROVE  Cardinality(Middle(S, m)) = n - 2 * h
    <2> DEFINE R == h..(n - h - 1)
    <2>1. IsFiniteSet(R) /\ Cardinality(R) = n - 2 * h
      <3>1. h \in Int /\ n - h - 1 \in Int /\ ~ h > n - h - 1
        BY <1>1, <1>10
      <3>2. /\ IsFiniteSet(R)
            /\ Cardinality(R) = IF h > n - h - 1 THEN 0 ELSE n - h - 1 - h + 1
        BY <3>1, FS_Interval
      <3> QED BY <3>1, <3>2, <1>1
    <2>2. Middle(S, m) \subseteq S /\ \A i \in Middle(S, m) : Rank(S, i) \in R
      <3>1. Middle(S, m) = {i \in S : inside(Rank(S, i))}
        BY <1>10, <1>8, <1>1
      <3>2. \A i \in Middle(S, m) : i \in S /\ inside(Rank(S, i))
        BY <3>1
      <3>3. ASSUME NEW k \in 0..(n - 1), inside(k)
            PROVE  k \in R
        BY <3>3, <1>1
      <3>4. \A i \in Middle(S, m) : Rank(S, i) \in R
        <4> HIDE DEF R, inside
        <4> QED BY <3>2, <3>3, <1>2
      <3> QED BY <3>2, <3>4
    <2>3. r \in [Middle(S, m) -> R]
      BY <2>2
    <2>4. \A a, b \in Middle(S, m) : r[a] = r[b] => a = b
      <3> SUFFICES ASSUME NEW a \in Middle(S, m), NEW b \in Middle(S, m), r[a] = r[b]
                   PROVE  a = b
        OBVIOUS
      <3>1. a \in S /\ b \in S /\ Rank(S, a) = Rank(S, b) /\ Rank(S, a) \in Int
        BY <2>2, <1>2
      <3>2. ~ (a < b) /\ ~ (b < a)
        BY <3>1, <1>3
      <3>3. a \in Int /\ b \in Int
        BY <3>1
      <3> QED BY <3>2, <3>3
    <2>5. \A k \in R : \E i \in Middle(S, m) : r[i] = k
      <3> SUFFICES ASSUME NEW k \in R
                   PROVE  \E i \in Middle(S, m) : r[i] = k
        OBVIOUS
      <3>1. k \in 0..(n - 1) /\ inside(k)
        BY <1>1
      <3>2. PICK i \in S : Rank(S, i) = k
        BY <3>1, <1>4
      <3>3. i \in Middle(S, m)
        BY <3>1, <3>2, <1>8, <1>10
      <3> QED BY <3>2, <3>3
    <2>6. r \in Bijection(Middle(S, m), R)
      BY <2>3, <2>4, <2>5, Fun_IsBij
    <2>7. ExistsBijection(Middle(S, m), R)
      BY <2>6 DEF ExistsBijection
    <2>8. IsFiniteSet(Middle(S, m))
      BY <2>2, FS_Subset
    <2> QED BY <2>1, <2>7, <2>8, FS_Bijection
  <1>11. ASSUME NEW i \in Middle(S, m), NEW j \in Middle(S, m), NEW k \in S, i < k, k < j
         PROVE  k \in Middle(S, m)
    <2>1. h > 0
      BY <1>1, <1>7
    <2>2. i \in S /\ j \in S /\ inside(Rank(S, i)) /\ inside(Rank(S, j))
      BY <2>1, <1>8
    <2>3. Rank(S, i) < Rank(S, k) /\ Rank(S, k) < Rank(S, j)
      BY <1>11, <2>2, <1>3
    <2>4. Rank(S, i) \in Int /\ Rank(S, j) \in Int /\ Rank(S, k) \in Int
      BY <2>2, <1>2
    <2>5. inside(Rank(S, k))
      BY <2>2, <2>3, <2>4, <1>1
    <2> QED BY <2>1, <2>5, <1>8
  <1>12. Middle(S, m) \subseteq S
    BY <1>5
  <1>13. \A i, j \in Middle(S, m), k \in S : i < k /\ k < j => k \in Middle(S, m)
    BY <1>11
  <1> QED BY <1>7, <1>9, <1>10, <1>12, <1>13 DEF n, h

(* The frames of the application and those of the system are all frames.   *)
LEMMA TwoKinds ==
    ASSUME NEW apps \in Seq(BOOLEAN)
    PROVE  LET app == Positions(apps, TRUE)
               system == Positions(apps, FALSE)
           IN  /\ app \subseteq Int /\ system \subseteq Int
               /\ IsFiniteSet(app) /\ IsFiniteSet(system)
               /\ Cardinality(app) \in Nat /\ Cardinality(system) \in Nat
               /\ app \cup system = DOMAIN apps /\ app \cap system = {}
               /\ Cardinality(DOMAIN apps) = Len(apps)
               /\ Cardinality(app) + Cardinality(system) = Len(apps)
               /\ app = {i \in DOMAIN apps : apps[i]}
  <1> DEFINE app == Positions(apps, TRUE)
             system == Positions(apps, FALSE)
  <1>1. DOMAIN apps = 1..Len(apps) /\ Len(apps) \in Nat
    OBVIOUS
  <1>2. \A i \in DOMAIN apps : apps[i] \in BOOLEAN
    OBVIOUS
  <1>3. /\ app \subseteq DOMAIN apps /\ system \subseteq DOMAIN apps
        /\ app \cup system = DOMAIN apps /\ app \cap system = {}
        /\ app = {i \in DOMAIN apps : apps[i]}
    BY <1>2, Zenon DEF Positions
  <1>4. IsFiniteSet(DOMAIN apps) /\ Cardinality(DOMAIN apps) = Len(apps)
    <2>1. 1 \in Int /\ Len(apps) \in Int
      BY <1>1
    <2>2. /\ IsFiniteSet(1..Len(apps))
          /\ Cardinality(1..Len(apps)) = IF 1 > Len(apps) THEN 0 ELSE Len(apps) - 1 + 1
      BY <2>1, FS_Interval
    <2> QED BY <2>2, <1>1
  <1>5. IsFiniteSet(app) /\ IsFiniteSet(system)
    BY <1>3, <1>4, FS_Subset
  <1>6. Cardinality(app) \in Nat /\ Cardinality(system) \in Nat
    BY <1>5, FS_CardinalityType
  <1>7. Cardinality(app) + Cardinality(system) = Len(apps)
    <2>1. /\ Cardinality(app \cup system) =
               Cardinality(app) + Cardinality(system) - Cardinality(app \cap system)
      BY <1>5, FS_Union
    <2>2. Cardinality(app \cap system) = 0
      BY <1>3, FS_EmptySet
    <2> HIDE DEF app, system
    <2> QED BY <2>1, <2>2, <1>3, <1>4, <1>6
  <1>8. app \subseteq Int /\ system \subseteq Int
    <2>1. DOMAIN apps \subseteq Int
      BY <1>1
    <2> HIDE DEF app, system
    <2> QED BY <2>1, <1>3
  <1> HIDE DEF app, system
  <1> QED BY <1>3, <1>4, <1>5, <1>6, <1>7, <1>8 DEF app, system

(* A set without a part of it has so many members less. *)
LEMMA WithoutPart ==
    ASSUME NEW S, IsFiniteSet(S), NEW T \in SUBSET S
    PROVE  Cardinality(S \ T) = Cardinality(S) - Cardinality(T)
  <1>1. IsFiniteSet(T) /\ IsFiniteSet(S \ T)
    BY FS_Subset
  <1>2. (S \ T) \cup T = S /\ (S \ T) \cap T = {}
    OBVIOUS
  <1>3. Cardinality(S) = Cardinality(S \ T) + Cardinality(T) - Cardinality({})
    BY <1>1, <1>2, FS_Union
  <1>4. Cardinality(S \ T) \in Nat /\ Cardinality(T) \in Nat /\ Cardinality({}) = 0
    BY <1>1, FS_CardinalityType, FS_EmptySet
  <1> QED BY <1>3, <1>4

(* What slim_frame_data() takes of a long stack whose application has      *)
(* frames to spare: every system frame, and the middle of the others.      *)
LEMMA SlimOfMany ==
    ASSUME NEW apps \in Seq(BOOLEAN), NEW allowance \in Nat,
           Len(apps) > allowance, Cardinality(Positions(apps, TRUE)) >= allowance
    PROVE  SlimFrameData(apps, allowance) =
               Positions(apps, FALSE) \cup
                   (IF Cardinality(Positions(apps, TRUE)) = allowance THEN {}
                    ELSE Middle(Positions(apps, TRUE), allowance))
  <1> DEFINE app == Positions(apps, TRUE)
             system == Positions(apps, FALSE)
             a == Cardinality(app)
             gone == TrimSystem(system, Max({allowance - a, 0}))
             remaining == Len(apps) - allowance - Cardinality(gone)
  <1>1. /\ a \in Nat /\ Cardinality(system) \in Nat
        /\ a + Cardinality(system) = Len(apps)
    BY TwoKinds
  <1>2. Max({allowance - a, 0}) = 0
    <2>0. a >= allowance
      OBVIOUS
    <2> HIDE DEF a
    <2>1. allowance - a \in Int /\ 0 \in Int /\ ~ allowance - a >= 1
      BY <1>1, <2>0
    <2>2. Max({allowance - a, 0}) = IF allowance - a >= 0 THEN allowance - a ELSE 0
      BY <2>1, MaxTwo
    <2> QED BY <2>1, <2>2
  <1>3. gone = system
    BY <1>2 DEF TrimSystem
  <1>4. remaining = a - allowance /\ a - remaining = allowance
    <2> HIDE DEF gone, app, system
    <2> QED BY <1>1, <1>3
  <1>5. SlimFrameData(apps, allowance) =
            gone \cup (IF remaining = 0 THEN {} ELSE Middle(app, a - remaining))
    <2>1. ~ Len(apps) <= allowance
      OBVIOUS
    <2> QED BY <2>1 DEF SlimFrameData
  <1>6. remaining = 0 <=> a = allowance
    <2> HIDE DEF remaining, a
    <2> QED BY <1>1, <1>4
  <1> HIDE DEF remaining, gone
  <1> QED BY <1>3, <1>4, <1>5, <1>6

(* And of one whose application has two frames less or fewer: the middle   *)
(* of the system frames, of which it leaves two halves of the rest.        *)
LEMMA SlimOfFew ==
    ASSUME NEW apps \in Seq(BOOLEAN), NEW allowance \in Nat,
           Len(apps) > allowance, Cardinality(Positions(apps, TRUE)) <= allowance - 2
    PROVE  LET a == Cardinality(Positions(apps, TRUE))
               system == Positions(apps, FALSE)
           IN  /\ SlimFrameData(apps, allowance) = Middle(system, allowance - a)
               /\ allowance - a \in Nat /\ Half(allowance - a) > 0
               /\ Cardinality(Middle(system, allowance - a)) =
                     Cardinality(system) - 2 * Half(allowance - a)
  <1> DEFINE app == Positions(apps, TRUE)
             system == Positions(apps, FALSE)
             a == Cardinality(app)
             rest == allowance - a
             h == Half(rest)
             gone == TrimSystem(system, Max({rest, 0}))
             remaining == Len(apps) - allowance - Cardinality(gone)
  <1>1. /\ a \in Nat /\ Cardinality(system) \in Nat
        /\ a + Cardinality(system) = Len(apps)
        /\ IsFiniteSet(app) /\ IsFiniteSet(system)
        /\ app \subseteq Int /\ system \subseteq Int
    BY TwoKinds
  <1>2. rest \in Nat /\ rest >= 2 /\ Cardinality(system) > rest
    <2> HIDE DEF app, system
    <2>1. a <= allowance - 2
      BY DEF app
    <2> QED BY <1>1, <2>1
  <1>3. /\ h \in Nat /\ h > 0 /\ Cardinality(system) > 2 * h
        /\ rest = 2 * h \/ rest = 2 * h + 1
    <2> HIDE DEF rest
    <2>1. h \in Nat /\ (rest = 2 * h \/ rest = 2 * h + 1)
      BY <1>2, HalfOfNat
    <2> HIDE DEF h, system
    <2>2. Cardinality(system) \in Nat
      BY <1>1
    <2> QED BY <2>1, <2>2, <1>2
  <1>4. gone = Middle(system, rest)
    <2> HIDE DEF rest
    <2>1. Max({rest, 0}) = rest /\ rest > 0
      BY <1>2, MaxTwo
    <2>2. gone = TrimSystem(system, rest)
      BY <2>1
    <2> HIDE DEF gone, system
    <2> QED BY <2>1, <2>2 DEF TrimSystem
  <1>5. Cardinality(gone) = Cardinality(system) - 2 * h
    <2> HIDE DEF rest, system, gone
    <2> QED BY <1>1, <1>2, <1>3, <1>4, MiddleIs
  <1>6. remaining = 2 * h - rest
    <2> HIDE DEF gone, app, system, h
    <2> QED BY <1>1, <1>3, <1>5
  <1>7. remaining # 0 => Middle(app, a - remaining) = {}
    <2> SUFFICES ASSUME remaining # 0
                 PROVE  Middle(app, a - remaining) = {}
      OBVIOUS
    <2>1. a - remaining = a + 1
      <3> HIDE DEF remaining, rest, a, h
      <3>1. remaining = -1
        BY <1>2, <1>3, <1>6
      <3> QED BY <3>1, <1>1
    <2>2. a + 1 \in Nat
      <3> HIDE DEF a
      <3> QED BY <1>1
    <2>3. a <= 2 * Half(a + 1)
      <3> HIDE DEF a
      <3>1. /\ Half(a + 1) \in Nat
            /\ a + 1 = 2 * Half(a + 1) \/ a + 1 = 2 * Half(a + 1) + 1
        BY <2>2, HalfOfNat
      <3> QED BY <3>1, <1>1
    <2>4. Middle(app, a + 1) = {}
      BY <2>2, <2>3, <1>1, MiddleIs
    <2> QED BY <2>1, <2>4
  <1>8. SlimFrameData(apps, allowance) =
            gone \cup (IF remaining = 0 THEN {} ELSE Middle(app, a - remaining))
    <2>1. ~ Len(apps) <= allowance
      OBVIOUS
    <2> QED BY <2>1 DEF SlimFrameData
  <1>9. SlimFrameData(apps, allowance) = Middle(system, rest)
    <2> HIDE DEF remaining, gone
    <2> QED BY <1>4, <1>7, <1>8
  <1> HIDE DEF gone, remaining, h
  <1> QED BY <1>2, <1>3, <1>4, <1>5, <1>9 DEF h

(* SlimKept of EventProperties, of stacks of any length and any number of  *)
(* frames that keep everything: slim_frame_data() leaves as many as it     *)
(* promises, those of the application first, and no hole that is not the   *)
(* middle of its kind.                                                     *)
THEOREM SlimKeepsEnds ==
    ASSUME Answered("slim") => /\ input.apps \in Seq(BOOLEAN)
                               /\ input.allowance \in Nat
                               /\ result = SlimFrameData(input.apps, input.allowance)
    PROVE  SlimKept
  <1> DEFINE apps == input.apps
             allowance == input.allowance
             app == Positions(apps, TRUE)
             system == Positions(apps, FALSE)
             a == Cardinality(app)
             kept == DOMAIN apps \ result
             long == Len(apps) > allowance
             Apart(S) == \A i, j \in S \cap result, k \in S \cap kept : ~ (i < k /\ k < j)
             Promise == /\ result \subseteq app \cup system
                        /\ Cardinality(kept) \in {allowance - 1, allowance}
                        /\ result \cap app # {} => kept \subseteq app
                        /\ Apart(app) /\ Apart(system)
  <1>1. SUFFICES ASSUME Answered("slim")
                 PROVE  SlimKept
    BY DEF SlimKept
  <1>2. /\ apps \in Seq(BOOLEAN) /\ allowance \in Nat
        /\ result = SlimFrameData(apps, allowance)
    BY <1>1
  <1> HIDE DEF apps, allowance
  <1>3. /\ app \subseteq Int /\ system \subseteq Int
        /\ IsFiniteSet(app) /\ IsFiniteSet(system)
        /\ a \in Nat /\ Cardinality(system) \in Nat
        /\ app \cup system = DOMAIN apps /\ app \cap system = {}
        /\ Cardinality(DOMAIN apps) = Len(apps)
        /\ a + Cardinality(system) = Len(apps)
        /\ app = {i \in DOMAIN apps : apps[i]}
    BY <1>2, TwoKinds, Zenon
  <1>len. Len(apps) \in Nat
    BY <1>2
  <1>4. ~ long => result = {}
    <2> SUFFICES ASSUME ~ long
                 PROVE  result = {}
      OBVIOUS
    <2>1. Len(apps) <= allowance
      BY <1>2, <1>len
    <2> QED BY <2>1, <1>2 DEF SlimFrameData
  <1>5. ASSUME long, a >= allowance, allowance >= 2
        PROVE  Promise
    <2>1. result = system \cup (IF a = allowance THEN {} ELSE Middle(app, allowance))
      BY <1>2, <1>5, SlimOfMany
    <2>2. Middle(app, allowance) \subseteq app
      BY <1>2, <1>3, MiddleIs
    <2>3. kept \subseteq app /\ kept = app \ result /\ system \subseteq result
      <3> HIDE DEF app, system
      <3> QED BY <2>1, <1>3
    <2>4. Cardinality(kept) \in {allowance - 1, allowance}
      <3>1. CASE a = allowance
        <4>1. kept = app
          <5> HIDE DEF app, system
          <5> QED BY <3>1, <2>1, <2>3, <1>3
        <4> QED BY <4>1, <3>1
      <3>2. CASE a # allowance
        <4> DEFINE h == Half(allowance)
                   M == Middle(app, allowance)
        <4>1. /\ h \in Nat
              /\ allowance = 2 * h \/ allowance = 2 * h + 1
          BY <1>2, HalfOfNat
        <4>2. h > 0 /\ a > 2 * h
          <5> HIDE DEF h
          <5> HIDE DEF a
          <5>1. a > allowance /\ a \in Nat
            BY <3>2, <1>2, <1>3, <1>5
          <5> QED BY <4>1, <5>1, <1>2, <1>5
        <4>3. Cardinality(M) = a - 2 * h
          BY <4>2, <1>2, <1>3, MiddleIs
        <4>4. kept = app \ M
          <5> HIDE DEF app, system, M
          <5> QED BY <3>2, <2>1, <2>3, <1>3 DEF M
        <4>5. Cardinality(app \ M) = a - Cardinality(M)
          BY <2>2, <1>3, WithoutPart
        <4>6. Cardinality(kept) = 2 * h
          <5> HIDE DEF kept, h, M, app
          <5> QED BY <4>1, <4>3, <4>4, <4>5, <1>3
        <4> HIDE DEF kept, h
        <4> QED BY <4>1, <4>6, <1>2
      <3> QED BY <3>1, <3>2
    <2>5. Apart(app)
      <3> SUFFICES ASSUME NEW i \in app \cap result, NEW j \in app \cap result,
                          NEW k \in app \cap kept, i < k, k < j
                   PROVE  FALSE
        OBVIOUS
      <3> HIDE DEF app, system
      <3>1. i \in Middle(app, allowance) /\ j \in Middle(app, allowance)
        BY <2>1, <1>3
      <3>2. k \in Middle(app, allowance) /\ k \in app
        BY <3>1, <1>2, <1>3, MiddleIs
      <3>3. k \in result
        <4>1. a # allowance
          BY <2>1, <1>3
        <4> QED BY <4>1, <2>1, <3>2
      <3> QED BY <3>3
    <2>6. Apart(system)
      BY <2>3
    <2>7. result \subseteq app \cup system
      <3> HIDE DEF app, system
      <3> QED BY <2>1, <2>2
    <2> QED BY <2>3, <2>4, <2>5, <2>6, <2>7
  <1>6. ASSUME long, a <= allowance - 2
        PROVE  Promise
    <2> DEFINE rest == allowance - a
               h == Half(rest)
               M == Middle(system, rest)
    <2>1. /\ result = M /\ rest \in Nat /\ h > 0
          /\ Cardinality(M) = Cardinality(system) - 2 * h
      BY <1>2, <1>6, SlimOfFew
    <2>2. M \subseteq system
      BY <2>1, <1>3, MiddleIs
    <2>3. /\ h \in Nat
          /\ rest = 2 * h \/ rest = 2 * h + 1
      BY <2>1, HalfOfNat
    <2>4. IsFiniteSet(DOMAIN apps) /\ result \subseteq DOMAIN apps
      <3>1. IsFiniteSet(app \cup system)
        BY <1>3, FS_Union
      <3> HIDE DEF app, system, M
      <3> QED BY <3>1, <2>1, <2>2, <1>3
    <2>5. Cardinality(kept) = Len(apps) - Cardinality(result)
      BY <2>4, <1>3, WithoutPart
    <2>6. Cardinality(kept) \in {allowance - 1, allowance}
      <3> HIDE DEF kept, M, h, a, system
      <3> QED BY <2>1, <2>3, <2>5, <1>2, <1>3, <1>len
    <2>7. result \cap app = {}
      <3> HIDE DEF app, system, M
      <3> QED BY <2>1, <2>2, <1>3
    <2>8. Apart(app)
      BY <2>7
    <2>9. Apart(system)
      <3> SUFFICES ASSUME NEW i \in system \cap result, NEW j \in system \cap result,
                          NEW k \in system \cap kept, i < k, k < j
                   PROVE  FALSE
        OBVIOUS
      <3> HIDE DEF app, system, M, rest
      <3>1. i \in M /\ j \in M /\ k \in system
        BY <2>1, <2>2
      <3>2. \A p, q \in M, r \in system : p < r /\ r < q => r \in M
        BY <2>1, <1>3, MiddleIs DEF M
      <3> QED BY <3>1, <3>2, <2>1
    <2>10. result \subseteq app \cup system
      <3> HIDE DEF app, system, M
      <3> QED BY <2>1, <2>2
    <2> QED BY <2>6, <2>7, <2>8, <2>9, <2>10
  <1>7. ASSUME long, allowance >= 2, a # allowance - 1
        PROVE  Promise
    <2>1. a >= allowance \/ a <= allowance - 2
      <3> HIDE DEF a
      <3> QED BY <1>7, <1>2, <1>3
    <2> QED BY <2>1, <1>5, <1>6, <1>7
  <1>8. ASSUME Promise, NEW i \in result, NEW j \in result, NEW k \in kept,
               apps[i] = apps[j], apps[j] = apps[k]
        PROVE  ~ (i < k /\ k < j)
    <2>1. i \in app \cup system /\ j \in app \cup system /\ k \in app \cup system
      BY <1>8, <1>3
    <2> HIDE DEF system, app
    <2>2. \A p \in app \cup system : IF apps[p] THEN p \in app ELSE p \in system
      BY <1>3
    <2>3. CASE apps[k]
      <3>1. i \in app \cap result /\ j \in app \cap result /\ k \in app \cap kept
        BY <1>8, <2>1, <2>2, <2>3
      <3> QED BY <3>1, <1>8
    <2>4. CASE ~ apps[k]
      <3>1. /\ i \in system \cap result /\ j \in system \cap result
            /\ k \in system \cap kept
        BY <1>8, <2>1, <2>2, <2>4
      <3> QED BY <3>1, <1>8
    <2> QED BY <2>3, <2>4
  <1>9. /\ ~ long => result = {}
        /\ long /\ allowance >= 2 /\ a # allowance - 1 =>
              /\ Cardinality(kept) \in {allowance - 1, allowance}
              /\ result \cap app # {} => kept \subseteq app
              /\ \A i, j \in result, k \in kept :
                    apps[i] = apps[j] /\ apps[j] = apps[k] => ~ (i < k /\ k < j)
    BY <1>4, <1>7, <1>8
  <1>10. app = {i \in DOMAIN apps : apps[i]} /\ Cardinality(DOMAIN apps) = Len(apps)
    BY <1>3
  <1> HIDE DEF app
  <1> QED BY <1>1, <1>9, <1>10 DEF SlimKept, apps, allowance

-----------------------------------------------------------------------------
(* _chained_exceptions(): however exceptions refer to each other.          *)

(* A set of naturals has a least member. *)
LEMMA Least ==
    ASSUME NEW T, T \subseteq Nat, T # {}
    PROVE  \E x \in T : \A y \in T : x <= y
  <1> DEFINE R == OpToRel(<, Nat)
  <1>1. PICK x \in T : \A y \in T : <<y, x>> \notin R
    <2>1. IsWellFoundedOn(R, Nat)
      BY NatLessThanWellFounded
    <2> HIDE DEF R
    <2> QED BY <2>1, WFMin
  <1>2. \A a, b \in Nat : <<a, b>> \in R <=> a < b
    BY DEF OpToRel
  <1> HIDE DEF R
  <1>3. \A y \in T : x <= y
    <2> TAKE y \in T
    <2>1. x \in Nat /\ y \in Nat /\ ~ (y < x)
      BY <1>1, <1>2
    <2> QED BY <2>1
  <1> QED BY <1>3

(* The chain as far as a number of steps takes it. *)
Walk(exc, chain, n, f) ==
    f = [m \in 0..n |-> IF m = 0 THEN <<exc>> ELSE Follow(f[m - 1], chain)]

(* Step after step, the chain can be followed. *)
LEMMA WalkExists ==
    ASSUME NEW exc, NEW chain, NEW N \in Nat
    PROVE  \E f : Walk(exc, chain, N, f)
  <1> DEFINE T == {n \in Nat : ~ \E f : Walk(exc, chain, n, f)}
  <1>1. SUFFICES ASSUME T # {}
                 PROVE  FALSE
    BY Zenon
  <1>2. PICK n \in T : \A y \in T : n <= y
    <2>1. T \subseteq Nat
      OBVIOUS
    <2> HIDE DEF T
    <2> QED BY <1>1, <2>1, Least
  <1>3. n \in Nat /\ ~ \E f : Walk(exc, chain, n, f)
    BY <1>2
  <1>4. n # 0
    <2> DEFINE f == [m \in 0..0 |-> <<exc>>]
    <2>1. Walk(exc, chain, 0, f)
      BY DEF Walk
    <2> HIDE DEF f
    <2> QED BY <2>1, <1>3
  <1>5. n - 1 \in Nat /\ n - 1 \notin T
    BY <1>2, <1>3, <1>4
  <1>6. PICK g : Walk(exc, chain, n - 1, g)
    BY <1>5
  <1> DEFINE f == [m \in 0..n |-> IF m = n THEN Follow(g[n - 1], chain) ELSE g[m]]
  <1>7. \A m \in 0..(n - 1) : g[m] = IF m = 0 THEN <<exc>> ELSE Follow(g[m - 1], chain)
    BY <1>6 DEF Walk
  <1>8. \A m \in 0..(n - 1) : f[m] = g[m]
    BY <1>3
  <1>9. f[n] = Follow(g[n - 1], chain)
    BY <1>3
  <1>10. \A m \in 0..n : f[m] = IF m = 0 THEN <<exc>> ELSE Follow(f[m - 1], chain)
    <2> SUFFICES ASSUME NEW m \in 0..n
                 PROVE  f[m] = IF m = 0 THEN <<exc>> ELSE Follow(f[m - 1], chain)
      OBVIOUS
    <2> HIDE DEF f
    <2>1. CASE m = n
      <3>1. f[n - 1] = g[n - 1]
        BY <1>3, <1>4, <1>8
      <3> QED BY <2>1, <3>1, <1>4, <1>9
    <2>2. CASE m # n
      <3>1. m \in 0..(n - 1)
        BY <2>2, <1>3
      <3>2. m # 0 => m - 1 \in 0..(n - 1)
        BY <3>1
      <3> QED BY <3>1, <3>2, <1>7, <1>8
    <2> QED BY <2>1, <2>2
  <1>11. f = [m \in 0..n |-> f[m]]
    OBVIOUS
  <1> HIDE DEF f
  <1>12. Walk(exc, chain, n, f)
    BY <1>10, <1>11 DEF Walk
  <1> QED BY <1>12, <1>3

(* What has been seen of the chain: no exception twice, each after the one *)
(* that it is the cause or the context of.                                 *)
Linked(s, exc, chain) ==
    /\ s \in Seq(ExceptionsOf(chain)) /\ Len(s) >= 1 /\ s[1] = exc
    /\ \A i, j \in 1..Len(s) : s[i] = s[j] => i = j
    /\ \A i \in 2..Len(s) : s[i] = Successor(s[i - 1], chain)

(* One step more keeps the chain linked, and ends it or makes it longer by *)
(* one.                                                                    *)
LEMMA FollowLinks ==
    ASSUME NEW exc, NEW chain, IsChain(chain), NEW s, Linked(s, exc, chain)
    PROVE  /\ Linked(Follow(s, chain), exc, chain)
           /\ \/ Follow(s, chain) = s
              \/ Len(Follow(s, chain)) = Len(s) + 1
           /\ Follow(s, chain) = s =>
                 Successor(s[Len(s)], chain) \in ToSet(s) \cup {None}
  <1> DEFINE E == ExceptionsOf(chain)
             next == Successor(Last(s), chain)
             more == Append(s, next)
  <1>1. /\ s \in Seq(E) /\ Len(s) \in Nat /\ Len(s) >= 1 /\ s[1] = exc
        /\ \A i, j \in 1..Len(s) : s[i] = s[j] => i = j
        /\ \A i \in 2..Len(s) : s[i] = Successor(s[i - 1], chain)
    BY DEF Linked
  <1>2. Last(s) = s[Len(s)] /\ Last(s) \in E
    BY <1>1 DEF Last
  <1>3. next \in E \cup {None}
    BY <1>2 DEF IsChain, Successor
  <1>4. ToSet(s) = {s[i] : i \in 1..Len(s)}
    BY <1>1 DEF ToSet
  <1> HIDE DEF next, E
  <1>5. CASE next = None \/ next \in ToSet(s)
    <2>1. Follow(s, chain) = s
      BY <1>5 DEF Follow, next
    <2> QED BY <2>1, <1>2, <1>5 DEF next
  <1>6. CASE next # None /\ next \notin ToSet(s)
    <2>1. Follow(s, chain) = more
      BY <1>6 DEF Follow, next
    <2>2. next \in E
      BY <1>3, <1>6
    <2>3. /\ more \in Seq(E) /\ Len(more) = Len(s) + 1
          /\ \A i \in 1..Len(s) : more[i] = s[i]
          /\ more[Len(s) + 1] = next
      BY <1>1, <2>2
    <2> HIDE DEF more
    <2>4. \A i \in 1..Len(s) : s[i] # next
      BY <1>4, <1>6
    <2>5. \A i, j \in 1..Len(more) : more[i] = more[j] => i = j
      BY <1>1, <2>3, <2>4
    <2>6. \A i \in 2..Len(more) : more[i] = Successor(more[i - 1], chain)
      <3> SUFFICES ASSUME NEW i \in 2..Len(more)
                   PROVE  more[i] = Successor(more[i - 1], chain)
        OBVIOUS
      <3>1. i - 1 \in 1..Len(s) /\ (i \in 2..Len(s) \/ i = Len(s) + 1)
        BY <1>1, <2>3
      <3>2. more[i - 1] = s[i - 1]
        BY <3>1, <2>3
      <3>3. CASE i \in 2..Len(s)
        <4>1. more[i] = s[i]
          BY <3>3, <2>3
        <4> QED BY <4>1, <3>2, <3>3, <1>1
      <3>4. CASE i = Len(s) + 1
        <4>1. more[i] = next /\ i - 1 = Len(s)
          BY <3>4, <2>3, <1>1
        <4> QED BY <4>1, <3>2, <1>2 DEF next
      <3> QED BY <3>1, <3>3, <3>4
    <2>7. Linked(more, exc, chain)
      <3>1. Len(more) >= 1 /\ more[1] = exc
        BY <1>1, <2>3
      <3> QED BY <3>1, <2>3, <2>5, <2>6 DEF Linked, E
    <2>8. more # s
      BY <1>1, <2>3
    <2> QED BY <2>1, <2>3, <2>7, <2>8
  <1> QED BY <1>5, <1>6

(* There are no more exceptions in the chain than there are. *)
LEMMA LinkedIsShort ==
    ASSUME NEW exc, NEW chain, IsChain(chain), NEW s, Linked(s, exc, chain)
    PROVE  /\ Cardinality(ExceptionsOf(chain)) \in Nat
           /\ Len(s) <= Cardinality(ExceptionsOf(chain))
           /\ Cardinality(ToSet(s)) = Len(s)
  <1> DEFINE E == ExceptionsOf(chain)
             n == Len(s)
  <1>1. IsFiniteSet(E) /\ s \in Seq(E) /\ n \in Nat
    BY DEF IsChain, Linked
  <1>2. s \in [1..n -> E] /\ \A i, j \in 1..n : s[i] = s[j] => i = j
    BY DEF Linked
  <1>3. s \in Injection(1..n, E)
    BY <1>2, Fun_IsInj
  <1>4. IsFiniteSet(1..n) /\ Cardinality(1..n) = n
    <2> HIDE DEF n
    <2>1. 1 \in Int /\ n \in Int
      BY <1>1
    <2>2. /\ IsFiniteSet(1..n)
          /\ Cardinality(1..n) = IF 1 > n THEN 0 ELSE n - 1 + 1
      BY <2>1, FS_Interval
    <2> QED BY <2>2, <1>1
  <1>5. Cardinality(1..n) <= Cardinality(E)
    BY <1>1, <1>3, FS_Injection
  <1>6. Cardinality(ToSet(s)) = n
    <2>1. ToSet(s) = {s[i] : i \in 1..n}
      BY <1>2 DEF ToSet
    <2>2. s \in [1..n -> ToSet(s)] /\ \A x \in ToSet(s) : \E i \in 1..n : s[i] = x
      BY <2>1, <1>2
    <2> HIDE DEF n
    <2>3. s \in Bijection(1..n, ToSet(s))
      BY <2>2, <1>2, Fun_IsBij
    <2>4. ExistsBijection(1..n, ToSet(s))
      BY <2>3 DEF ExistsBijection
    <2> QED BY <2>4, <1>4, FS_Bijection
  <1>7. Cardinality(E) \in Nat
    BY <1>1, FS_CardinalityType
  <1> HIDE DEF n, E
  <1>8. n <= Cardinality(E)
    BY <1>4, <1>5
  <1> QED BY <1>6, <1>7, <1>8 DEF n, E

(* As many steps as there are exceptions take the chain to its end.        *)
LEMMA ChainEnds ==
    ASSUME NEW exc, NEW chain, IsChain(chain), exc \in ExceptionsOf(chain)
    PROVE  LET s == ChainedExceptions(exc, chain)
           IN  /\ Linked(s, exc, chain)
               /\ Successor(s[Len(s)], chain) \in ToSet(s) \cup {None}
  <1> DEFINE E == ExceptionsOf(chain)
             N == Cardinality(E)
             walk == CHOOSE f : f = [m \in 0..N |-> IF m = 0 THEN <<exc>>
                                                    ELSE Follow(f[m - 1], chain)]
             At(m) == /\ Linked(walk[m], exc, chain)
                      /\ Len(walk[m]) = m + 1 \/ Follow(walk[m], chain) = walk[m]
  <1>1. ChainedExceptions(exc, chain) = walk[N]
    BY DEF ChainedExceptions, ExceptionsOf
  <1>2. N \in Nat
    BY FS_CardinalityType DEF IsChain
  <1>3. \A m \in 0..N : walk[m] = IF m = 0 THEN <<exc>> ELSE Follow(walk[m - 1], chain)
    <2> HIDE DEF N
    <2>1. \E f : f = [m \in 0..N |-> IF m = 0 THEN <<exc>> ELSE Follow(f[m - 1], chain)]
      <3>1. PICK f : Walk(exc, chain, N, f)
        BY <1>2, WalkExists
      <3>2. f = [m \in 0..N |-> IF m = 0 THEN <<exc>> ELSE Follow(f[m - 1], chain)]
        BY <3>1 DEF Walk
      <3> QED BY <3>2
    <2>2. walk = [m \in 0..N |-> IF m = 0 THEN <<exc>> ELSE Follow(walk[m - 1], chain)]
      BY <2>1
    <2> HIDE DEF walk
    <2> QED BY <2>2
  <1> HIDE DEF walk, N
  <1>4. At(0)
    <2>1. walk[0] = <<exc>>
      BY <1>2, <1>3
    <2>2. Linked(<<exc>>, exc, chain)
      BY DEF Linked
    <2> QED BY <2>1, <2>2
  <1>5. ASSUME NEW m \in 1..N, At(m - 1)
        PROVE  At(m)
    <2>1. walk[m] = Follow(walk[m - 1], chain)
      BY <1>2, <1>3
    <2>2. Linked(walk[m], exc, chain)
      BY <1>5, <2>1, FollowLinks
    <2>3. CASE Follow(walk[m - 1], chain) = walk[m - 1]
      BY <2>1, <2>2, <2>3
    <2>4. CASE Follow(walk[m - 1], chain) # walk[m - 1]
      <3>1. Len(walk[m]) = Len(walk[m - 1]) + 1
        <4>1. Linked(walk[m - 1], exc, chain)
          BY <1>5
        <4>2. \/ Follow(walk[m - 1], chain) = walk[m - 1]
              \/ Len(Follow(walk[m - 1], chain)) = Len(walk[m - 1]) + 1
          BY <4>1, FollowLinks, Zenon
        <4> QED BY <4>2, <2>1, <2>4
      <3>2. Len(walk[m - 1]) = (m - 1) + 1
        BY <2>4, <1>5
      <3>3. Len(walk[m]) = m + 1
        BY <3>1, <3>2
      <3> QED BY <2>2, <3>3
    <2> QED BY <2>3, <2>4
  <1>6. At(N)
    <2> DEFINE T == {m \in 0..N : ~ At(m)}
    <2>1. SUFFICES ASSUME T # {}
                   PROVE  FALSE
      <3>1. N \in 0..N
        BY <1>2
      <3> HIDE DEF At
      <3> QED BY <3>1
    <2>2. T \subseteq Nat
      BY <1>2
    <2> HIDE DEF At
    <2>3. PICK m \in T : \A y \in T : m <= y
      <3> HIDE DEF T
      <3> QED BY <2>1, <2>2, Least
    <2>4. m \in 0..N /\ ~ At(m) /\ m # 0
      BY <2>3, <1>4
    <2>5. m \in 1..N /\ m - 1 \in 0..N /\ ~ (m <= m - 1)
      BY <2>4, <1>2
    <2>6. At(m - 1)
      BY <2>3, <2>5
    <2> QED BY <2>4, <2>5, <2>6, <1>5
  <1>7. Follow(walk[N], chain) = walk[N]
    <2>1. Len(walk[N]) <= N
      BY <1>6, LinkedIsShort DEF N
    <2>2. Len(walk[N]) # N + 1
      <3>1. Len(walk[N]) \in Nat
        BY <1>6 DEF Linked
      <3> QED BY <2>1, <3>1, <1>2
    <2> QED BY <2>2, <1>6
  <1>8. Successor(walk[N][Len(walk[N])], chain) \in ToSet(walk[N]) \cup {None}
    BY <1>6, <1>7, FollowLinks
  <1> QED BY <1>1, <1>6, <1>8

(* ChainFaithful of EventProperties, of any finite number of exceptions,   *)
(* whatever their causes and contexts are, cycles and repetitions among    *)
(* them: _chained_exceptions() comes to an end, and Exception.capture()    *)
(* reports each exception of the chain once, the innermost first.          *)
THEOREM ChainsEnd ==
    ASSUME Answered("chain") => /\ IsChain(input.chain)
                                /\ input.exc \in ExceptionsOf(input.chain)
                                /\ result = ExceptionValues(input.exc, input.chain)
    PROVE  ChainFaithful
  <1> DEFINE exc == input.exc
             chain == input.chain
             s == ChainedExceptions(exc, chain)
             n == Len(s)
  <1>1. SUFFICES ASSUME Answered("chain")
                 PROVE  ChainFaithful
    BY DEF ChainFaithful
  <1>2. IsChain(chain) /\ exc \in ExceptionsOf(chain) /\ result = Reverse(s)
    BY <1>1 DEF ExceptionValues
  <1> HIDE DEF exc, chain
  <1>3. Linked(s, exc, chain) /\ Successor(s[n], chain) \in ToSet(s) \cup {None}
    BY <1>2, ChainEnds
  <1> HIDE DEF s
  <1>4. /\ n \in Nat /\ n >= 1 /\ s[1] = exc /\ DOMAIN s = 1..n
        /\ \A i \in 2..n : s[i] = Successor(s[i - 1], chain)
    BY <1>3 DEF Linked
  <1>5. result = [i \in 1..n |-> s[(n - i) + 1]]
    BY <1>2 DEF Reverse
  <1>6. Len(result) = n
    BY <1>4, <1>5
  <1> HIDE DEF n
  <1>7. result[n] = exc /\ result[1] = s[n]
    BY <1>4, <1>5
  <1>8. ToSet(result) = ToSet(s)
    <2>1. \A i \in 1..n : n - i + 1 \in 1..n
      BY <1>4
    <2>2. ToSet(s) = {s[i] : i \in 1..n} /\ ToSet(result) = {s[n - i + 1] : i \in 1..n}
      BY <1>4, <1>5 DEF ToSet
    <2>3. ASSUME NEW i \in 1..n
          PROVE  s[i] \in {s[n - k + 1] : k \in 1..n}
      <3>1. n - i + 1 \in 1..n /\ n - (n - i + 1) + 1 = i
        BY <1>4
      <3> QED BY <3>1
    <2> QED BY <2>1, <2>2, <2>3
  <1>9. Cardinality(ToSet(result)) = n
    BY <1>2, <1>3, <1>8, LinkedIsShort DEF n
  <1>10. \A i \in 2..n : result[i - 1] = Successor(result[i], chain)
    <2> SUFFICES ASSUME NEW i \in 2..n
                 PROVE  result[i - 1] = Successor(result[i], chain)
      OBVIOUS
    <2>1. /\ i \in 1..n /\ i - 1 \in 1..n /\ n - i + 2 \in 2..n
          /\ n - (i - 1) + 1 = n - i + 2 /\ (n - i + 2) - 1 = n - i + 1
      BY <1>4
    <2>2. result[i] = s[n - i + 1] /\ result[i - 1] = s[n - i + 2]
      BY <2>1, <1>5
    <2> QED BY <2>1, <2>2, <1>4
  <1>11. Successor(result[1], chain) \in ToSet(result) \cup {None}
    BY <1>3, <1>7, <1>8 DEF n
  <1> QED BY <1>1, <1>6, <1>7, <1>9, <1>10, <1>11 DEF ChainFaithful, Successor, exc, chain

-----------------------------------------------------------------------------
(* get_lines_from_file(): the lines around the one of a frame. *)

(* s[a:b] where neither counts from the end. *)
LEMMA SliceOfNats ==
    ASSUME NEW n \in Nat, NEW a \in Nat, NEW b \in Nat
    PROVE  Slice(n, a, b) = {k \in 0..(n - 1) : a <= k /\ k < b}
  <1> DEFINE from == IF a < 0 THEN Max({n + a, 0}) ELSE Min({a, n})
             to == IF b < 0 THEN Max({n + b, 0}) ELSE Min({b, n})
  <1>1. from = (IF a <= n THEN a ELSE n) /\ to = (IF b <= n THEN b ELSE n)
    BY MinTwo
  <1>2. Slice(n, a, b) = {k \in 0..(n - 1) : from <= k /\ k < to}
    BY DEF Slice
  <1> HIDE DEF from, to
  <1>3. \A k \in 0..(n - 1) : from <= k /\ k < to <=> a <= k /\ k < b
    BY <1>1
  <1> QED BY <1>2, <1>3

(* A frame shows its own line and, of those that the source has, all that  *)
(* are as close as it asks for; of a source that ends before, nothing,     *)
(* even if the lines before its own are there (FrameFaithful).             *)
THEOREM LinesAround ==
    ASSUME NEW n \in Nat, NEW lineno \in Nat, NEW contextLines \in Nat
    PROVE  GetLinesFromFile(n, lineno, contextLines) =
             IF lineno \in 0..(n - 1)
               THEN [pre |-> {k \in 0..(n - 1) : lineno - contextLines <= k /\ k < lineno},
                     line |-> lineno,
                     post |-> {k \in 0..(n - 1) : lineno < k /\ k <= lineno + contextLines}]
               ELSE NoLines
  <1> DEFINE lower == Max({0, lineno - contextLines})
             upper == Min({lineno + 1 + contextLines, n})
  <1>1. lower = IF lineno - contextLines <= 0 THEN 0 ELSE lineno - contextLines
    <2>1. 0 \in Int /\ lineno - contextLines \in Int
      OBVIOUS
    <2>2. lower = IF 0 >= lineno - contextLines THEN 0 ELSE lineno - contextLines
      BY <2>1, MaxTwo
    <2> QED BY <2>1, <2>2
  <1>2. upper = IF lineno + 1 + contextLines <= n THEN lineno + 1 + contextLines ELSE n
    <2>1. lineno + 1 + contextLines \in Int /\ n \in Int
      OBVIOUS
    <2> QED BY <2>1, MinTwo
  <1>3. GetLinesFromFile(n, lineno, contextLines) =
            IF lineno >= n THEN NoLines
            ELSE [pre |-> Slice(n, lower, lineno), line |-> lineno,
                  post |-> Slice(n, lineno + 1, upper)]
    BY DEF GetLinesFromFile
  <1> HIDE DEF lower, upper
  <1>4. lower \in Nat /\ upper \in Nat
    BY <1>1, <1>2
  <1>5. Slice(n, lower, lineno) =
            {k \in 0..(n - 1) : lineno - contextLines <= k /\ k < lineno}
    <2>1. \A k \in 0..(n - 1) : lower <= k <=> lineno - contextLines <= k
      BY <1>1
    <2>2. Slice(n, lower, lineno) = {k \in 0..(n - 1) : lower <= k /\ k < lineno}
      BY <1>4, SliceOfNats
    <2> QED BY <2>1, <2>2
  <1>6. Slice(n, lineno + 1, upper) =
            {k \in 0..(n - 1) : lineno < k /\ k <= lineno + contextLines}
    <2>1. \A k \in 0..(n - 1) : lineno + 1 <= k /\ k < upper <=>
                                lineno < k /\ k <= lineno + contextLines
      BY <1>2
    <2>2. Slice(n, lineno + 1, upper) = {k \in 0..(n - 1) : lineno + 1 <= k /\ k < upper}
      BY <1>4, SliceOfNats
    <2> QED BY <2>1, <2>2
  <1>7. lineno \in 0..(n - 1) <=> ~ lineno >= n
    OBVIOUS
  <1> QED BY <1>3, <1>5, <1>6, <1>7

-----------------------------------------------------------------------------
(* Each step is of the question that the input asks, and keeps the input. *)

(* The question that an action answers. *)
LEMMA Questions ==
    /\ Slim => input.do = "slim" /\ input' = input
    /\ Trace => input.do = "trace" /\ input' = input
    /\ Chain => input.do = "chain" /\ input' = input
    /\ PlaceModule => input.do = "in_app" /\ input' = input
    /\ Target => input.do = "target" /\ input' = input
    /\ ReadTemplate => input.do = "template" /\ input' = input
    /\ BuildEvent => input.do = "build" /\ input' = input
    /\ Read => input.do = "read" /\ input' = input
    /\ ReadRest => input.do = "rest" /\ input' = input
    /\ NotFound => input.do = "404" /\ input' = input
    /\ ReadLambda => input.do = "lambda" /\ input' = input
    /\ ReadEnviron => input.do = "environ" /\ input' = input
    /\ ReadHost => input.do = "host" /\ input' = input
    /\ ResolveFirst => input.do = "resolve" /\ input' = input
    /\ ResolveNext => input.do = "resolve" /\ input' = input
    /\ LogFirst => input.do = "log" /\ input' = input
    /\ LogSetup => input.do = "log" /\ input' = input
    /\ LogCalled => input.do = "log" /\ input' = input
    /\ LogEmit => input.do = "log" /\ input' = input
    /\ LogReturn => input.do = "log" /\ input' = input
    /\ Extract => input.do = "extract" /\ input' = input
    /\ CeleryFirst => input.do = "celery" /\ input' = input
    /\ CelerySetup => input.do = "celery" /\ input' = input
    /\ HttpFirst => input.do = "http" /\ input' = input
    /\ HttpNext => input.do = "http" /\ input' = input
    /\ ProcessLog => input.do = "record" /\ input' = input
    /\ HookFirst => input.do = "hook" /\ input' = input
    /\ HookNext => input.do = "hook" /\ input' = input
    /\ HookReturn => input.do = "hook" /\ input' = input
    /\ RunQuery => input.do = "query" /\ input' = input
    /\ AppsFirst => input.do = "apps" /\ input' = input
    /\ AppsNext => input.do = "apps" /\ input' = input
    /\ InitializeFirst => input.do = "initialize" /\ input' = input
    /\ InitializeNext => input.do = "initialize" /\ input' = input
    /\ RegisterFirst => input.do = "register" /\ input' = input
    /\ RegisterNext => input.do = "register" /\ input' = input
    /\ RegisterReturn => input.do = "register" /\ input' = input
    /\ DsnFirst => input.do = "dsn" /\ input' = input
    /\ DsnNext => input.do = "dsn" /\ input' = input
    /\ ConfigureOption => input.do = "option" /\ input' = input
  <1>1. Slim => input.do = "slim" /\ input' = input
    BY DEF Slim, Asked, Answer
  <1>2. Trace => input.do = "trace" /\ input' = input
    BY DEF Trace, Asked, Answer
  <1>3. Chain => input.do = "chain" /\ input' = input
    BY DEF Chain, Asked, Answer
  <1>4. PlaceModule => input.do = "in_app" /\ input' = input
    BY DEF PlaceModule, Asked, Answer
  <1>5. Target => input.do = "target" /\ input' = input
    BY DEF Target, Asked, Answer
  <1>6. ReadTemplate => input.do = "template" /\ input' = input
    BY DEF ReadTemplate, Asked, Answer
  <1>7. BuildEvent => input.do = "build" /\ input' = input
    BY DEF BuildEvent, Asked, Answer
  <1>8. Read => input.do = "read" /\ input' = input
    BY DEF Read, Asked, Answer
  <1>9. ReadRest => input.do = "rest" /\ input' = input
    BY DEF ReadRest, Asked, Answer
  <1>10. NotFound => input.do = "404" /\ input' = input
    BY DEF NotFound, Asked, Answer
  <1>11. ReadLambda => input.do = "lambda" /\ input' = input
    BY DEF ReadLambda, Asked, Answer
  <1>12. ReadEnviron => input.do = "environ" /\ input' = input
    BY DEF ReadEnviron, Asked, Answer
  <1>13. ReadHost => input.do = "host" /\ input' = input
    BY DEF ReadHost, Asked, Answer
  <1>14. ResolveFirst => input.do = "resolve" /\ input' = input
    BY DEF ResolveFirst, Asked, Answer
  <1>15. ResolveNext => input.do = "resolve" /\ input' = input
    BY DEF ResolveNext, Going, Answer
  <1>16. LogFirst => input.do = "log" /\ input' = input
    BY DEF LogFirst, Asked, Answer
  <1>17. LogSetup => input.do = "log" /\ input' = input
    BY DEF LogSetup, Going, Answer
  <1>18. LogCalled => input.do = "log" /\ input' = input
    BY DEF LogCalled, Going, Answer
  <1>19. LogEmit => input.do = "log" /\ input' = input
    BY DEF LogEmit, Going, Answer
  <1>20. LogReturn => input.do = "log" /\ input' = input
    BY DEF LogReturn, Going, Answer
  <1>21. Extract => input.do = "extract" /\ input' = input
    BY DEF Extract, Asked, Answer
  <1>22. CeleryFirst => input.do = "celery" /\ input' = input
    BY DEF CeleryFirst, Asked, Answer
  <1>23. CelerySetup => input.do = "celery" /\ input' = input
    BY DEF CelerySetup, Going, Answer
  <1>24. HttpFirst => input.do = "http" /\ input' = input
    BY DEF HttpFirst, Asked, Answer
  <1>25. HttpNext => input.do = "http" /\ input' = input
    BY DEF HttpNext, Going, Answer
  <1>26. ProcessLog => input.do = "record" /\ input' = input
    BY DEF ProcessLog, Asked, Answer
  <1>27. HookFirst => input.do = "hook" /\ input' = input
    BY DEF HookFirst, Asked, Answer
  <1>28. HookNext => input.do = "hook" /\ input' = input
    BY DEF HookNext, Going, Answer
  <1>29. HookReturn => input.do = "hook" /\ input' = input
    BY DEF HookReturn, Going, Answer
  <1>30. RunQuery => input.do = "query" /\ input' = input
    BY DEF RunQuery, Asked, Answer
  <1>31. AppsFirst => input.do = "apps" /\ input' = input
    BY DEF AppsFirst, Asked, Answer
  <1>32. AppsNext => input.do = "apps" /\ input' = input
    BY DEF AppsNext, Going, Answer
  <1>33. InitializeFirst => input.do = "initialize" /\ input' = input
    BY DEF InitializeFirst, Asked, Answer
  <1>34. InitializeNext => input.do = "initialize" /\ input' = input
    BY DEF InitializeNext, Going, Answer
  <1>35. RegisterFirst => input.do = "register" /\ input' = input
    BY DEF RegisterFirst, Asked, Answer
  <1>36. RegisterNext => input.do = "register" /\ input' = input
    BY DEF RegisterNext, Going, Answer
  <1>37. RegisterReturn => input.do = "register" /\ input' = input
    BY DEF RegisterReturn, Going, Answer
  <1>38. DsnFirst => input.do = "dsn" /\ input' = input
    BY DEF DsnFirst, Asked, Answer
  <1>39. DsnNext => input.do = "dsn" /\ input' = input
    BY DEF DsnNext, Going, Answer
  <1>40. ConfigureOption => input.do = "option" /\ input' = input
    BY DEF ConfigureOption, Asked, Answer
  <1> QED
    BY <1>1, <1>2, <1>3, <1>4, <1>5, <1>6, <1>7, <1>8, <1>9, <1>10, <1>11,
       <1>12, <1>13, <1>14, <1>15, <1>16, <1>17, <1>18, <1>19, <1>20, <1>21,
       <1>22, <1>23, <1>24, <1>25, <1>26, <1>27, <1>28, <1>29, <1>30, <1>31,
       <1>32, <1>33, <1>34, <1>35, <1>36, <1>37, <1>38, <1>39, <1>40

(* No step changes the input. *)
LEMMA InputStays ==
    ASSUME [Next]_vars
    PROVE  input' = input
  <1>1. CASE Next
    BY <1>1, Questions, Zenon DEF Next
  <1>2. CASE UNCHANGED vars
    BY <1>2 DEF vars
  <1> QED BY <1>1, <1>2

(* A sequence of anything. *)
IsSeq(s) == \E S : s \in Seq(S)

(* What is appended is the last, and all else stays where it is. *)
LEMMA Grown ==
    ASSUME NEW s, IsSeq(s), NEW x
    PROVE  /\ IsSeq(Append(s, x)) /\ Len(s) \in Nat /\ DOMAIN s = 1..Len(s)
           /\ Len(Append(s, x)) = Len(s) + 1
           /\ DOMAIN Append(s, x) = 1..(Len(s) + 1)
           /\ Append(s, x)[Len(s) + 1] = x
           /\ \A i \in 1..Len(s) : Append(s, x)[i] = s[i]
  <1>1. PICK S : s \in Seq(S)
    BY DEF IsSeq
  <1>2. s \in Seq(S \cup {x})
    BY <1>1
  <1>3. Append(s, x) \in Seq(S \cup {x})
    BY <1>2
  <1> QED BY <1>2, <1>3 DEF IsSeq

(* A sequence of one. *)
LEMMA IsOne ==
    ASSUME NEW x
    PROVE  IsSeq(<<x>>) /\ Len(<<x>>) = 1 /\ <<x>>[1] = x
  <1>1. <<x>> \in Seq({x})
    OBVIOUS
  <1> QED BY <1>1 DEF IsSeq

(* What a dictionary has once a key has been put into it. *)
LEMMA PutIs ==
    ASSUME NEW dict, NEW key, NEW value
    PROVE  /\ DOMAIN Put(dict, key, value) = DOMAIN dict \cup {key}
           /\ Put(dict, key, value)[key] = value
           /\ \A k \in DOMAIN dict : k # key => Put(dict, key, value)[k] = dict[k]
  BY DEF Put

(* The least member of a set of naturals. *)
LEMMA MinIs ==
    ASSUME NEW T, T \subseteq Nat, T # {}
    PROVE  Min(T) \in T /\ \A y \in T : Min(T) <= y
  <1>1. \E x \in T : \A y \in T : x <= y
    BY Least
  <1> QED BY <1>1 DEF Min

(* A dictionary that has grown, or not. *)
Extends(after, before) ==
    \A key \in DOMAIN before : key \in DOMAIN after /\ after[key] = before[key]

-----------------------------------------------------------------------------
(* Stacks *)

(* The sum of some sizes, or of those that fit, as far as it has come. *)
Added(sizes, limit, kept, fitting, m, sum) ==
    IF fitting THEN IF sum + sizes[m] < limit THEN sum + sizes[m] ELSE sum
    ELSE sum + (IF m \in kept THEN sizes[m] ELSE 0)
Sums(sizes, limit, kept, fitting, n, f) ==
    f = [m \in 0..n |-> IF m = 0 THEN 0 ELSE Added(sizes, limit, kept, fitting, m, f[m - 1])]

(* There are such sums. *)
LEMMA SumsExist ==
    ASSUME NEW sizes, NEW limit, NEW kept, NEW fitting, NEW N \in Nat
    PROVE  \E f : Sums(sizes, limit, kept, fitting, N, f)
  <1> DEFINE Is(n, f) == Sums(sizes, limit, kept, fitting, n, f)
             After(m, sum) == Added(sizes, limit, kept, fitting, m, sum)
             T == {n \in Nat : ~ \E f : Is(n, f)}
  <1>1. \A n, f : Is(n, f) <=> f = [m \in 0..n |-> IF m = 0 THEN 0 ELSE After(m, f[m - 1])]
    BY DEF Sums
  <1> HIDE DEF Is, After
  <1>2. SUFFICES ASSUME T # {}
                 PROVE  FALSE
    BY Zenon DEF Is
  <1>3. PICK n \in T : \A y \in T : n <= y
    <2>1. T \subseteq Nat
      OBVIOUS
    <2> HIDE DEF T
    <2> QED BY <1>2, <2>1, Least
  <1>4. n \in Nat /\ ~ \E f : Is(n, f)
    BY <1>3
  <1>5. n # 0
    <2> DEFINE f == [m \in 0..0 |-> 0]
    <2>1. f = [m \in 0..0 |-> IF m = 0 THEN 0 ELSE After(m, f[m - 1])]
      OBVIOUS
    <2> HIDE DEF f
    <2>2. Is(0, f)
      BY <1>1, <2>1
    <2> QED BY <2>2, <1>4
  <1>6. n - 1 \in Nat /\ n - 1 \notin T
    BY <1>3, <1>4, <1>5
  <1>7. PICK g : Is(n - 1, g)
    BY <1>6
  <1> DEFINE f == [m \in 0..n |-> IF m = n THEN After(n, g[n - 1]) ELSE g[m]]
  <1>8. \A m \in 0..(n - 1) : g[m] = IF m = 0 THEN 0 ELSE After(m, g[m - 1])
    BY <1>1, <1>7
  <1>9. /\ \A m \in 0..(n - 1) : f[m] = g[m]
        /\ f[n] = After(n, g[n - 1])
        /\ f = [m \in 0..n |-> f[m]]
    BY <1>4
  <1> HIDE DEF f
  <1>10. \A m \in 0..n : f[m] = IF m = 0 THEN 0 ELSE After(m, f[m - 1])
    <2> SUFFICES ASSUME NEW m \in 0..n
                 PROVE  f[m] = IF m = 0 THEN 0 ELSE After(m, f[m - 1])
      OBVIOUS
    <2>1. CASE m = n
      <3>1. f[n - 1] = g[n - 1]
        BY <1>4, <1>5, <1>9
      <3> QED BY <2>1, <3>1, <1>5, <1>9
    <2>2. CASE m # n
      <3>1. m \in 0..(n - 1) /\ (m # 0 => m - 1 \in 0..(n - 1))
        BY <2>2, <1>4
      <3> QED BY <3>1, <1>8, <1>9
    <2> QED BY <2>1, <2>2
  <1>11. Is(n, f)
    BY <1>1, <1>9, <1>10
  <1> QED BY <1>4, <1>11

(* The variables that are kept fit. *)
LEMMA KeptFit ==
    ASSUME NEW sizes \in Seq(Nat), sizes # None, NEW limit \in Nat \ {0}
    PROVE  TotalSize(sizes, GetFrameLocals(sizes, limit)) < limit
  <1> DEFINE N == Len(sizes)
             size == CHOOSE f : f = [i \in 0..N |->
                        IF i = 0 THEN 0
                        ELSE IF f[i - 1] + sizes[i] < limit THEN f[i - 1] + sizes[i]
                        ELSE f[i - 1]]
             kept == {i \in DOMAIN sizes : size[i - 1] + sizes[i] < limit}
             total == CHOOSE f : f = [i \in 0..N |->
                        IF i = 0 THEN 0 ELSE f[i - 1] + (IF i \in kept THEN sizes[i] ELSE 0)]
  <1>1. N \in Nat /\ DOMAIN sizes = 1..N
    OBVIOUS
  <1>2. GetFrameLocals(sizes, limit) = kept
    BY DEF GetFrameLocals
  <1>3. \A i \in 0..N : size[i] = IF i = 0 THEN 0
                                  ELSE IF size[i - 1] + sizes[i] < limit
                                  THEN size[i - 1] + sizes[i] ELSE size[i - 1]
    <2>1. \E f : f = [i \in 0..N |->
                        IF i = 0 THEN 0
                        ELSE IF f[i - 1] + sizes[i] < limit THEN f[i - 1] + sizes[i]
                        ELSE f[i - 1]]
      <3>1. PICK f : Sums(sizes, limit, {}, TRUE, N, f)
        BY <1>1, SumsExist, Zenon
      <3>2. f = [i \in 0..N |->
                        IF i = 0 THEN 0
                        ELSE IF f[i - 1] + sizes[i] < limit THEN f[i - 1] + sizes[i]
                        ELSE f[i - 1]]
        BY <3>1 DEF Sums, Added
      <3> QED BY <3>2
    <2>2. size = [i \in 0..N |->
                        IF i = 0 THEN 0
                        ELSE IF size[i - 1] + sizes[i] < limit THEN size[i - 1] + sizes[i]
                        ELSE size[i - 1]]
      BY <2>1
    <2> HIDE DEF size
    <2> QED BY <2>2
  <1> HIDE DEF size
  <1>4. TotalSize(sizes, kept) = total[N]
    BY DEF TotalSize
  <1>5. \A i \in 0..N : total[i] = IF i = 0 THEN 0
                                   ELSE total[i - 1] + (IF i \in kept THEN sizes[i] ELSE 0)
    <2> HIDE DEF kept
    <2>1. \E f : f = [i \in 0..N |->
                        IF i = 0 THEN 0 ELSE f[i - 1] + (IF i \in kept THEN sizes[i] ELSE 0)]
      <3>1. PICK f : Sums(sizes, limit, kept, FALSE, N, f)
        BY <1>1, SumsExist, Zenon
      <3>2. f = [i \in 0..N |->
                        IF i = 0 THEN 0 ELSE f[i - 1] + (IF i \in kept THEN sizes[i] ELSE 0)]
        BY <3>1 DEF Sums, Added
      <3> QED BY <3>2
    <2>2. total = [i \in 0..N |->
                     IF i = 0 THEN 0 ELSE total[i - 1] + (IF i \in kept THEN sizes[i] ELSE 0)]
      BY <2>1
    <2> HIDE DEF total
    <2> QED BY <2>2
  <1> HIDE DEF total
  <1>6. \A i \in 1..N : i \in kept <=> size[i - 1] + sizes[i] < limit
    BY <1>1
  <1> HIDE DEF kept
  <1> DEFINE Fits(i) == size[i] \in Nat /\ total[i] = size[i] /\ size[i] < limit
             T == {i \in 0..N : ~ Fits(i)}
  <1>7. Fits(0)
    BY <1>1, <1>3, <1>5
  <1>8. ASSUME NEW i \in 1..N, Fits(i - 1)
        PROVE  Fits(i)
    <2>1. i \in 0..N /\ i # 0 /\ sizes[i] \in Nat
      BY <1>1
    <2>2. size[i] = IF size[i - 1] + sizes[i] < limit THEN size[i - 1] + sizes[i]
                    ELSE size[i - 1]
      BY <1>3, <2>1
    <2>3. total[i] = total[i - 1] + (IF size[i - 1] + sizes[i] < limit THEN sizes[i] ELSE 0)
      BY <1>5, <1>6, <2>1
    <2> QED BY <1>8, <2>1, <2>2, <2>3
  <1> HIDE DEF Fits
  <1>9. T = {}
    <2>1. SUFFICES ASSUME T # {}
                   PROVE  FALSE
      OBVIOUS
    <2>2. PICK i \in T : \A j \in T : i <= j
      <3>1. T \subseteq Nat
        BY <1>1
      <3> HIDE DEF T
      <3> QED BY <2>1, <3>1, Least
    <2>3. i \in 1..N /\ i - 1 \in 0..N /\ ~ (i <= i - 1)
      BY <1>1, <1>7, <2>2
    <2>4. Fits(i - 1)
      BY <2>2, <2>3
    <2> QED BY <1>8, <2>2, <2>3, <2>4
  <1>10. Fits(N)
    BY <1>1, <1>9
  <1> QED BY <1>2, <1>4, <1>10 DEF Fits

(* What an event shows of a frame that has a line number. *)
LEMMA FrameShown ==
    ASSUME NEW frame \in Frame, frame.lineno # None
    PROVE  FrameFaithful(FrameResult(frame, ContextLines, MaxVarSize), frame)
  <1> DEFINE lineno == IF frame.lineno = 0 THEN 0 ELSE frame.lineno - 1
             n == IF frame.loader = "source" THEN frame.source ELSE frame.cached
             lines == IF ~ frame.path THEN NoLines
                      ELSE GetLinesFromFile(n, lineno, ContextLines)
             locals == GetFrameLocals(frame.locals, MaxVarSize)
             shown == FrameResult(frame, ContextLines, MaxVarSize)
  <1>1. /\ frame.lineno \in Nat /\ frame.locals \in Seq(Nat) \cup {None}
        /\ frame.source \in Nat /\ frame.cached \in Nat
        /\ ContextLines \in Nat /\ MaxVarSize \in Nat \ {0} /\ None \notin Nat
    BY LimitsAssumption, NoneAssumption DEF Frame
  <1>2. lineno \in Nat /\ n \in Nat
    BY <1>1
  <1>3. shown = [of |-> frame, lineno |-> lineno + 1, lines |-> lines, vars |-> locals]
    BY DEF FrameResult, SourceLength
  <1>4. shown.of = frame /\ shown.lineno = lineno + 1 /\ shown.lines = lines /\ shown.vars = locals
    <2> HIDE DEF lineno, lines, locals, shown
    <2> QED BY <1>3
  <1>5. frame.lineno > 0 => lineno + 1 = frame.lineno
    BY <1>1
  <1>6. \/ lines = NoLines
        \/ /\ lineno \in 0..(n - 1) /\ lines.line = lineno
           /\ lines.pre = {k \in 0..(n - 1) : lineno - ContextLines <= k /\ k < lineno}
           /\ lines.post = {k \in 0..(n - 1) : lineno < k /\ k <= lineno + ContextLines}
    <2> HIDE DEF lineno, n
    <2>1. GetLinesFromFile(n, lineno, ContextLines) =
             IF lineno \in 0..(n - 1)
               THEN [pre |-> {k \in 0..(n - 1) : lineno - ContextLines <= k /\ k < lineno},
                     line |-> lineno,
                     post |-> {k \in 0..(n - 1) : lineno < k /\ k <= lineno + ContextLines}]
               ELSE NoLines
      BY <1>1, <1>2, LinesAround
    <2> QED BY <2>1
  <1>7. frame.locals = None => locals = {}
    BY DEF GetFrameLocals
  <1>8. frame.locals # None => TotalSize(frame.locals, locals) < MaxVarSize
    BY <1>1, KeptFit
  <1> HIDE DEF lineno, n, lines, locals, shown
  <1> DEFINE line == lines.line
             around == lines.pre \cup lines.post
             all == around \cup (IF line = None THEN {} ELSE {line})
  <1>9. /\ line # None => line = lineno
        /\ line = None => around = {}
        /\ \A i \in lines.pre : i < line
        /\ \A i \in lines.post : i > line
        /\ all \subseteq 0..(n - 1)
        /\ \A i, j \in all : (i - j) <= 2 * ContextLines /\ (i..j) \subseteq all
    <2>1. CASE lines = NoLines
      BY <2>1 DEF NoLines
    <2>2. CASE /\ lineno \in 0..(n - 1) /\ lines.line = lineno
               /\ lines.pre = {k \in 0..(n - 1) : lineno - ContextLines <= k /\ k < lineno}
               /\ lines.post = {k \in 0..(n - 1) : lineno < k /\ k <= lineno + ContextLines}
      <3>1. line # None
        BY <1>1, <1>2, <2>2
      <3>2. all = {k \in 0..(n - 1) : lineno - ContextLines <= k /\ k <= lineno + ContextLines}
        BY <1>1, <1>2, <2>2, <3>1
      <3>3. \A i, j \in all : (i - j) <= 2 * ContextLines /\ (i..j) \subseteq all
        <4> HIDE DEF all
        <4>1. \A i, j \in all : (i - j) <= 2 * ContextLines
          BY <1>1, <1>2, <3>2
        <4>2. \A i, j \in all : \A k \in i..j : k \in all
          BY <1>1, <1>2, <3>2
        <4> QED BY <4>1, <4>2
      <3>4. \A i \in lines.pre : i < line
        BY <2>2
      <3>5. \A i \in lines.post : i > line
        BY <1>2, <2>2
      <3>6. all \subseteq 0..(n - 1)
        BY <3>2
      <3> QED BY <2>2, <3>1, <3>3, <3>4, <3>5, <3>6
    <2> QED BY <1>6, <2>1, <2>2
  <1>10. line # None => line + 1 = shown.lineno
    BY <1>4, <1>9
  <1>11. frame.lineno > 0 => shown.lineno = frame.lineno
    BY <1>4, <1>5
  <1> QED BY <1>4, <1>7, <1>8, <1>9, <1>10, <1>11, Zenon DEF FrameFaithful, n, shown

(* The stack that is shown of a traceback. *)
LEMMA TraceStep ==
    ASSUME StackInput, FramesShown, [Next]_vars
    PROVE  FramesShown'
  <1>1. input' = input
    BY InputStays
  <1>2. CASE input.do # "trace" \/ UNCHANGED vars
    BY <1>1, <1>2 DEF FramesShown, Answered, vars
  <1>3. CASE Trace
    <2> DEFINE frames == input.frames
               visible == {i \in DOMAIN frames : frames[i].hide => frames[i].locals = None}
               new == GetStackInfo(frames, ContextLines, MaxVarSize, input.allowance)
    <2>1. result' = new /\ input.do = "trace"
      BY <1>3, Zenon DEF Trace, Answer, Asked
    <2>2. frames \in Seq(Frame)
      BY <2>1 DEF StackInput
    <2>3. visible = IterFrames(frames)
      BY DEF IterFrames, Hidden
    <2>4. \A i \in visible : frames[i] \in Frame
      BY <2>2
    <2> HIDE DEF visible
    <2>5. CASE \E i \in visible : frames[i].lineno = None
      <3>1. new.frames = None
        BY <2>3, <2>5 DEF GetStackInfo
      <3> HIDE DEF new
      <3> QED BY <1>1, <2>1, <2>5, <3>1, Zenon DEF FramesShown, visible
    <2>6. CASE ~ \E i \in visible : frames[i].lineno = None
      <3> DEFINE shown == [i \in visible |-> FrameResult(frames[i], ContextLines, MaxVarSize)]
      <3>1. new.frames = shown
        <4>1. new = [frames |-> shown,
                     slim |-> SlimFrameData([i \in 1..Cardinality(visible) |-> FALSE],
                                            input.allowance)]
          BY <2>3, <2>6, Zenon DEF GetStackInfo
        <4> HIDE DEF shown, new
        <4> QED BY <4>1
      <3>2. \A i \in visible : FrameFaithful(shown[i], frames[i])
        <4>1. SUFFICES ASSUME NEW i \in visible
                       PROVE  FrameFaithful(shown[i], frames[i])
          OBVIOUS
        <4>2. shown[i] = FrameResult(frames[i], ContextLines, MaxVarSize)
          BY Zenon
        <4> QED BY <2>4, <2>6, <4>2, FrameShown, Zenon
      <3>3. DOMAIN shown = visible
        BY Zenon
      <3> HIDE DEF shown, new
      <3> QED BY <1>1, <2>1, <2>6, <3>1, <3>2, <3>3, Zenon DEF FramesShown, visible
    <2> QED BY <2>5, <2>6
  <1>4. [Next]_vars /\ input.do = "trace" => UNCHANGED vars \/ Trace
    BY Questions DEF Next
  <1> QED BY <1>2, <1>3, <1>4

(* The greatest member of some of the first naturals. *)
LEMMA MaxIs ==
    ASSUME NEW N \in Nat, NEW T, T \subseteq 0..N, T # {}
    PROVE  Max(T) \in T
  <1> DEFINE U == {N - x : x \in T}
  <1>1. U \subseteq Nat /\ U # {}
    <2>1. \A x \in T : N - x \in Nat
      OBVIOUS
    <2> QED BY <2>1
  <1>2. PICK u \in U : \A y \in U : u <= y
    <2> HIDE DEF U
    <2> QED BY <1>1, Least
  <1>3. PICK x \in T : u = N - x
    BY <1>2
  <1>4. \A y \in T : x >= y
    <2> TAKE y \in T
    <2>1. N - x <= N - y
      BY <1>2, <1>3
    <2>2. x \in 0..N /\ y \in 0..N
      OBVIOUS
    <2> HIDE DEF U
    <2> QED BY <2>1, <2>2
  <1> HIDE DEF U
  <1> QED BY <1>3, <1>4 DEF Max

(* The line that holds the error of a template. *)
LEMMA LineFound ==
    ASSUME NEW breaks \in Seq(Nat), NEW start \in Nat, NEW end \in Nat
    PROVE  LET ends == <<0>> \o breaks
               at == TemplateLine(breaks, start, end)
           IN  \/ /\ at \in DOMAIN breaks /\ at \in Nat
                  /\ ends[at] <= start /\ end <= ends[at + 1]
               \/ /\ at = None
                  /\ ~ \E n \in DOMAIN breaks : ends[n] <= start /\ end <= ends[n + 1]
  <1> DEFINE ends == <<0>> \o breaks
             upto(n) == IF n = 1 THEN 0 ELSE breaks[n - 1]
             lines == {n \in DOMAIN breaks : start >= upto(n) /\ end <= breaks[n]}
             at == TemplateLine(breaks, start, end)
  <1>1. at = IF lines = {} THEN None ELSE Max(lines)
    BY Zenon DEF TemplateLine
  <1>2. Len(breaks) \in Nat /\ DOMAIN breaks = 1..Len(breaks)
    OBVIOUS
  <1>3. \A n \in DOMAIN breaks : ends[n] = upto(n) /\ ends[n + 1] = breaks[n] /\ upto(n) \in Nat
    OBVIOUS
  <1>4. \A n \in DOMAIN breaks : n \in lines <=> ends[n] <= start /\ end <= ends[n + 1]
    BY <1>2, <1>3
  <1>5. lines \subseteq 0..Len(breaks) /\ lines \subseteq DOMAIN breaks
    BY <1>2
  <1> HIDE DEF lines, ends
  <1>6. lines # {} => Max(lines) \in lines
    BY <1>2, <1>5, MaxIs, Zenon
  <1> HIDE DEF at
  <1>7. CASE lines = {}
    BY <1>1, <1>4, <1>7 DEF at, ends
  <1>8. CASE lines # {}
    <2>1. at \in DOMAIN breaks /\ ends[at] <= start /\ end <= ends[at + 1]
      BY <1>1, <1>4, <1>5, <1>6, <1>8
    <2>2. at \in Nat
      BY <1>2, <2>1
    <2> QED BY <2>1, <2>2, Zenon DEF at, ends
  <1> QED BY <1>7, <1>8

(* A template's line is the one that its token is in. *)
LEMMA TemplateStep ==
    ASSUME StackInput, TemplateShown, [Next]_vars
    PROVE  TemplateShown'
  <1>1. input' = input
    BY InputStays
  <1>2. CASE input.do # "template" \/ UNCHANGED vars
    BY <1>1, <1>2 DEF TemplateShown, Answered, vars
  <1>3. CASE ReadTemplate
    <2> DEFINE count == Len(input.breaks)
               ends == <<0>> \o input.breaks
               at == TemplateLine(input.breaks, input.start, input.end)
               new == TemplateContext(count, at)
    <2>1. result' = new /\ input.do = "template"
      BY <1>3, Zenon DEF ReadTemplate, Answer, Asked
    <2>2. input.breaks \in Seq(Nat) /\ input.start \in Nat /\ input.end \in Nat
      BY <2>1 DEF StackInput
    <2>3. \/ /\ at \in DOMAIN input.breaks /\ at \in Nat
             /\ ends[at] <= input.start /\ input.end <= ends[at + 1]
          \/ /\ at = None
             /\ ~ \E n \in DOMAIN input.breaks :
                     ends[n] <= input.start /\ input.end <= ends[n + 1]
      BY <2>2, LineFound, Zenon
    <2>4. count \in Nat /\ count + 1 \in Nat
      BY <2>2
    <2> HIDE DEF at, ends, count
    <2>5. at = None => new = NoLines
      BY DEF TemplateContext
    <2>6. at # None /\ at \in Nat =>
             /\ new.line = at
             /\ \A i \in new.pre : i < at
             /\ \A i \in new.post : at < i
      <3>1. SUFFICES ASSUME at # None, at \in Nat
                     PROVE  /\ new.line = at
                            /\ \A i \in new.pre : i < at
                            /\ \A i \in new.post : at < i
        OBVIOUS
      <3> DEFINE lower == Max({at - 3, 0})
                 pre == Slice(count + 1, lower, at)
                 post == Slice(count + 1, at + 1, at + 4)
      <3>2. new = [pre |-> pre, line |-> at, post |-> post]
        BY <3>1 DEF TemplateContext
      <3>3. lower \in Nat
        <4>1. at - 3 \in Int /\ 0 \in Int
          BY <3>1
        <4>2. lower = IF at - 3 >= 0 THEN at - 3 ELSE 0
          BY <4>1, MaxTwo
        <4> QED BY <4>1, <4>2
      <3> HIDE DEF lower
      <3>4. pre = {k \in 0..(count + 1 - 1) : lower <= k /\ k < at}
        BY <2>4, <3>1, <3>3, SliceOfNats
      <3>5. post = {k \in 0..(count + 1 - 1) : at + 1 <= k /\ k < at + 4}
        <4>1. at + 1 \in Nat /\ at + 4 \in Nat
          BY <3>1
        <4> QED BY <2>4, <4>1, SliceOfNats
      <3> HIDE DEF new, pre, post
      <3>6. new.line = at /\ new.pre = pre /\ new.post = post
        BY <3>2
      <3> QED BY <2>4, <3>1, <3>4, <3>5, <3>6
    <2> HIDE DEF new
    <2>7. CASE at = None
      <3>1. new.line = None /\ new.pre = {} /\ new.post = {}
        BY <2>5, <2>7 DEF NoLines
      <3> QED BY <1>1, <2>1, <2>3, <2>7, <3>1, NoneAssumption DEF TemplateShown, ends
    <2>8. CASE at # None
      <3>1. \A i, j \in new.pre \cup new.post \cup {0} :
               i \in new.pre /\ j \in new.post => i < at /\ at < j
        BY <2>3, <2>6, <2>8
      <3> QED BY <1>1, <2>1, <2>3, <2>6, <2>8, <3>1, Zenon DEF TemplateShown, ends
    <2> QED BY <2>7, <2>8
  <1>4. [Next]_vars /\ input.do = "template" => UNCHANGED vars \/ ReadTemplate
    BY Questions DEF Next
  <1> QED BY <1>2, <1>3, <1>4

(* Where in_app puts the module of a frame. *)
LEMMA PlaceStep ==
    ASSUME ModulePlaced, [Next]_vars
    PROVE  ModulePlaced'
  <1>1. input' = input
    BY InputStays
  <1>2. CASE input.do # "in_app" \/ UNCHANGED vars
    BY <1>1, <1>2 DEF ModulePlaced, Answered, vars
  <1>3. CASE PlaceModule
    <2> DEFINE set == input.set
               module == input.module
               own == InApp(set, module, input.includes, input.excludes)
               django == DjangoInApp(set, module, input.includes, input.excludes)
               inside == "raven" \notin module /\ input.includes \cap module # {}
                         /\ input.excludes \cap module = {}
    <2>1. result' = <<own, django>>
      BY <1>3, Zenon DEF PlaceModule, Answer
    <2>2. own = set \/ own = inside
      BY DEF InApp
    <2>3. "raven" \in module \/ input.excludes \cap module # {} => inside = FALSE
      BY Zenon
    <2>4. /\ "django" \in module => django = FALSE
          /\ "django" \notin module => django = own
      BY DEF DjangoInApp
    <2> HIDE DEF own, django, inside
    <2>5. result'[1] = own /\ result'[2] = django
      BY <2>1
    <2>6. {"raven", "django"} \cap module # {} => "raven" \in module \/ "django" \in module
      OBVIOUS
    <2> HIDE DEF set, module
    <2>7. "raven" \in module \/ "django" \in module => django \in {set, FALSE}
      BY <2>2, <2>3, <2>4, Zenon
    <2>8. input.excludes \cap module # {} => own \in {set, FALSE}
      BY <2>2, <2>3, Zenon
    <2> QED BY <1>1, <2>4, <2>5, <2>6, <2>7, <2>8, Zenon DEF ModulePlaced, set, module
  <1>4. [Next]_vars /\ input.do = "in_app" => UNCHANGED vars \/ PlaceModule
    BY Questions DEF Next
  <1> QED BY <1>2, <1>3, <1>4

(* What the frames of logging leave of a stack. *)
LEMMA TargetStep ==
    ASSUME StackInput, TargetFound, [Next]_vars
    PROVE  TargetFound'
  <1>1. input' = input
    BY InputStays
  <1>2. CASE input.do # "target" \/ UNCHANGED vars
    BY <1>1, <1>2 DEF TargetFound, Answered, vars
  <1>3. CASE Target
    <2> DEFINE stack == input.stack
               new == TargettedStack(stack)
               starts == {i \in 2..Len(stack) : stack[i - 1] = "logging" /\ stack[i] # "logging"}
               start == CHOOSE i \in starts : \A j \in starts : i <= j
    <2>1. result' = new /\ input.do = "target"
      BY <1>3, Zenon DEF Target, Answer, Asked
    <2>2. stack \in Seq({"logging", "other"})
      BY <2>1 DEF StackInput
    <2>3. new = IF starts = {} THEN stack ELSE SubSeq(stack, start, Len(stack))
      BY DEF TargettedStack
    <2>4. starts # {} => start \in starts
      <3>1. starts \subseteq Nat
        BY <2>2
      <3> HIDE DEF starts
      <3>2. starts # {} => \E i \in starts : \A j \in starts : i <= j
        BY <3>1, Least
      <3> QED BY <3>2
    <2> HIDE DEF new, start, stack
    <2>5. CASE starts = {}
      <3>1. new = stack
        BY <2>3, <2>5
      <3>2. IsSuffix(stack, stack)
        BY DEF IsSuffix, IsPrefix
      <3> QED BY <1>1, <2>1, <3>1, <3>2, Zenon DEF TargetFound, stack
    <2>6. CASE starts # {}
      <3> DEFINE n == Len(stack)
      <3>1. /\ start \in 2..n /\ n \in Nat
            /\ stack[start - 1] = "logging" /\ stack[start] # "logging"
        BY <2>2, <2>4, <2>6
      <3>2. /\ Len(new) = n - start + 1 /\ new # <<>>
            /\ \A i \in 1..Len(new) : new[i] = stack[start - 1 + i]
        <4>1. new = SubSeq(stack, start, n)
          BY <2>3, <2>6
        <4> HIDE DEF starts, n
        <4>2. Len(stack) = n
          BY DEF n
        <4>3. /\ SubSeq(stack, start, n) = [i \in 1..(n - start + 1) |-> stack[start - 1 + i]]
              /\ Len(SubSeq(stack, start, n)) = n - start + 1
          BY <2>2, <3>1, <4>2
        <4>4. n - start + 1 \in Nat \ {0}
          BY <3>1
        <4> QED BY <4>1, <4>3, <4>4
      <3> HIDE DEF starts, n
      <3>3. Head(new) = stack[start]
        <4>1. Head(new) = new[1]
          BY DEF Head
        <4> QED BY <3>1, <3>2, <4>1
      <3>4. n - Len(new) = start - 1
        BY <3>1, <3>2
      <3>5. IsSuffix(new, stack)
        <4> DEFINE a == Reverse(new)
                   b == Reverse(stack)
                   k == Len(new)
        <4>1. k \in 1..n /\ n \in Nat /\ k = n - start + 1
          BY <3>1, <3>2
        <4>2. /\ a = [i \in 1..k |-> new[(k - i) + 1]]
              /\ b = [i \in 1..n |-> stack[(n - i) + 1]]
          BY DEF Reverse, n
        <4>3. \A i \in 1..k : a[i] = b[i]
          <5>1. \A i \in 1..k : /\ (k - i) + 1 \in 1..k /\ i \in 1..n
                                /\ start - 1 + ((k - i) + 1) = (n - i) + 1
            BY <3>1, <4>1
          <5> HIDE DEF k
          <5> QED BY <3>2, <4>2, <5>1 DEF k
        <4>4. Len(a) = k /\ Len(b) = n
          BY <4>1, <4>2
        <4> HIDE DEF a, b, k
        <4>5. SubSeq(a, 1, k) = SubSeq(b, 1, k)
          <5>1. a \in Seq({"logging", "other"}) /\ b \in Seq({"logging", "other"})
            <6>1. \A i \in 1..n : stack[i] \in {"logging", "other"}
              BY <2>2 DEF n
            <6>2. /\ \A i \in 1..k : /\ (k - i) + 1 \in 1..k
                                     /\ start - 1 + ((k - i) + 1) \in 1..n
                  /\ \A i \in 1..n : (n - i) + 1 \in 1..n
              BY <3>1, <4>1
            <6>3. \A i \in 1..k : new[(k - i) + 1] \in {"logging", "other"}
              <7> HIDE DEF k
              <7> QED BY <3>2, <6>1, <6>2 DEF k
            <6>4. k \in Nat
              BY <4>1
            <6>5. \A i \in 1..n : stack[(n - i) + 1] \in {"logging", "other"}
              BY <6>1, <6>2
            <6>6. [i \in 1..k |-> new[(k - i) + 1]] \in [1..k -> {"logging", "other"}]
              BY <6>3
            <6>7. [i \in 1..n |-> stack[(n - i) + 1]] \in [1..n -> {"logging", "other"}]
              BY <6>5
            <6>8. a \in [1..k -> {"logging", "other"}] /\ b \in [1..n -> {"logging", "other"}]
              BY <4>2, <6>6, <6>7
            <6> QED BY <4>1, <6>4, <6>8
          <5>2. /\ SubSeq(a, 1, k) = [i \in 1..k |-> a[i]]
                /\ SubSeq(b, 1, k) = [i \in 1..k |-> b[i]]
            BY <4>1, <4>4, <5>1
          <5> QED BY <4>3, <5>2
        <4> QED BY <4>1, <4>4, <4>5 DEF IsSuffix, IsPrefix, a, b, k
      <3> QED BY <1>1, <2>1, <3>1, <3>2, <3>3, <3>4, <3>5, Zenon DEF TargetFound, stack, n
    <2> QED BY <2>5, <2>6
  <1>4. [Next]_vars /\ input.do = "target" => UNCHANGED vars \/ Target
    BY Questions DEF Next
  <1> QED BY <1>2, <1>3, <1>4

(* The chain of an exception, and what slim_frame_data() takes. *)
ChainKept ==
    Answered("chain") => /\ IsChain(input.chain)
                         /\ input.exc \in ExceptionsOf(input.chain)
                         /\ result = ExceptionValues(input.exc, input.chain)
SlimIs ==
    Answered("slim") => /\ input.apps \in Seq(BOOLEAN)
                        /\ input.allowance \in Nat
                        /\ result = SlimFrameData(input.apps, input.allowance)

(* So for the step that computes either. *)
LEMMA ChainStep ==
    ASSUME StackInput, ChainKept, SlimIs, [Next]_vars
    PROVE  ChainKept' /\ SlimIs'
  <1>1. input' = input
    BY InputStays
  <1>2. CASE input.do \notin {"chain", "slim"} \/ UNCHANGED vars
    BY <1>1, <1>2 DEF ChainKept, SlimIs, Answered, vars
  <1>3. CASE Chain
    <2>1. input.do = "chain" /\ result' = ExceptionValues(input.exc, input.chain)
      BY <1>3, Zenon DEF Chain, Answer, Asked
    <2>2. IsChain(input.chain) /\ input.exc \in ExceptionsOf(input.chain)
      BY <2>1, Zenon DEF StackInput
    <2> QED BY <1>1, <2>1, <2>2 DEF ChainKept, SlimIs, Answered
  <1>4. CASE Slim
    <2>1. input.do = "slim" /\ result' = SlimFrameData(input.apps, input.allowance)
      BY <1>4, Zenon DEF Slim, Answer, Asked
    <2>2. input.apps \in Seq(BOOLEAN) /\ input.allowance \in Nat
      BY <2>1, Zenon DEF StackInput
    <2> QED BY <1>1, <2>1, <2>2 DEF ChainKept, SlimIs, Answered
  <1>5. [Next]_vars /\ input.do \in {"chain", "slim"} => UNCHANGED vars \/ Chain \/ Slim
    BY Questions DEF Next
  <1> QED BY <1>2, <1>3, <1>4, <1>5

-----------------------------------------------------------------------------
(* Requests *)

(* What an answer says of the request holds when it is given, and then     *)
(* stays.                                                                  *)
LEMMA ReadStep ==
    ASSUME RequestInput, BodyAndUserRead, [Next]_vars
    PROVE  BodyAndUserRead'
  <1>1. input' = input
    BY InputStays
  <1>2. CASE input.do # "read" \/ UNCHANGED vars
    BY <1>1, <1>2 DEF BodyAndUserRead, Answered, vars
  <1>3. CASE input.do = "read" /\ Next
    <2>1. Read
      BY <1>3, Questions DEF Next
    <2>2. input \in ReadInputs
      BY <1>3 DEF RequestInput
    <2> DEFINE body == DjangoBody(input.method, input.body, input.raw, input.post)
               retrieved == RetrievedBody(input.json, input.body, input.post)
               django == DjangoUserInfo(input.user)
               flask == FlaskUserInfo(input.user)
    <2>3. /\ result'.django = body /\ result'.retrieved = retrieved
          /\ result'.djangoUser = django /\ result'.flaskUser = flask
      BY <2>1 DEF Read, Answer
    <2>4. /\ input.method \in {"GET", "HEAD", "POST"} /\ input.user \in UserRead
          /\ input.body \in Accessor /\ input.raw \in Accessor /\ input.post \in Accessor
          /\ input.json \in BOOLEAN
      BY <2>2 DEF ReadInputs
    <2>5. /\ input.method # "POST" <=> body = "none"
          /\ input.method = "POST" /\ input.body = "ok" => body = "body"
          /\ input.method = "POST" /\ input.body # "ok" /\ input.raw = "ok" => body = "raw_post_data"
          /\ input.method = "POST" /\ input.body # "ok" /\ input.raw # "ok" /\ input.post = "ok" =>
                body = "POST"
      BY <2>4 DEF DjangoBody, NoBody
    <2>6. /\ "ip_address" \in django
          /\ "username" \in django => input.user.authenticated = "ok"
      BY DEF DjangoUserInfo
    <2>7. "username" \in flask => "id" \in flask
      BY DEF FlaskUserInfo
    <2>8. /\ retrieved = "json" => input.body = "ok"
          /\ retrieved = "form" => input.post = "ok"
          /\ retrieved \in {"json", "form", "empty"}
          /\ retrieved = "empty" => input.body # "ok" \/ input.post # "ok"
      BY <2>4 DEF RetrievedBody
    <2> HIDE DEF body, retrieved, django, flask
    <2> QED BY <1>1, <2>3, <2>5, <2>6, <2>7, <2>8 DEF BodyAndUserRead
  <1> QED BY <1>2, <1>3

(* So does what REST framework's answer says of a body it has read, *)
LEMMA RestStep ==
    ASSUME RequestInput, RestBodyRead, [Next]_vars
    PROVE  RestBodyRead'
  <1>1. input' = input
    BY InputStays
  <1>2. CASE input.do # "rest" \/ UNCHANGED vars
    BY <1>1, <1>2 DEF RestBodyRead, Answered, vars
  <1>3. CASE input.do = "rest" /\ Next
    <2>1. ReadRest
      BY <1>3, Questions DEF Next
    <2>2. input.method = "POST"
      BY <1>3 DEF RequestInput, RestInputs
    <2> QED BY <1>1, <2>1, <2>2
            DEF ReadRest, Answer, RestBodyRead, DjangoBody, BodyAfterRead, CachesBody, NoBody
  <1> QED BY <1>2, <1>3

(* what the 404 middleware reports, *)
LEMMA NotFoundStep ==
    ASSUME RequestInput, NotFoundReported, [Next]_vars
    PROVE  NotFoundReported'
  <1>1. input' = input
    BY InputStays
  <1>2. CASE input.do # "404" \/ UNCHANGED vars
    BY <1>1, <1>2 DEF NotFoundReported, Answered, vars
  <1>3. CASE input.do = "404" /\ Next
    <2>1. NotFound
      BY <1>3, Questions DEF Next
    <2>2. input.captured \in BOOLEAN /\ None # "response"
      BY <1>3, NoneAssumption DEF RequestInput
    <2> QED BY <1>1, <2>1, <2>2 DEF NotFound, Answer, NotFoundReported, Catch404
  <1> QED BY <1>2, <1>3

(* what is read of a Lambda event, *)
LEMMA LambdaStep ==
    ASSUME RequestInput, LambdaRead, [Next]_vars
    PROVE  LambdaRead'
  <1>1. input' = input
    BY InputStays
  <1>2. CASE input.do # "lambda" \/ UNCHANGED vars
    BY <1>1, <1>2 DEF LambdaRead, Answered, vars
  <1>3. CASE input.do = "lambda" /\ Next
    <2>1. ReadLambda
      BY <1>3, Questions DEF Next
    <2> DEFINE user == LambdaUserInfo(input.requestContext, input.identity)
    <2>2. user = {"KeyError"} <=> input.requestContext = "ok" /\ input.identity = "absent"
      BY DEF LambdaUserInfo
    <2>3. result'.user = user
      BY <2>1 DEF ReadLambda, Answer
    <2> QED BY <1>1, <2>2, <2>3 DEF LambdaRead
  <1> QED BY <1>2, <1>3

(* of a WSGI environment, *)
LEMMA EnvironStep ==
    ASSUME RequestInput, EnvironRead, [Next]_vars
    PROVE  EnvironRead'
  <1>1. input' = input
    BY InputStays
  <1>2. CASE input.do # "environ" \/ UNCHANGED vars
    BY <1>1, <1>2 DEF EnvironRead, Answered, vars
  <1>3. CASE input.do = "environ" /\ Next
    <2>1. ReadEnviron
      BY <1>3, Questions DEF Next
    <2>2. input.headers \subseteq HeaderName /\ input.forwarded \in Seq(STRING)
      BY <1>3 DEF RequestInput
    <2>3. /\ result'.headers = GetHeaders(input.headers) /\ result'.env = GetEnviron(input.names)
          /\ result'.ip = GetClientIp(input.forwarded, input.remote)
      BY <2>1 DEF ReadEnviron, Answer
    <2>4. "Content-Type" \in GetHeaders(input.headers)
             <=> [name |-> "Content-Type", http |-> FALSE] \in input.headers
      <3>1. ASSUME "Content-Type" \in GetHeaders(input.headers)
            PROVE  [name |-> "Content-Type", http |-> FALSE] \in input.headers
        <4>1. PICK h \in input.headers : h.name = "Content-Type" /\ ~ h.http
          BY <3>1 DEF GetHeaders
        <4>2. h \in HeaderName
          BY <2>2
        <4>3. h = [name |-> h.name, http |-> h.http] /\ h.http \in BOOLEAN
          BY <4>2 DEF HeaderName
        <4>4. h.http = FALSE
          BY <4>1, <4>3
        <4> QED BY <4>1, <4>3, <4>4
      <3>2. ASSUME [name |-> "Content-Type", http |-> FALSE] \in input.headers
            PROVE  "Content-Type" \in GetHeaders(input.headers)
        BY <3>2 DEF GetHeaders
      <3> QED BY <3>1, <3>2
    <2>5. GetEnviron(input.names) \subseteq input.names
      BY DEF GetEnviron
    <2>6. input.forwarded # <<>> => GetClientIp(input.forwarded, input.remote) = input.forwarded[1]
      BY <2>2 DEF GetClientIp
    <2> QED BY <1>1, <2>3, <2>4, <2>5, <2>6 DEF EnvironRead
  <1> QED BY <1>2, <1>3

(* and of its host. *)
LEMMA HostStep ==
    ASSUME RequestInput, HostNamed, [Next]_vars
    PROVE  HostNamed'
  <1>1. input' = input
    BY InputStays
  <1>2. CASE input.do # "host" \/ UNCHANGED vars
    BY <1>1, <1>2 DEF HostNamed, Answered, vars
  <1>3. CASE input.do = "host" /\ Next
    <2>1. ReadHost
      BY <1>3, Questions DEF Next
    <2> DEFINE source == IF input.forwarded # <<>> THEN input.forwarded
                         ELSE IF input.host # <<>> THEN input.host ELSE <<"server", input.port>>
               default == IF input.scheme = "https" THEN 443 ELSE 80
    <2>2. /\ IsHost(input.forwarded) /\ IsHost(input.host)
          /\ input.scheme \in {"http", "https"} /\ input.port \in Nat
      BY <1>3 DEF RequestInput
    <2>3. IsHost(source)
      <3> DEFINE server == <<"server", input.port>>
      <3>1. Len(server) = 2 /\ DOMAIN server = 1..2 /\ server[2] = input.port
        OBVIOUS
      <3> HIDE DEF server
      <3>2. IsHost(server)
        BY <2>2, <3>1 DEF IsHost, IsList
      <3> QED BY <2>2, <3>2 DEF server
    <2>4. result' = IF Len(source) = 2 /\ source[2] = default THEN <<source[1]>> ELSE source
      BY <2>1 DEF ReadHost, Answer, GetHost, DefaultPort
    <2>5. Len(source) = 2 => source[2] \in Nat
      BY <2>3 DEF IsHost
    <2> HIDE DEF source
    <2>6. CASE Len(source) = 2 /\ source[2] = default
      <3>1. result' = <<source[1]>>
        BY <2>4, <2>6
      <3>2. Head(source) = source[1] /\ Head(result') = source[1] /\ Len(result') = 1
        BY <3>1
      <3>3. <<input.scheme, source[2]>> \in {<<"http", 80>>, <<"https", 443>>}
        BY <2>2, <2>6
      <3> QED BY <1>1, <3>2, <3>3 DEF HostNamed, source
    <2>7. CASE ~ (Len(source) = 2 /\ source[2] = default)
      <3>1. result' = source
        BY <2>4, <2>7
      <3>2. Len(source) = 2 => <<input.scheme, source[2]>> \notin {<<"http", 80>>, <<"https", 443>>}
        BY <2>2, <2>7
      <3> QED BY <1>1, <3>1, <3>2 DEF HostNamed, source
    <2> QED BY <2>6, <2>7
  <1> QED BY <1>2, <1>3

(* RouteResolver, as far as it has been asked. *)
CachedRoutes(resolver, routes) ==
    /\ resolver = [routes |-> routes, cache |-> resolver.cache, name |-> resolver.name]
    /\ \A key \in DOMAIN resolver.cache :
          \E j \in DOMAIN routes : resolver.cache[key] = routes[j] /\ routes[j].pattern = key

(* The name of a path: that of the first route, where no other has its     *)
(* pattern or nothing was resolved before.                                 *)
NamedBy(name, routes, matching, sure) ==
    LET hits == {j \in DOMAIN routes : routes[j] \in matching}
        first == routes[Min(hits)]
        alone == \A j, k \in DOMAIN routes : routes[j].pattern = routes[k].pattern => j = k
    IN  IF hits = {} THEN name = "path"
        ELSE /\ name.pattern = first.pattern
             /\ (sure \/ alone) => name = first

(* One path resolved. *)
LEMMA ResolveNames ==
    ASSUME NEW old, NEW routes, IsList(routes), CachedRoutes(old, routes), NEW matching
    PROVE  /\ CachedRoutes(Resolve(old, matching), routes)
           /\ NamedBy(Resolve(old, matching).name, routes, matching, DOMAIN old.cache = {})
  <1> DEFINE hits == {j \in DOMAIN routes : routes[j] \in matching}
             first == routes[Min(hits)]
             key == first.pattern
             new == Resolve(old, matching)
             alone == \A j, k \in DOMAIN routes : routes[j].pattern = routes[k].pattern => j = k
  <1>1. hits # {} => Min(hits) \in DOMAIN routes
    <2>1. hits \subseteq Nat
      BY DEF IsList
    <2>2. hits # {} => Min(hits) \in hits
      <3> HIDE DEF hits
      <3> QED BY <2>1, MinIs
    <2> QED BY <2>2
  <1>2. old = [routes |-> routes, cache |-> old.cache, name |-> old.name]
    BY DEF CachedRoutes
  <1>3. new = IF hits = {} THEN [old EXCEPT !.name = "path"]
              ELSE IF key \in DOMAIN old.cache THEN [old EXCEPT !.name = old.cache[key]]
              ELSE [old EXCEPT !.name = first, !.cache = Put(old.cache, key, first)]
    <2>1. old.routes = routes
      BY <1>2
    <2> QED BY <2>1 DEF Resolve, CacheKey
  <1>4. \A k \in DOMAIN old.cache :
           \E j \in DOMAIN routes : old.cache[k] = routes[j] /\ routes[j].pattern = k
    BY DEF CachedRoutes
  <1> HIDE DEF hits, first, key, new
  <1>5. CASE hits = {}
    <2>1. new = [routes |-> routes, cache |-> old.cache, name |-> "path"]
      BY <1>5, <1>3, <1>2
    <2> QED BY <1>5, <2>1, <1>4 DEF CachedRoutes, NamedBy, new, hits
  <1>6. CASE hits # {} /\ key \in DOMAIN old.cache
    <2>1. new = [routes |-> routes, cache |-> old.cache, name |-> old.cache[key]]
      BY <1>6, <1>3, <1>2
    <2>2. PICK j \in DOMAIN routes : old.cache[key] = routes[j] /\ routes[j].pattern = key
      BY <1>6, <1>4
    <2>3. alone => j = Min(hits)
      BY <2>2, <1>6, <1>1 DEF key, first
    <2>4. CachedRoutes(new, routes)
      BY <2>1, <1>4 DEF CachedRoutes
    <2>5. NamedBy(new.name, routes, matching, DOMAIN old.cache = {})
      BY <1>6, <2>1, <2>2, <2>3 DEF NamedBy, first, key, hits
    <2> QED BY <2>4, <2>5 DEF new
  <1>7. CASE hits # {} /\ key \notin DOMAIN old.cache
    <2> DEFINE cache == Put(old.cache, key, first)
    <2>1. new = [routes |-> routes, cache |-> cache, name |-> first]
      <3>1. new = [[old EXCEPT !.name = first] EXCEPT !.cache = cache]
        BY <1>7, <1>3
      <3>2. [old EXCEPT !.name = first] = [routes |-> routes, cache |-> old.cache, name |-> first]
        BY <1>2
      <3> HIDE DEF cache
      <3> QED BY <3>1, <3>2
    <2>2. /\ DOMAIN cache = DOMAIN old.cache \cup {key} /\ cache[key] = first
          /\ \A k \in DOMAIN old.cache : k # key => cache[k] = old.cache[k]
      BY DEF Put
    <2> HIDE DEF cache
    <2>3. \A k \in DOMAIN cache :
             \E j \in DOMAIN routes : cache[k] = routes[j] /\ routes[j].pattern = k
      BY <2>2, <1>4, <1>1, <1>7 DEF key, first
    <2>4. CachedRoutes(new, routes)
      BY <2>1, <2>3 DEF CachedRoutes
    <2>5. NamedBy(new.name, routes, matching, DOMAIN old.cache = {})
      BY <1>7, <2>1 DEF NamedBy, first, key, hits
    <2> QED BY <2>4, <2>5 DEF new
  <1> QED BY <1>5, <1>6, <1>7

Resolved ==
    Answered("resolve") =>
        /\ IsSeq(result) /\ Len(result) >= 1
        /\ \A i \in 1..Len(result) : CachedRoutes(result[i], input.routes)
        /\ DOMAIN result[1].cache = {}
        /\ \A i \in 1..(Len(result) - 1) :
              NamedBy(result[i + 1].name, input.routes, input.paths[i], i = 1)

(* Each step of a resolver is such a path, *)
LEMMA ResolveStep ==
    ASSUME RequestInput, Resolved, [Next]_vars
    PROVE  Resolved'
  <1>1. input' = input
    BY InputStays
  <1>2. CASE input.do # "resolve" \/ UNCHANGED vars
    BY <1>1, <1>2 DEF Resolved, Answered, vars
  <1>3. CASE ResolveFirst
    <2> DEFINE new == [routes |-> input.routes, cache |-> <<>>, name |-> None]
    <2>1. result' = <<new>>
      BY <1>3 DEF ResolveFirst, Answer
    <2>2. CachedRoutes(new, input.routes) /\ DOMAIN new.cache = {}
      BY DEF CachedRoutes
    <2> HIDE DEF new
    <2>3. IsSeq(result') /\ Len(result') = 1 /\ result'[1] = new
      BY <2>1, IsOne
    <2> QED BY <2>2, <2>3, <1>1 DEF Resolved, Answered
  <1>4. CASE ResolveNext
    <2> DEFINE n == Len(result)
               old == result[n]
               new == Resolve(old, input.paths[n])
    <2>1. Answered("resolve") /\ result' = Append(result, Resolve(Last(result), input.paths[n]))
      BY <1>4 DEF ResolveNext, Answer, Going, Answered
    <2>2. /\ IsSeq(result) /\ n >= 1
          /\ \A i \in 1..n : CachedRoutes(result[i], input.routes)
          /\ DOMAIN result[1].cache = {}
          /\ \A i \in 1..(n - 1) :
                NamedBy(result[i + 1].name, input.routes, input.paths[i], i = 1)
      BY <2>1 DEF Resolved
    <2>3. Last(result) = old
      BY DEF Last
    <2>4. /\ IsSeq(result') /\ n \in Nat /\ Len(result') = n + 1 /\ result'[n + 1] = new
          /\ \A i \in 1..n : result'[i] = result[i]
      <3> HIDE DEF new
      <3> QED BY <2>1, <2>2, <2>3, Grown DEF new
    <2>5. IsList(input.routes)
      BY <2>1 DEF RequestInput, Answered
    <2>6. CachedRoutes(new, input.routes)
          /\ NamedBy(new.name, input.routes, input.paths[n], DOMAIN old.cache = {})
      BY <2>2, <2>4, <2>5, ResolveNames
    <2>7. n = 1 => DOMAIN old.cache = {}
      BY <2>2
    <2>8. NamedBy(new.name, input.routes, input.paths[n], n = 1)
      BY <2>6, <2>7 DEF NamedBy
    <2> HIDE DEF new, old, n
    <2>9. \A i \in 1..(n + 1) : CachedRoutes(result'[i], input.routes)
      BY <2>2, <2>4, <2>6
    <2>10. \A i \in 1..n : NamedBy(result'[i + 1].name, input.routes, input.paths[i], i = 1)
      BY <2>2, <2>4, <2>8
    <2>11. DOMAIN result'[1].cache = {}
      BY <2>2, <2>4
    <2> QED BY <1>1, <2>4, <2>9, <2>10, <2>11, <2>2 DEF Resolved
  <1>5. [Next]_vars /\ input.do = "resolve" => UNCHANGED vars \/ ResolveFirst \/ ResolveNext
    BY Questions DEF Next
  <1> QED BY <1>2, <1>3, <1>4, <1>5

(* and that is what every answer says. *)
LEMMA ResolvedNames ==
    ASSUME Resolved
    PROVE  PathsNamed
  BY DEF Resolved, PathsNamed, NamedBy

-----------------------------------------------------------------------------
(* Records of a log *)

(* The loggers of raven, and records of some loggers. *)
OwnNames == {"raven", "sentry.errors"}
RecordsOf(names) == [name : names, exc : {None, "raised", "seen"}]

(* The calls that capturing led to, and the ones that the handler has had. *)
Later == {call \in [record : RecordsOf(LoggerNames), next : 1..2] :
              call.next = 1 => call.record.name \in OwnNames}

(* Short sequences. *)
LEMMA ShortSequences ==
    ASSUME NEW S, NEW a \in S, NEW b \in S, NEW c \in S
    PROVE  /\ <<>> \in Seq(S) /\ Len(<<>>) = 0
           /\ <<a>> \in Seq(S) /\ Len(<<a>>) = 1
           /\ <<a, b, c>> \in Seq(S) /\ Len(<<a, b, c>>) = 3
  OBVIOUS

(* Two sequences joined. *)
LEMMA Joined ==
    ASSUME NEW S, NEW s \in Seq(S), NEW t \in Seq(S)
    PROVE  s \o t \in Seq(S) /\ Len(s \o t) = Len(s) + Len(t) /\ Len(s) \in Nat /\ Len(t) \in Nat
  OBVIOUS

(* A sequence of one, of a set. *)
LEMMA OneOf ==
    ASSUME NEW S, NEW a \in S
    PROVE  <<a>> \in Seq(S) /\ Len(<<a>>) = 1
  OBVIOUS

(* What is left of a sequence. *)
LEMMA Rest ==
    ASSUME NEW S, NEW s \in Seq(S), s # <<>>
    PROVE  /\ Head(s) \in S /\ Tail(s) \in Seq(S) /\ Len(Tail(s)) = Len(s) - 1 /\ Len(s) \in Nat
           /\ Len(s) >= 1 /\ Head(s) = s[1]
  OBVIOUS

(* What capturing and sending a record logs. *)
LEMMA LogsOfCapture ==
    ASSUME NEW client, client.capture \in Outcomes,
           NEW record, record.exc \in {None, "raised", "seen"}
    PROVE  /\ CaptureLogs(client, record) \in Seq(RecordsOf(OwnNames))
           /\ Len(CaptureLogs(client, record)) \in 0..4
  <1> DEFINE own == RecordsOf(OwnNames)
             a == Record("raven", None)
             b == Record("sentry.errors", "raised")
             c == Record("sentry.errors", None)
             d == Record("raven", record.exc)
             none == <<>>
             sent == <<a>>
             failed == <<a, b, c>>
             off == <<c>>
             filtered == <<d>>
             value == <<b>>
             first == IF client.unserializable THEN value ELSE none
             then == SendLogs(client.capture)
             both == first \o then
             logs == CaptureLogs(client, record)
  <1>1. \A name \in OwnNames, exc \in {None, "raised", "seen"} : Record(name, exc) \in own
    BY DEF Record, RecordsOf
  <1>3. a \in own /\ b \in own /\ c \in own /\ d \in own
    BY <1>1 DEF OwnNames
  <1>4. then \in {sent, failed, off}
    <2> HIDE DEF a, b, c
    <2>1. SendLogs("sent") = sent
      BY DEF SendLogs, a
    <2>2. SendLogs("failed") = failed
      BY DEF SendLogs, a, b, c
    <2>3. SendLogs("backing off") = off
      BY DEF SendLogs, c
    <2> HIDE DEF sent, failed, off
    <2> QED BY <2>1, <2>2, <2>3 DEF Outcomes
  <1>5. logs \in {none, filtered, both}
    BY DEF CaptureLogs
  <1> HIDE DEF own, a, b, c, d
  <1>6. /\ none \in Seq(own) /\ Len(none) = 0
        /\ sent \in Seq(own) /\ Len(sent) = 1 /\ value \in Seq(own) /\ Len(value) = 1
        /\ off \in Seq(own) /\ Len(off) = 1 /\ filtered \in Seq(own) /\ Len(filtered) = 1
        /\ failed \in Seq(own) /\ Len(failed) = 3
    BY <1>3, ShortSequences
  <1> HIDE DEF none, sent, failed, off, filtered, value, then, logs
  <1>7. then \in Seq(own) /\ Len(then) \in 0..3
    <2>1. Len(sent) \in 0..3 /\ Len(failed) \in 0..3 /\ Len(off) \in 0..3
      BY <1>6
    <2> QED BY <1>4, <1>6, <2>1, Zenon
  <1>8. first \in Seq(own) /\ Len(first) \in 0..1
    <2>1. Len(none) \in 0..1 /\ Len(value) \in 0..1
      BY <1>6
    <2> QED BY <1>6, <2>1, Zenon
  <1> HIDE DEF first
  <1>9. both \in Seq(own) /\ Len(both) \in 0..4
    <2>1. both \in Seq(own) /\ Len(both) = Len(first) + Len(then)
      BY <1>7, <1>8, Joined, Zenon
    <2>2. \A m \in 0..1, n \in 0..3 : m + n \in 0..4
      OBVIOUS
    <2> QED BY <1>7, <1>8, <2>1, <2>2, Zenon
  <1> HIDE DEF both
  <1>10. logs \in Seq(own) /\ Len(logs) \in 0..4
    <2>1. Len(none) \in 0..4 /\ Len(filtered) \in 0..4
      BY <1>6
    <2> QED BY <1>5, <1>6, <1>9, <2>1, Zenon
  <1> QED BY <1>10 DEF own, logs

(* What a record leads to: one event at most, and none of raven's own. *)
EmitKept(emit, client, own) ==
    /\ emit.events \in 0..1
    /\ emit.logs \in Seq(RecordsOf(OwnNames)) /\ Len(emit.logs) \in 0..4
    /\ emit.raised \in BOOLEAN /\ (emit.raised => client.raiseSendErrors)
    /\ own => emit.events = 0 /\ emit.logs = <<>> /\ emit.raised = FALSE

(* Every handler does that. *)
LEMMA EmitIs ==
    ASSUME NEW handler, NEW client, client \in LoggingClient,
           NEW record, record \in RecordsOf(LoggerNames)
    PROVE  EmitKept(Emit(handler, client, record), client, record.name \in OwnNames)
  <1> DEFINE logs == CaptureLogs(client, record)
             events == IF IsEvent(record, client.exclusions) THEN 1 ELSE 0
             quiet == ~ CanRecord(handler, record) \/ ~ client.enabled
             emit == Emit(handler, client, record)
             none == <<>>
  <1>1. client.raiseSendErrors \in BOOLEAN /\ (client.capture # "raises" => client.capture \in Outcomes)
    BY DEF LoggingClient
  <1>2. client.capture # "raises" =>
            logs \in Seq(RecordsOf(OwnNames)) /\ Len(logs) \in 0..4
    <2>1. record.exc \in {None, "raised", "seen"}
      BY DEF RecordsOf
    <2> QED BY <1>1, <2>1, LogsOfCapture
  <1>3. events \in 0..1
    OBVIOUS
  <1>4. /\ quiet => emit = [events |-> 0, logs |-> none, raised |-> FALSE]
        /\ ~ quiet /\ client.capture = "raises" =>
              emit = [events |-> 0, logs |-> none, raised |-> client.raiseSendErrors]
        /\ ~ quiet /\ client.capture # "raises" =>
              emit = [events |-> events, logs |-> logs, raised |-> FALSE]
    BY DEF Emit
  <1>5. record.name \in OwnNames => quiet
    BY DEF CanRecord, OwnNames
  <1>6. none \in Seq(RecordsOf(OwnNames)) /\ Len(none) = 0
    OBVIOUS
  <1> HIDE DEF logs, events, quiet, emit
  <1> HIDE DEF none
  <1>7. none = <<>> /\ Len(none) \in 0..4 /\ 0 \in 0..1 /\ FALSE \in BOOLEAN
    BY <1>6 DEF none
  <1>9. CASE quiet
    <2>1. emit = [events |-> 0, logs |-> none, raised |-> FALSE]
      BY <1>4, <1>9
    <2>2. emit.events = 0 /\ emit.logs = none /\ emit.raised = FALSE
      BY <2>1
    <2>3. emit.raised \in BOOLEAN /\ (emit.raised => client.raiseSendErrors)
      BY <2>2
    <2> QED BY <2>3, <2>2, <1>6, <1>7, Zenon DEF EmitKept, emit
  <1>10. CASE ~ quiet /\ client.capture = "raises"
    <2>1. emit = [events |-> 0, logs |-> none, raised |-> client.raiseSendErrors]
      BY <1>4, <1>10
    <2>2. emit.events = 0 /\ emit.logs = none /\ emit.raised = client.raiseSendErrors
      BY <2>1
    <2>3. emit.raised \in BOOLEAN /\ (emit.raised => client.raiseSendErrors)
      BY <2>2, <1>1
    <2> QED BY <2>3, <2>2, <1>1, <1>5, <1>6, <1>7, <1>10, Zenon DEF EmitKept, emit
  <1>11. CASE ~ quiet /\ client.capture # "raises"
    <2>1. emit = [events |-> events, logs |-> logs, raised |-> FALSE]
      BY <1>4, <1>11
    <2>2. emit.events = events /\ emit.logs = logs /\ emit.raised = FALSE
      BY <2>1
    <2>3. emit.raised \in BOOLEAN /\ (emit.raised => client.raiseSendErrors)
      BY <2>2
    <2> QED BY <2>3, <2>2, <1>2, <1>3, <1>5, <1>7, <1>11, Zenon DEF EmitKept, emit
  <1> QED BY <1>9, <1>10, <1>11 DEF emit

(* A record of the application, with the calls of callHandlers(). *)
LogsKept(in, r) ==
    /\ r = [handlers |-> r.handlers, setups |-> r.setups, begun |-> r.begun, calls |-> r.calls,
            events |-> r.events, raised |-> r.raised]
    /\ r.setups \in Nat
    /\ r.handlers = IF r.setups = 0 THEN <<>> ELSE <<in.handler>>
    /\ r.begun \in BOOLEAN /\ (r.begun => r.setups # 0)
    /\ Len(r.calls) \in 0..5
    /\ r.events \in 0..1
    /\ r.events = 1 => in.record.name \notin OwnNames
    /\ r.raised \in BOOLEAN /\ (r.raised => in.client.raiseSendErrors)
    /\ ~ r.begun => r.calls = <<>> /\ r.events = 0 /\ r.raised = FALSE
    /\ (r.calls = <<Logging(in.record)>> /\ r.events = 0) \/ r.calls \in Seq(Later)

(* What setup_logging() leaves: the handler, once. *)
LEMMA FirstHandler ==
    ASSUME NEW in, NEW r, LogsKept(in, r)
    PROVE  SetupLogging(r.handlers, in.handler) = <<in.handler>>
  <1> DEFINE hs == <<in.handler>>
             set == SetupLogging(r.handlers, in.handler)
  <1>1. CASE r.setups = 0
    <2>1. r.handlers = <<>>
      BY <1>1 DEF LogsKept
    <2>2. ToSet(<<>>) = {}
      BY DEF ToSet
    <2>3. Append(<<>>, in.handler) = hs
      OBVIOUS
    <2> QED BY <2>1, <2>2, <2>3 DEF SetupLogging
  <1>2. CASE r.setups # 0
    <2>1. r.handlers = hs
      BY <1>2 DEF LogsKept
    <2>2. in.handler \in ToSet(hs)
      BY DEF ToSet
    <2> QED BY <2>1, <2>2 DEF SetupLogging
  <1> QED BY <1>1, <1>2

(* Another setup_logging(). *)
LEMMA SetupKeeps ==
    ASSUME NEW in, NEW r, LogsKept(in, r)
    PROVE  LogsKept(in, [r EXCEPT !.handlers = SetupLogging(@, in.handler), !.setups = @ + 1])
  <1> DEFINE hs == <<in.handler>>
             set == SetupLogging(r.handlers, in.handler)
             new == [r EXCEPT !.handlers = SetupLogging(@, in.handler), !.setups = @ + 1]
  <1>1. set = hs
    BY FirstHandler
  <1>2. new = [r EXCEPT !.handlers = set, !.setups = r.setups + 1]
    OBVIOUS
  <1> HIDE DEF hs, set, new
  <1>3. r = [handlers |-> r.handlers, setups |-> r.setups, begun |-> r.begun,
             calls |-> r.calls, events |-> r.events, raised |-> r.raised]
    BY Zenon DEF LogsKept
  <1>4. new = [handlers |-> hs, setups |-> r.setups + 1, begun |-> r.begun, calls |-> r.calls,
               events |-> r.events, raised |-> r.raised]
    BY <1>1, <1>2, <1>3
  <1>5. r.setups \in Nat
    BY DEF LogsKept
  <1>6. /\ new.handlers = hs /\ new.setups = r.setups + 1 /\ new.begun = r.begun
        /\ new.calls = r.calls /\ new.events = r.events /\ new.raised = r.raised
        /\ new = [handlers |-> new.handlers, setups |-> new.setups, begun |-> new.begun,
                  calls |-> new.calls, events |-> new.events, raised |-> new.raised]
    BY <1>4
  <1>7. new.setups \in Nat /\ new.setups # 0
    BY <1>5, <1>6
  <1> QED BY <1>6, <1>7, Zenon DEF LogsKept, hs, new

(* The calls that a record leads to are of the handler and of raven's own. *)
LEMMA NestedCalls ==
    ASSUME NEW logs \in Seq(RecordsOf(OwnNames))
    PROVE  LET nested == [i \in DOMAIN logs |-> Logging(logs[i])]
           IN  nested \in Seq(Later) /\ Len(nested) = Len(logs)
  <1> DEFINE n == Len(logs)
             nested == [i \in DOMAIN logs |-> Logging(logs[i])]
  <1>1. ASSUME NEW x \in RecordsOf(OwnNames)
        PROVE  Logging(x) \in Later
    <2>1. x \in RecordsOf(LoggerNames) /\ x.name \in OwnNames
      BY DEF RecordsOf, OwnNames, LoggerNames
    <2>2. Logging(x) = [record |-> x, next |-> 1]
      BY DEF Logging
    <2> QED BY <2>1, <2>2 DEF Later
  <1>2. n \in Nat /\ DOMAIN logs = 1..n /\ \A i \in 1..n : logs[i] \in RecordsOf(OwnNames)
    OBVIOUS
  <1>3. \A i \in 1..n : Logging(logs[i]) \in Later
    BY <1>1, <1>2
  <1> HIDE DEF n
  <1>4. nested \in [1..n -> Later]
    BY <1>2, <1>3
  <1> HIDE DEF nested
  <1>5. nested \in Seq(Later) /\ Len(nested) = n
    BY <1>2, <1>4
  <1> QED BY <1>5 DEF nested, n

(* The call that is to emit: the record itself, or one of raven's own. *)
LEMMA CallToEmit ==
    ASSUME NEW in, in.record \in RecordsOf(LoggerNames),
           NEW r, LogsKept(in, r), r.calls # <<>>, Head(r.calls).next <= Len(r.handlers)
    PROVE  LET call == Head(r.calls)
           IN  /\ call.record \in RecordsOf(LoggerNames) /\ call.next = 1
               /\ call = [record |-> call.record, next |-> call.next]
               /\ Tail(r.calls) \in Seq(Later) /\ Len(Tail(r.calls)) = Len(r.calls) - 1
               /\ \/ Len(r.calls) = 1 /\ call.record = in.record /\ r.events = 0
                  \/ call.record.name \in OwnNames
               /\ r.handlers = <<in.handler>> /\ r.handlers[call.next] = in.handler
               /\ r.begun = TRUE
  <1> DEFINE call == Head(r.calls)
             it == Logging(in.record)
             Call == [record : RecordsOf(LoggerNames), next : 1..2]
  <1>1. (r.calls = <<it>> /\ r.events = 0) \/ r.calls \in Seq(Later)
    BY DEF LogsKept
  <1>2. it \in Call /\ it.record = in.record /\ it.next = 1
    BY DEF Logging
  <1> HIDE DEF it
  <1>3. /\ call \in Call /\ Tail(r.calls) \in Seq(Later) /\ Len(Tail(r.calls)) = Len(r.calls) - 1
        /\ \/ Len(r.calls) = 1 /\ call = it /\ r.events = 0
           \/ call \in Later
    <2>1. CASE r.calls \in Seq(Later)
      <3>1. call \in Later /\ Tail(r.calls) \in Seq(Later) /\ Len(Tail(r.calls)) = Len(r.calls) - 1
        BY <2>1, Rest, Zenon
      <3>2. call \in Call
        BY <3>1, Zenon DEF Later
      <3> QED BY <3>1, <3>2
    <2>2. CASE r.calls = <<it>> /\ r.events = 0
      <3>1. <<it>> \in Seq({it}) /\ Len(<<it>>) = 1 /\ Head(<<it>>) = it
            /\ Tail(<<it>>) = <<>> /\ Len(<<>>) = 0
        OBVIOUS
      <3>2. <<>> \in Seq(Later)
        OBVIOUS
      <3> QED BY <2>2, <3>1, <3>2, <1>2
    <2> QED BY <1>1, <2>1, <2>2
  <1> HIDE DEF call
  <1>4. r.begun = TRUE /\ r.setups # 0 /\ r.handlers = <<in.handler>>
    BY DEF LogsKept
  <1>5. call.next <= 1
    <2>1. Len(<<in.handler>>) = 1
      OBVIOUS
    <2> QED BY <2>1, <1>4 DEF call
  <1>6. call.record \in RecordsOf(LoggerNames) /\ call.next \in 1..2
        /\ call = [record |-> call.record, next |-> call.next]
    BY <1>3
  <1>7. call.next = 1
    BY <1>5, <1>6
  <1>8. <<in.handler>>[1] = in.handler
    OBVIOUS
  <1>9. call \in Later => call.record.name \in OwnNames
    BY <1>7 DEF Later
  <1> QED BY <1>2, <1>3, <1>4, <1>6, <1>7, <1>8, <1>9 DEF call

(* A handler emits the record of the innermost call. *)
LEMMA EmitKeeps ==
    ASSUME NEW in, in.handler \in Handlers, in.client \in LoggingClient,
           in.record \in RecordsOf(LoggerNames),
           NEW r, LogsKept(in, r), r.calls # <<>>, Head(r.calls).next <= Len(r.handlers)
    PROVE  LET call == Head(r.calls)
               emit == Emit(r.handlers[call.next], in.client, call.record)
           IN  LogsKept(in, [r EXCEPT
                   !.calls = [i \in DOMAIN emit.logs |-> Logging(emit.logs[i])]
                             \o <<[call EXCEPT !.next = @ + 1]>> \o Tail(@),
                   !.events = @ + emit.events, !.raised = emit.raised])
  <1> DEFINE call == Head(r.calls)
             emit == Emit(r.handlers[call.next], in.client, call.record)
             nested == [i \in DOMAIN emit.logs |-> Logging(emit.logs[i])]
             after == [call EXCEPT !.next = @ + 1]
             one == <<after>>
             tail == Tail(r.calls)
             calls == nested \o one \o tail
             new == [r EXCEPT !.calls = nested \o <<after>> \o Tail(@),
                              !.events = @ + emit.events, !.raised = emit.raised]
  <1>1. /\ call.record \in RecordsOf(LoggerNames) /\ call.next = 1
        /\ call = [record |-> call.record, next |-> call.next]
        /\ tail \in Seq(Later) /\ Len(tail) = Len(r.calls) - 1
        /\ \/ Len(r.calls) = 1 /\ call.record = in.record /\ r.events = 0
           \/ call.record.name \in OwnNames
        /\ r.handlers = <<in.handler>> /\ r.handlers[call.next] = in.handler
        /\ r.begun = TRUE
    BY CallToEmit, Zenon
  <1>2. new = [r EXCEPT !.calls = calls, !.events = r.events + emit.events,
                        !.raised = emit.raised]
    OBVIOUS
  <1>3. EmitKept(emit, in.client, call.record.name \in OwnNames)
    <2>1. emit = Emit(in.handler, in.client, call.record)
      BY <1>1, Zenon
    <2> QED BY <2>1, <1>1, EmitIs, Zenon
  <1>4. emit.logs \in Seq(RecordsOf(OwnNames)) => nested \in Seq(Later) /\ Len(nested) = Len(emit.logs)
    BY NestedCalls, Zenon
  <1> HIDE DEF call, emit, new, tail
  <1>5. after = [record |-> call.record, next |-> 2]
    BY <1>1
  <1>6. after \in Later
    BY <1>1, <1>5 DEF Later
  <1> HIDE DEF after, nested
  <1>7. one \in Seq(Later) /\ Len(one) = 1
    BY <1>6, OneOf, Zenon
  <1> HIDE DEF one
  <1>8. /\ emit.events \in 0..1
        /\ emit.logs \in Seq(RecordsOf(OwnNames)) /\ Len(emit.logs) \in 0..4
        /\ emit.raised \in BOOLEAN /\ (emit.raised => in.client.raiseSendErrors)
        /\ call.record.name \in OwnNames =>
              emit.events = 0 /\ emit.logs = <<>> /\ emit.raised = FALSE
    BY <1>3, Zenon DEF EmitKept
  <1>9. calls \in Seq(Later) /\ Len(calls) = Len(emit.logs) + 1 + Len(tail)
    <2>1. nested \in Seq(Later) /\ Len(nested) = Len(emit.logs)
      BY <1>4, <1>8, Zenon
    <2>2. nested \o one \in Seq(Later) /\ Len(nested \o one) = Len(nested) + Len(one)
      BY <2>1, <1>7, Joined, Zenon
    <2>3. calls \in Seq(Later) /\ Len(calls) = Len(nested \o one) + Len(tail)
      BY <2>2, <1>1, Joined, Zenon
    <2> QED BY <2>1, <2>2, <2>3, <1>7, Zenon
  <1> HIDE DEF calls
  <1>10. r.events \in 0..1 /\ (r.events = 1 => in.record.name \notin OwnNames)
         /\ Len(r.calls) \in 0..5
    BY DEF LogsKept
  <1>11. Len(<<>>) = 0
    OBVIOUS
  <1> DEFINE k == Len(emit.logs)
             m == Len(tail)
             n == Len(r.calls)
             l == Len(calls)
  <1> HIDE DEF k, m, n, l
  <1>12. l \in 0..5 /\ r.events + emit.events \in 0..1
         /\ (r.events + emit.events = 1 => in.record.name \notin OwnNames)
    <2>1. l = k + 1 + m /\ m = n - 1 /\ k \in 0..4 /\ n \in 0..5
      BY <1>1, <1>8, <1>9, <1>10, Zenon DEF k, l, m, n
    <2>2. CASE n = 1 /\ call.record = in.record /\ r.events = 0
      <3>1. l \in 0..5
        BY <2>1, <2>2
      <3>2. r.events + emit.events = emit.events
        BY <2>2, <1>8
      <3>3. emit.events = 1 => in.record.name \notin OwnNames
        <4>1. 0 # 1
          OBVIOUS
        <4> QED BY <4>1, <2>2, <1>8, Zenon
      <3> QED BY <3>1, <3>2, <3>3, <1>8, Zenon
    <2>3. CASE call.record.name \in OwnNames
      <3>1. emit.events = 0 /\ k = 0
        BY <2>3, <1>8, <1>11, Zenon DEF k
      <3>2. l \in 0..5 /\ r.events + emit.events = r.events
        BY <2>1, <3>1, <1>10
      <3> QED BY <3>2, <1>10, Zenon
    <2> QED BY <1>1, <2>2, <2>3, Zenon DEF n
  <1>13. r = [handlers |-> r.handlers, setups |-> r.setups, begun |-> r.begun,
              calls |-> r.calls, events |-> r.events, raised |-> r.raised]
    BY Zenon DEF LogsKept
  <1>14. new = [handlers |-> r.handlers, setups |-> r.setups, begun |-> r.begun, calls |-> calls,
                events |-> r.events + emit.events, raised |-> emit.raised]
    BY <1>2, <1>13
  <1>15. /\ new.handlers = r.handlers /\ new.setups = r.setups /\ new.begun = r.begun
         /\ new.calls = calls /\ new.events = r.events + emit.events /\ new.raised = emit.raised
         /\ new = [handlers |-> new.handlers, setups |-> new.setups, begun |-> new.begun,
                   calls |-> new.calls, events |-> new.events, raised |-> new.raised]
    BY <1>14
  <1>16. LogsKept(in, new)
    <2>1. new.raised \in BOOLEAN /\ (new.raised => in.client.raiseSendErrors)
      BY <1>8, <1>15
    <2>2. /\ r.setups \in Nat /\ r.handlers = IF r.setups = 0 THEN <<>> ELSE <<in.handler>>
          /\ r.begun \in BOOLEAN /\ (r.begun => r.setups # 0)
      BY Zenon DEF LogsKept
    <2> QED BY <2>1, <2>2, <1>1, <1>9, <1>12, <1>15, Zenon DEF LogsKept, l
  <1> QED BY <1>16 DEF new, emit, call, calls, nested, one, after, tail

(* The calls that are left when the innermost returns. *)
LEMMA RestOfCalls ==
    ASSUME NEW in, NEW r, LogsKept(in, r), r.calls # <<>>
    PROVE  Tail(r.calls) \in Seq(Later) /\ Len(Tail(r.calls)) \in 0..5 /\ r.begun = TRUE
  <1> DEFINE it == Logging(in.record)
             calls == r.calls
  <1>1. calls = <<it>> \/ calls \in Seq(Later)
    BY DEF LogsKept
  <1>2. Len(calls) \in 0..5 /\ r.begun = TRUE
    BY DEF LogsKept
  <1>3. calls # <<>>
    OBVIOUS
  <1> HIDE DEF it, calls
  <1>4. CASE calls \in Seq(Later)
    <2>1. Tail(calls) \in Seq(Later) /\ Len(Tail(calls)) = Len(calls) - 1 /\ Len(calls) >= 1
      BY <1>3, <1>4, Rest, Zenon
    <2>2. Len(calls) - 1 \in 0..5
      BY <1>2, <2>1
    <2> QED BY <1>2, <2>1, <2>2, Zenon DEF calls
  <1>5. CASE calls = <<it>>
    <2>1. Tail(<<it>>) = <<>> /\ <<>> \in Seq(Later) /\ Len(<<>>) = 0 /\ 0 \in 0..5
      OBVIOUS
    <2> QED BY <1>2, <1>5, <2>1, Zenon DEF calls
  <1> QED BY <1>1, <1>4, <1>5

Logged == Answered("log") => LogsKept(input, result)

(* So for every step. *)
LEMMA LogStep ==
    ASSUME LogInput, Logged, [Next]_vars
    PROVE  Logged'
  <1>1. input' = input
    BY InputStays
  <1>2. CASE input.do # "log" \/ UNCHANGED vars
    BY <1>1, <1>2 DEF Logged, Answered, vars
  <1>3. CASE LogFirst
    <2> DEFINE none == <<>>
               new == [handlers |-> none, setups |-> 0, begun |-> FALSE, calls |-> none,
                       events |-> 0, raised |-> FALSE]
    <2>1. result' = new
      BY <1>3 DEF LogFirst, Answer
    <2>2. none \in Seq(Later) /\ Len(none) \in 0..5 /\ none = <<>>
      OBVIOUS
    <2> HIDE DEF none
    <2>3. LogsKept(input, new)
      BY <2>2 DEF LogsKept
    <2> QED BY <2>1, <2>3, <1>1 DEF Logged
  <1>4. CASE LogSetup
    <2>1. LogsKept(input, result)
      BY <1>4 DEF LogSetup, Going, Logged, Answered
    <2> DEFINE new == [result EXCEPT !.handlers = SetupLogging(@, input.handler), !.setups = @ + 1]
    <2>2. result' = new
      BY <1>4, Zenon DEF LogSetup, Answer
    <2>3. LogsKept(input, new)
      BY <2>1, SetupKeeps
    <2> QED BY <2>2, <2>3, <1>1, Zenon DEF Logged
  <1>5. CASE LogCalled
    <2> DEFINE calls == <<Logging(input.record)>>
               new == [result EXCEPT !.begun = TRUE, !.calls = calls]
    <2>1. LogsKept(input, result) /\ result.setups = input.setups /\ result.begun = FALSE
      BY <1>5 DEF LogCalled, Going, Logged, Answered, LogsKept
    <2>2. result' = new
      BY <1>5, Zenon DEF LogCalled, Answer
    <2>3. input.setups # 0
      BY <1>5 DEF LogCalled, Going, LogInput
    <2>4. Len(calls) \in 0..5
      <3> DEFINE it == Logging(input.record)
      <3> HIDE DEF it
      <3>1. Len(<<it>>) = 1
        OBVIOUS
      <3> QED BY <3>1 DEF it
    <2>5. result = [handlers |-> result.handlers, setups |-> result.setups, begun |-> result.begun,
                    calls |-> result.calls, events |-> result.events, raised |-> result.raised]
      BY <2>1, Zenon DEF LogsKept
    <2> HIDE DEF calls
    <2>6. new = [handlers |-> result.handlers, setups |-> result.setups, begun |-> TRUE,
                 calls |-> calls, events |-> result.events, raised |-> result.raised]
      <3> DEFINE begun == [result EXCEPT !.begun = TRUE]
      <3>1. \A b : [result EXCEPT !.begun = b] =
                [handlers |-> result.handlers, setups |-> result.setups, begun |-> b,
                 calls |-> result.calls, events |-> result.events, raised |-> result.raised]
        BY <2>5
      <3>2. begun = [handlers |-> result.handlers, setups |-> result.setups, begun |-> TRUE,
                     calls |-> result.calls, events |-> result.events, raised |-> result.raised]
        BY <3>1, Zenon
      <3>3. new = [begun EXCEPT !.calls = calls]
        OBVIOUS
      <3> HIDE DEF begun, new
      <3> QED BY <3>2, <3>3
    <2> HIDE DEF new
    <2>7. /\ new.handlers = result.handlers /\ new.setups = result.setups /\ new.begun = TRUE
          /\ new.calls = calls /\ new.events = result.events /\ new.raised = result.raised
          /\ new = [handlers |-> new.handlers, setups |-> new.setups, begun |-> new.begun,
                    calls |-> new.calls, events |-> new.events, raised |-> new.raised]
      BY <2>6
    <2>8. result.events = 0
      BY <2>1, Zenon DEF LogsKept
    <2>9. LogsKept(input, new)
      BY <2>1, <2>3, <2>4, <2>7, <2>8, Zenon DEF LogsKept, calls
    <2> QED BY <2>2, <2>9, <1>1, Zenon DEF Logged, new, calls
  <1>6. CASE LogEmit
    <2>1. LogsKept(input, result) /\ input.do = "log"
      BY <1>6 DEF LogEmit, Going, Logged, Answered
    <2>2. /\ input.handler \in Handlers /\ input.client \in LoggingClient
          /\ input.record \in RecordsOf(LoggerNames)
      BY <2>1, Zenon DEF LogInput, RecordsOf
    <2>3. result.calls # <<>> /\ Head(result.calls).next <= Len(result.handlers)
      BY <1>6 DEF LogEmit
    <2> DEFINE call == Head(result.calls)
               emit == Emit(result.handlers[call.next], input.client, call.record)
               new == [result EXCEPT
                          !.calls = [i \in DOMAIN emit.logs |-> Logging(emit.logs[i])]
                                    \o <<[call EXCEPT !.next = @ + 1]>> \o Tail(@),
                          !.events = @ + emit.events, !.raised = emit.raised]
    <2>4. result' = new
      BY <1>6, Zenon DEF LogEmit, Answer
    <2>5. LogsKept(input, new)
      BY <2>1, <2>2, <2>3, EmitKeeps, Zenon
    <2> HIDE DEF new
    <2> QED BY <2>4, <2>5, <1>1, Zenon DEF Logged
  <1>7. CASE LogReturn
    <2> DEFINE calls == Tail(result.calls)
               new == [result EXCEPT !.calls = calls]
    <2>1. LogsKept(input, result) /\ result.calls # <<>>
      BY <1>7, Zenon DEF LogReturn, Going, Logged, Answered
    <2>2. result' = new
      BY <1>7, Zenon DEF LogReturn, Answer
    <2>3. calls \in Seq(Later) /\ Len(calls) \in 0..5 /\ result.begun = TRUE
      BY <2>1, RestOfCalls, Zenon
    <2>4. result = [handlers |-> result.handlers, setups |-> result.setups, begun |-> result.begun,
                    calls |-> result.calls, events |-> result.events, raised |-> result.raised]
      BY <2>1, Zenon DEF LogsKept
    <2> HIDE DEF calls
    <2>5. new = [handlers |-> result.handlers, setups |-> result.setups, begun |-> result.begun,
                 calls |-> calls, events |-> result.events, raised |-> result.raised]
      <3>1. \A x : [result EXCEPT !.calls = x] =
                [handlers |-> result.handlers, setups |-> result.setups, begun |-> result.begun,
                 calls |-> x, events |-> result.events, raised |-> result.raised]
        BY <2>4
      <3> QED BY <3>1, Zenon
    <2> HIDE DEF new
    <2>6. /\ new.handlers = result.handlers /\ new.setups = result.setups
          /\ new.begun = result.begun /\ new.calls = calls /\ new.events = result.events
          /\ new.raised = result.raised
          /\ new = [handlers |-> new.handlers, setups |-> new.setups, begun |-> new.begun,
                    calls |-> new.calls, events |-> new.events, raised |-> new.raised]
      BY <2>5
    <2>7. LogsKept(input, new)
      BY <2>1, <2>3, <2>6, Zenon DEF LogsKept
    <2> QED BY <2>2, <2>7, <1>1, Zenon DEF Logged, new, calls
  <1>8. [Next]_vars /\ input.do = "log" =>
            UNCHANGED vars \/ LogFirst \/ LogSetup \/ LogCalled \/ LogEmit \/ LogReturn
    BY Questions DEF Next
  <1> QED BY <1>2, <1>3, <1>4, <1>5, <1>6, <1>7, <1>8

(* When no call is under way, the record has been reported once. *)
LEMMA LoggedReports ==
    ASSUME LogInput, Logged
    PROVE  LogReported
  <1>1. SUFFICES ASSUME Answered("log")
                 PROVE  /\ result.events <= 1 /\ Len(result.calls) <= 5
                        /\ result.events = 1 => input.record.name \in {"application", "raven_like"}
                        /\ result.raised => input.client.raiseSendErrors
    BY DEF LogReported
  <1>2. /\ result.events \in 0..1 /\ Len(result.calls) \in 0..5
        /\ result.events = 1 => input.record.name \notin OwnNames
        /\ result.raised => input.client.raiseSendErrors
    BY <1>1, Zenon DEF Logged, LogsKept
  <1>3. input.record.name \in LoggerNames
    BY <1>1 DEF Answered, LogInput
  <1>4. result.events = 1 => input.record.name \in {"application", "raven_like"}
    BY <1>2, <1>3 DEF OwnNames, LoggerNames
  <1>5. \A m \in 0..1, n \in 0..5 : m <= 1 /\ n <= 5
    OBVIOUS
  <1> QED BY <1>2, <1>4, <1>5, Zenon

(* The attributes of a record go where they belong. *)
LEMMA ExtractStep ==
    ASSUME LogInput, AttributesPlaced, [Next]_vars
    PROVE  AttributesPlaced'
  <1>1. input' = input
    BY InputStays
  <1>2. CASE input.do # "extract" \/ UNCHANGED vars
    BY <1>1, <1>2 DEF AttributesPlaced, Answered, vars
  <1>3. CASE input.do = "extract" /\ Next
    <2>1. Extract
      BY <1>3, Questions DEF Next
    <2> DEFINE attributes == input.attributes
               kept == {a \in attributes : a.kind \notin {"reserved", "private"}}
               top == {a \in kept : a.kind \in {"dotted", "contextual"}}
               base == CASE input.data = "dict" -> {"data's keys"} [] input.data = "value" -> {"data"}
                         [] input.data = None -> {}
               data == {a.name : a \in top}
               extra == base \cup {a.name : a \in kept \ top}
    <2>2. result'.data = data /\ result'.extra = extra
      BY <2>1 DEF Extract, Answer, ExtractExtra
    <2>3. /\ input.data \in {"dict", "value", None}
          /\ \A a, b \in attributes : a.name = b.name => a = b
          /\ \A a \in attributes :
                a.kind \in {"dotted", "contextual"} => a.name \notin {"data", "data's keys"}
      BY <1>3, Zenon DEF LogInput
    <2>4. base \subseteq {"data", "data's keys"}
      BY <2>3
    <2> HIDE DEF base
    <2>5. data \cap extra = {}
      BY <2>3, <2>4
    <2>6. {a.name : a \in kept} \subseteq data \cup extra
      OBVIOUS
    <2> QED BY <1>1, <2>2, <2>5, <2>6 DEF AttributesPlaced
  <1> QED BY <1>2, <1>3

(* The handlers of raven. *)
Ours(handlers) == {i \in DOMAIN handlers : handlers[i].class = "SentryHandler"}

(* The handlers of Celery's logger once the signal has been sent: those    *)
(* that were given, and the first of raven's, if not another, filters.     *)
Filtered(handlers, given) ==
    /\ handlers \in Seq(LogHandler)
    /\ \A i \in DOMAIN given : i \in DOMAIN handlers /\ handlers[i].class = given[i].class
    /\ \E first \in Ours(handlers) :
          handlers[first].filter = TRUE /\ \A j \in Ours(handlers) : first <= j
    /\ (\A i, j \in Ours(given) : i = j) => \A i, j \in Ours(handlers) : i = j

(* The signal filters. *)
LEMMA SignalFilters ==
    ASSUME NEW handlers \in Seq(LogHandler)
    PROVE  Filtered(ProcessLoggerEvent(handlers), handlers)
  <1> DEFINE found == {i \in DOMAIN handlers : handlers[i].class = "SentryHandler"}
             first == CHOOSE i \in found : \A j \in found : i <= j
             new == ProcessLoggerEvent(handlers)
             n == Len(handlers)
  <1>1. n \in Nat /\ DOMAIN handlers = 1..n
    OBVIOUS
  <1>2. found = Ours(handlers) /\ found \subseteq 1..n
    BY <1>1 DEF Ours
  <1>3. CASE found = {}
    <2> DEFINE one == [class |-> "SentryHandler", filter |-> TRUE]
    <2>1. new = Append(handlers, one)
      BY <1>3 DEF ProcessLoggerEvent
    <2>2. one \in LogHandler /\ one.class = "SentryHandler" /\ one.filter = TRUE
      BY DEF LogHandler
    <2> HIDE DEF one, new
    <2>3. new \in Seq(LogHandler) /\ Len(new) = n + 1 /\ new[n + 1] = one
          /\ (\A i \in 1..n : new[i] = handlers[i]) /\ DOMAIN new = 1..(n + 1)
      BY <2>1, <2>2
    <2>4. Ours(new) = {n + 1}
      BY <2>2, <2>3, <1>1, <1>2, <1>3 DEF Ours
    <2>5. \A i \in DOMAIN handlers : i \in DOMAIN new /\ new[i].class = handlers[i].class
      BY <2>3, <1>1
    <2>6. new[n + 1].filter = TRUE /\ n + 1 \in Nat
      BY <2>2, <2>3, <1>1
    <2>7. Filtered(new, handlers)
      BY <2>3, <2>4, <2>5, <2>6 DEF Filtered
    <2> QED BY <2>7 DEF new
  <1>4. CASE found # {}
    <2>1. first \in found /\ \A j \in found : first <= j
      <3>1. \E i \in found : \A j \in found : i <= j
        <4> HIDE DEF found
        <4>1. found \subseteq Nat
          BY <1>2
        <4> QED BY <1>4, <4>1, Least
      <3> HIDE DEF found
      <3> QED BY <3>1
    <2>2. new = [handlers EXCEPT ![first].filter = TRUE]
      BY <1>4 DEF ProcessLoggerEvent
    <2> HIDE DEF first, new
    <2>3. /\ new \in Seq(LogHandler) /\ DOMAIN new = 1..n
          /\ \A i \in 1..n : i # first => new[i] = handlers[i]
          /\ new[first].class = handlers[first].class /\ new[first].filter = TRUE
      <3>1. handlers[first] \in LogHandler
        BY <2>1, <1>1, <1>2
      <3>2. [handlers[first] EXCEPT !.filter = TRUE] = [class |-> handlers[first].class, filter |-> TRUE]
        <4>1. handlers[first] = [class |-> handlers[first].class, filter |-> handlers[first].filter]
          BY <3>1 DEF LogHandler
        <4>2. \A h, b : h = [class |-> h.class, filter |-> h.filter] =>
                           [h EXCEPT !.filter = b] = [class |-> h.class, filter |-> b]
          OBVIOUS
        <4> QED BY <4>1, <4>2, Zenon
      <3>3. [class |-> handlers[first].class, filter |-> TRUE] \in LogHandler
        BY <3>1 DEF LogHandler
      <3> DEFINE it == [class |-> handlers[first].class, filter |-> TRUE]
      <3>4. new = [handlers EXCEPT ![first] = it]
        BY <2>2, <3>2
      <3>5. it.class = handlers[first].class /\ it.filter = TRUE
        OBVIOUS
      <3> HIDE DEF it
      <3>6. it \in LogHandler
        BY <3>3 DEF it
      <3>7. new \in Seq(LogHandler) /\ DOMAIN new = 1..n /\ new[first] = it
            /\ \A i \in 1..n : i # first => new[i] = handlers[i]
        BY <3>4, <3>6, <1>1, <1>2, <2>1
      <3> QED BY <3>5, <3>7
    <2>4. \A i \in 1..n : new[i].class = handlers[i].class
      BY <2>3
    <2>5. Ours(new) = found
      BY <2>3, <2>4, <1>1 DEF Ours
    <2>6. Filtered(new, handlers)
      BY <2>1, <2>3, <2>4, <2>5, <1>1, <1>2 DEF Filtered
    <2> QED BY <2>6 DEF new
  <1> QED BY <1>3, <1>4

(* Once is enough. *)
LEMMA SignalAgain ==
    ASSUME NEW handlers, NEW given, Filtered(handlers, given)
    PROVE  ProcessLoggerEvent(handlers) = handlers
  <1> DEFINE found == {i \in DOMAIN handlers : handlers[i].class = "SentryHandler"}
             first == CHOOSE i \in found : \A j \in found : i <= j
             n == Len(handlers)
  <1>1. /\ handlers \in Seq(LogHandler) /\ found = Ours(handlers)
        /\ n \in Nat /\ DOMAIN handlers = 1..n /\ found \subseteq Nat
    BY DEF Filtered, Ours
  <1>2. PICK f \in found : handlers[f].filter = TRUE /\ \A j \in found : f <= j
    BY <1>1, Zenon DEF Filtered
  <1>3. first = f
    <2> HIDE DEF found
    <2>1. first \in found /\ \A j \in found : first <= j
      BY <1>2
    <2>2. first <= f /\ f <= first /\ first \in Nat /\ f \in Nat
      BY <1>1, <1>2, <2>1
    <2> QED BY <2>2
  <1>4. ProcessLoggerEvent(handlers) = [handlers EXCEPT ![f].filter = TRUE]
    BY <1>2, <1>3 DEF ProcessLoggerEvent
  <1>5. handlers[f] \in LogHandler
    BY <1>1, <1>2
  <1>6. [handlers[f] EXCEPT !.filter = TRUE] = handlers[f]
    BY <1>2, <1>5 DEF LogHandler
  <1>7. ProcessLoggerEvent(handlers) = [handlers EXCEPT ![f] = handlers[f]]
    BY <1>4, <1>6
  <1> QED BY <1>7, <1>1, <1>2

(* A record is reported once where raven has one handler. *)
TaskFailed(record) ==
    record.data = FALSE \/ (record.data = None /\ record.function = "_log_error")

(* Of those handlers one reports a record, unless it is of a task that failed. *)
LEMMA FilteredReports ==
    ASSUME NEW handlers, NEW given, Filtered(handlers, given), NEW record,
           record.data \in Nones(BOOLEAN)
    PROVE  /\ Ours(handlers) # {}
           /\ (\A i, j \in Ours(given) : i = j) =>
                 Cardinality(CeleryReports(handlers, record)) = IF TaskFailed(record) THEN 0 ELSE 1
  <1> DEFINE reports == CeleryReports(handlers, record)
  <1>1. PICK f \in Ours(handlers) : handlers[f].filter = TRUE /\ \A j \in Ours(handlers) : f <= j
    BY Zenon DEF Filtered
  <1>2. CeleryFilter(record) <=> ~ TaskFailed(record)
    BY NoneAssumption DEF CeleryFilter, Nones, TaskFailed
  <1>3. ASSUME \A i, j \in Ours(given) : i = j
        PROVE  Cardinality(reports) = IF TaskFailed(record) THEN 0 ELSE 1
    <2>1. \A i, j \in Ours(handlers) : i = j
      BY <1>3, Zenon DEF Filtered
    <2>2. reports = IF TaskFailed(record) THEN {} ELSE {f}
      BY <1>1, <1>2, <2>1 DEF CeleryReports, Ours
    <2>3. Cardinality({}) = 0 /\ Cardinality({f}) = 1
      BY FS_EmptySet, FS_Singleton
    <2> HIDE DEF reports
    <2> QED BY <2>2, <2>3
  <1> QED BY <1>1, <1>3

(* A record of Celery, as often as its signal was sent. *)
CeleryKept(in, r) ==
    /\ r.setups \in Nat
    /\ r.setups = 0 => r.handlers = in.handlers
    /\ r.setups # 0 =>
          Filtered(r.handlers, in.handlers) /\ r.reports = CeleryReports(r.handlers, in.record)
Signalled == Answered("celery") => CeleryKept(input, result)

(* So each time the signal is sent, *)
LEMMA CeleryStep ==
    ASSUME LogInput, Signalled, [Next]_vars
    PROVE  Signalled'
  <1>1. input' = input
    BY InputStays
  <1>2. CASE input.do # "celery" \/ UNCHANGED vars
    BY <1>1, <1>2 DEF Signalled, Answered, vars
  <1>3. CASE CeleryFirst
    <2>1. result' = [handlers |-> input.handlers, setups |-> 0, reports |-> {}]
      BY <1>3 DEF CeleryFirst, Answer
    <2>2. result'.setups = 0 /\ result'.handlers = input.handlers
      BY <2>1
    <2>3. CeleryKept(input, result')
      BY <2>2 DEF CeleryKept
    <2> QED BY <2>3, <1>1, Zenon DEF Signalled
  <1>4. CASE CelerySetup
    <2> DEFINE handlers == ProcessLoggerEvent(result.handlers)
    <2>1. CeleryKept(input, result) /\ input.handlers \in Seq(LogHandler)
      BY <1>4, Zenon DEF CelerySetup, Going, Signalled, Answered, LogInput
    <2>2. /\ result'.handlers = handlers /\ result'.setups = result.setups + 1
          /\ result'.reports = CeleryReports(handlers, input.record)
      BY <1>4 DEF CelerySetup, Answer
    <2>3. Filtered(handlers, input.handlers)
      <3>1. CASE result.setups = 0
        BY <3>1, <2>1, SignalFilters, Zenon DEF CeleryKept
      <3>2. CASE result.setups # 0
        <4>1. Filtered(result.handlers, input.handlers)
          BY <3>2, <2>1, Zenon DEF CeleryKept
        <4> QED BY <4>1, SignalAgain, Zenon
      <3> QED BY <3>1, <3>2
    <2>4. result'.setups \in Nat /\ result'.setups # 0
      BY <2>1, <2>2 DEF CeleryKept
    <2> HIDE DEF handlers
    <2>5. CeleryKept(input, result')
      BY <2>2, <2>3, <2>4, Zenon DEF CeleryKept
    <2> QED BY <2>5, <1>1, Zenon DEF Signalled
  <1>5. [Next]_vars /\ input.do = "celery" => UNCHANGED vars \/ CeleryFirst \/ CelerySetup
    BY Questions DEF Next
  <1> QED BY <1>2, <1>3, <1>4, <1>5

(* and a failed task is reported by its signal alone. *)
LEMMA SignalledReports ==
    ASSUME LogInput, Signalled
    PROVE  TasksReportedOnce
  <1>1. SUFFICES ASSUME Answered("celery"), result.setups > 0
                 PROVE  TasksReportedOnce
    BY DEF TasksReportedOnce
  <1>2. CeleryKept(input, result) /\ result.setups # 0
    BY <1>1 DEF Signalled, CeleryKept
  <1>3. Filtered(result.handlers, input.handlers)
        /\ result.reports = CeleryReports(result.handlers, input.record)
    BY <1>2, Zenon DEF CeleryKept
  <1>4. input.record.data \in Nones(BOOLEAN)
    BY <1>1 DEF Answered, LogInput
  <1>5. \A i \in DOMAIN input.handlers :
           i \in DOMAIN result.handlers /\ result.handlers[i].class = input.handlers[i].class
    BY <1>3, Zenon DEF Filtered
  <1>6. /\ Ours(result.handlers) # {}
        /\ (\A i, j \in Ours(input.handlers) : i = j) =>
              Cardinality(result.reports) = IF TaskFailed(input.record) THEN 0 ELSE 1
    BY <1>3, <1>4, FilteredReports, Zenon
  <1> QED BY <1>5, <1>6 DEF TasksReportedOnce, Ours, TaskFailed

-----------------------------------------------------------------------------
(* Settings *)

-----------------------------------------------------------------------------
(* What is registered of a transport, and what was before. *)
Registering(in, r, before) ==
    /\ Extends(r.schemes, before)
    /\ r.done \in Nat
    /\ ~ r.raised =>
          DOMAIN r.schemes \ DOMAIN before =
              {in.transports[Len(r.seen)].schemes[k] : k \in 1..r.done}

SchemesRegistered(in, r) ==
    /\ r = [schemes |-> r.schemes, raised |-> r.raised, done |-> r.done, seen |-> r.seen]
    /\ IsSeq(r.seen) /\ Len(r.seen) >= 1
    /\ Registering(in, r, r.seen[Len(r.seen)].schemes)
    /\ \A i \in 2..Len(r.seen) :
          /\ Extends(r.seen[i].schemes, r.seen[i - 1].schemes)
          /\ ~ r.seen[i].raised =>
                ToSet(in.transports[i - 1].schemes) =
                    DOMAIN r.seen[i].schemes \ DOMAIN r.seen[i - 1].schemes

(* One scheme more. *)
LEMMA RegisterKeeps ==
    ASSUME NEW in, NEW r, SchemesRegistered(in, r), NEW class
    PROVE  SchemesRegistered(in, [RegisterScheme(r, in.transports[Len(r.seen)].schemes[r.done + 1],
                                                 class) EXCEPT !.done = @ + 1])
  <1> DEFINE before == r.seen[Len(r.seen)].schemes
             given == in.transports[Len(r.seen)].schemes
             scheme == given[r.done + 1]
             next == RegisterScheme(r, scheme, class)
             schemes == Put(r.schemes, scheme, class)
             yes == TRUE
             taken == r.raised \/ scheme \in DOMAIN r.schemes
             new == [RegisterScheme(r, in.transports[Len(r.seen)].schemes[r.done + 1], class)
                        EXCEPT !.done = @ + 1]
             all == {given[k] : k \in 1..(r.done + 1)}
             some == {given[k] : k \in 1..r.done}
  <1>1. /\ r = [schemes |-> r.schemes, raised |-> r.raised, done |-> r.done, seen |-> r.seen]
        /\ Registering(in, r, before)
    BY Zenon DEF SchemesRegistered
  <1>2. /\ \A k \in DOMAIN before : k \in DOMAIN r.schemes /\ r.schemes[k] = before[k]
        /\ ~ r.raised => DOMAIN r.schemes \ DOMAIN before = some
        /\ r.done \in Nat
    BY <1>1, Zenon DEF Registering, Extends
  <1>3. IF taken THEN next = [r EXCEPT !.raised = yes] ELSE next = [r EXCEPT !.schemes = schemes]
    BY DEF RegisterScheme
  <1>4. new = [next EXCEPT !.done = @ + 1]
    OBVIOUS
  <1>5. all = some \cup {scheme}
    <2> HIDE DEF given
    <2>1. \A k \in 1..(r.done + 1) : k \in 1..r.done \/ k = r.done + 1
      BY <1>2
    <2>2. 1..r.done \subseteq 1..(r.done + 1) /\ r.done + 1 \in 1..(r.done + 1)
      BY <1>2
    <2> QED BY <2>1, <2>2
  <1>6. /\ DOMAIN schemes = DOMAIN r.schemes \cup {scheme}
        /\ \A k \in DOMAIN r.schemes : scheme \notin DOMAIN r.schemes => schemes[k] = r.schemes[k]
    BY DEF Put
  <1> HIDE DEF next, schemes, scheme, taken, before, yes, all, some, new
  <1>7. CASE taken
    <2>1. next = [schemes |-> r.schemes, raised |-> yes, done |-> r.done, seen |-> r.seen]
      BY <1>1, <1>3, <1>7
    <2>2. new = [schemes |-> r.schemes, raised |-> yes, done |-> r.done + 1, seen |-> r.seen]
      BY <1>4, <2>1
    <2>3. /\ new.schemes = r.schemes /\ new.raised = yes /\ new.done = r.done + 1
          /\ new.seen = r.seen
          /\ new = [schemes |-> new.schemes, raised |-> new.raised, done |-> new.done,
                    seen |-> new.seen]
      BY <2>2
    <2>4. new.done \in Nat
      BY <1>2, <2>3
    <2>5. Extends(new.schemes, before) /\ new.raised
      BY <1>2, <2>3 DEF Extends, yes
    <2>6. Registering(in, new, before)
      BY <2>4, <2>5, Zenon DEF Registering
    <2>7. SchemesRegistered(in, new)
      BY <2>3, <2>6, Zenon DEF SchemesRegistered, before
    <2> QED BY <2>7 DEF new
  <1>8. CASE ~ taken
    <2>1. next = [schemes |-> schemes, raised |-> r.raised, done |-> r.done, seen |-> r.seen]
      BY <1>1, <1>3, <1>8
    <2>2. new = [schemes |-> schemes, raised |-> r.raised, done |-> r.done + 1, seen |-> r.seen]
      BY <1>4, <2>1
    <2>3. /\ new.schemes = schemes /\ new.raised = r.raised /\ new.done = r.done + 1
          /\ new.seen = r.seen
          /\ new = [schemes |-> new.schemes, raised |-> new.raised, done |-> new.done,
                    seen |-> new.seen]
      BY <2>2
    <2>4. new.done \in Nat
      BY <1>2, <2>3
    <2>5. scheme \notin DOMAIN r.schemes /\ ~ r.raised
      BY <1>8 DEF taken
    <2>6. Extends(schemes, before)
      BY <1>2, <1>6, <2>5 DEF Extends
    <2>7. DOMAIN schemes \ DOMAIN before = all
      BY <1>2, <1>5, <1>6, <2>5
    <2>8. all = {in.transports[Len(new.seen)].schemes[k] : k \in 1..new.done}
      BY <2>3, Zenon DEF all
    <2>9. Registering(in, new, before)
      BY <2>3, <2>4, <2>6, <2>7, <2>8, Zenon DEF Registering
    <2>10. SchemesRegistered(in, new)
      BY <2>3, <2>9, Zenon DEF SchemesRegistered, before
    <2> QED BY <2>10 DEF new
  <1> QED BY <1>7, <1>8

Registered == Answered("register") => SchemesRegistered(input, result)

(* So for every step, *)
LEMMA RegisterStep ==
    ASSUME SettingInput, Registered, [Next]_vars
    PROVE  Registered'
  <1>1. input' = input
    BY InputStays
  <1>2. CASE input.do # "register" \/ UNCHANGED vars
    BY <1>1, <1>2 DEF Registered, Answered, vars
  <1>3. CASE RegisterFirst
    <2> DEFINE one == [schemes |-> <<>>, raised |-> FALSE]
               seen == <<one>>
               new == [schemes |-> <<>>, raised |-> FALSE, done |-> 0, seen |-> seen]
    <2>1. result' = new
      BY <1>3 DEF RegisterFirst, Answer
    <2>2. one.schemes = <<>>
      OBVIOUS
    <2> HIDE DEF one
    <2>3. IsSeq(seen) /\ Len(seen) = 1 /\ seen[1] = one
      BY IsOne
    <2> HIDE DEF seen
    <2>4. /\ new.schemes = <<>> /\ new.raised = FALSE /\ new.done = 0 /\ new.seen = seen
          /\ new = [schemes |-> new.schemes, raised |-> new.raised, done |-> new.done,
                    seen |-> new.seen]
      OBVIOUS
    <2> HIDE DEF new
    <2>5. Extends(new.schemes, <<>>) /\ DOMAIN new.schemes \ DOMAIN <<>> = {}
      BY <2>4 DEF Extends
    <2>6. {input.transports[Len(new.seen)].schemes[k] : k \in 1..new.done} = {}
      BY <2>4
    <2>7. Registering(input, new, <<>>)
      BY <2>4, <2>5, <2>6 DEF Registering
    <2>8. SchemesRegistered(input, new)
      <3>0. 1 >= 1 /\ \A i \in 2..1 : FALSE
        OBVIOUS
      <3>1. Len(new.seen) >= 1 /\ new.seen[Len(new.seen)].schemes = <<>>
        BY <2>2, <2>3, <2>4, <3>0, Zenon
      <3>2. \A i \in 2..Len(new.seen) : FALSE
        BY <2>3, <2>4, <3>0, Zenon
      <3> QED BY <2>3, <2>4, <2>7, <3>1, <3>2, Zenon DEF SchemesRegistered
    <2> QED BY <2>1, <2>8, <1>1, Zenon DEF Registered, new, seen, one
  <1>4. CASE RegisterNext
    <2> DEFINE transport == input.transports[Len(result.seen)]
               new == [RegisterScheme(result, transport.schemes[result.done + 1], transport.class)
                          EXCEPT !.done = @ + 1]
    <2>1. SchemesRegistered(input, result)
      BY <1>4, Zenon DEF RegisterNext, Going, Answered, Registered
    <2>2. result' = new
      BY <1>4, Zenon DEF RegisterNext, Answer
    <2>3. SchemesRegistered(input, new)
      BY <2>1, RegisterKeeps, Zenon
    <2> HIDE DEF new
    <2> QED BY <2>2, <2>3, <1>1, Zenon DEF Registered
  <1>5. CASE RegisterReturn
    <2> DEFINE n == Len(result.seen)
               it == [schemes |-> result.schemes, raised |-> result.raised]
               seen == Append(result.seen, it)
               given == input.transports[n].schemes
    <2>1. SchemesRegistered(input, result) /\ input.do = "register"
      BY <1>5, Zenon DEF RegisterReturn, Going, Answered, Registered
    <2>2. result.done = Len(given) /\ n <= Len(input.transports)
      BY <1>5, Zenon DEF RegisterReturn
    <2>3. result' = [result EXCEPT !.raised = FALSE, !.done = 0, !.seen = seen]
      BY <1>5, Zenon DEF RegisterReturn, Answer
    <2>4. /\ result = [schemes |-> result.schemes, raised |-> result.raised,
                       done |-> result.done, seen |-> result.seen]
          /\ IsSeq(result.seen) /\ n >= 1
          /\ Registering(input, result, result.seen[n].schemes)
          /\ \A i \in 2..n :
                /\ Extends(result.seen[i].schemes, result.seen[i - 1].schemes)
                /\ ~ result.seen[i].raised =>
                      ToSet(input.transports[i - 1].schemes) =
                          DOMAIN result.seen[i].schemes \ DOMAIN result.seen[i - 1].schemes
      BY <2>1, Zenon DEF SchemesRegistered
    <2>5. it.schemes = result.schemes /\ it.raised = result.raised
      OBVIOUS
    <2> HIDE DEF it
    <2>6. /\ IsSeq(seen) /\ n \in Nat /\ Len(seen) = n + 1 /\ seen[n + 1] = it
          /\ \A i \in 1..n : seen[i] = result.seen[i]
      BY <2>4, Grown
    <2> HIDE DEF seen, n
    <2>7. /\ result'.schemes = result.schemes /\ result'.raised = FALSE /\ result'.done = 0
          /\ result'.seen = seen
          /\ result' = [schemes |-> result'.schemes, raised |-> result'.raised,
                        done |-> result'.done, seen |-> result'.seen]
      <3> DEFINE no == FALSE
                 calm == [result EXCEPT !.raised = no]
                 idle == [calm EXCEPT !.done = 0]
      <3>1. result' = [idle EXCEPT !.seen = seen]
        BY <2>3
      <3> HIDE DEF no
      <3>2. calm = [schemes |-> result.schemes, raised |-> no, done |-> result.done,
                    seen |-> result.seen]
        BY <2>4
      <3> HIDE DEF calm
      <3>3. idle = [schemes |-> result.schemes, raised |-> no, done |-> 0, seen |-> result.seen]
        BY <3>2
      <3> HIDE DEF idle
      <3>4. result' = [schemes |-> result.schemes, raised |-> no, done |-> 0, seen |-> seen]
        BY <3>1, <3>3
      <3>5. /\ result'.schemes = result.schemes /\ result'.raised = no /\ result'.done = 0
            /\ result'.seen = seen
            /\ result' = [schemes |-> result'.schemes, raised |-> result'.raised,
                          done |-> result'.done, seen |-> result'.seen]
        BY <3>4
      <3> QED BY <3>5 DEF no
    <2>8. DOMAIN given = 1..Len(given)
      <3>1. /\ input.transports \in Seq(Transport) /\ n \in 1..Len(input.transports)
        BY <2>1, <2>2, <2>4, <2>6 DEF SettingInput, n
      <3>2. input.transports[n] \in Transport
        BY <3>1
      <3>3. \A t \in Transport : DOMAIN t.schemes = 1..Len(t.schemes)
        BY DEF Transport
      <3> QED BY <3>2, <3>3, Zenon
    <2>9. ~ result.raised => DOMAIN result.schemes \ DOMAIN result.seen[n].schemes = ToSet(given)
      <3>1. ASSUME ~ result.raised
            PROVE  DOMAIN result.schemes \ DOMAIN result.seen[n].schemes = {given[k] : k \in 1..result.done}
        BY <3>1, <2>4, Zenon DEF Registering, n
      <3>2. {given[k] : k \in 1..result.done} = ToSet(given)
        <4> HIDE DEF given
        <4> QED BY <2>2, <2>8 DEF ToSet
      <3> QED BY <3>1, <3>2, Zenon
    <2> HIDE DEF given
    <2>10. Extends(result.schemes, result.seen[n].schemes)
      BY <2>4, Zenon DEF Registering
    <2>11. Registering(input, result', seen[n + 1].schemes)
      <3>1. {input.transports[Len(result'.seen)].schemes[k] : k \in 1..result'.done} = {}
        BY <2>7
      <3>2. Extends(result'.schemes, seen[n + 1].schemes)
            /\ DOMAIN result'.schemes \ DOMAIN seen[n + 1].schemes = {}
        BY <2>5, <2>6, <2>7 DEF Extends
      <3>3. 0 \in Nat
        OBVIOUS
      <3> QED BY <3>1, <3>2, <3>3, <2>7, Zenon DEF Registering
    <2>12. ASSUME NEW i \in 2..(n + 1)
           PROVE  /\ Extends(seen[i].schemes, seen[i - 1].schemes)
                  /\ ~ seen[i].raised =>
                        ToSet(input.transports[i - 1].schemes) =
                            DOMAIN seen[i].schemes \ DOMAIN seen[i - 1].schemes
      <3>1. CASE i = n + 1
        <4>1. seen[i] = it /\ seen[i - 1] = result.seen[n] /\ i - 1 = n
          BY <3>1, <2>4, <2>6 DEF n
        <4> QED BY <4>1, <2>5, <2>9, <2>10, Zenon DEF given
      <3>2. CASE i # n + 1
        <4>1. i \in 2..n /\ seen[i] = result.seen[i] /\ seen[i - 1] = result.seen[i - 1]
          BY <3>2, <2>6
        <4> QED BY <4>1, <2>4, Zenon DEF n
      <3> QED BY <3>1, <3>2
    <2>13. n + 1 >= 1
      BY <2>6
    <2>14. SchemesRegistered(input, result')
      BY <2>6, <2>7, <2>11, <2>12, <2>13, Zenon DEF SchemesRegistered
    <2> QED BY <2>14, <1>1, Zenon DEF Registered
  <1>6. [Next]_vars /\ input.do = "register" =>
            UNCHANGED vars \/ RegisterFirst \/ RegisterNext \/ RegisterReturn
    BY Questions DEF Next
  <1> QED BY <1>2, <1>3, <1>4, <1>5, <1>6

(* and each scheme stays with who registered it first. *)
LEMMA RegisteredSchemes ==
    ASSUME Registered
    PROVE  SchemesKept
  <1>1. SUFFICES ASSUME Answered("register")
                 PROVE  SchemesKept
    BY DEF SchemesKept
  <1>2. \A i \in 2..Len(result.seen) :
          /\ Extends(result.seen[i].schemes, result.seen[i - 1].schemes)
          /\ ~ result.seen[i].raised =>
                ToSet(input.transports[i - 1].schemes) =
                    DOMAIN result.seen[i].schemes \ DOMAIN result.seen[i - 1].schemes
    BY <1>1, Zenon DEF Registered, SchemesRegistered
  <1> QED BY <1>2, Zenon DEF SchemesKept, Extends

(* A client that set_dsn() was called on: its remotes, by their DSN. *)
RemotesCached(client) ==
    /\ client = [cache |-> client.cache, remote |-> client.remote, made |-> client.made,
                 raised |-> client.raised]
    /\ \A key \in DOMAIN client.cache : client.cache[key].dsn = key
    /\ client.remote # None =>
          /\ client.remote.dsn \in DOMAIN client.cache
          /\ client.cache[client.remote.dsn] = client.remote

(* What set_dsn() leaves as it was. *)
SetFrom(new, old) ==
    RemotesCached(new) /\ Extends(new.cache, old.cache)
    /\ (new.raised => new.remote = old.remote)

(* One set_dsn(). *)
LEMMA SetDsnKeeps ==
    ASSUME NEW client, RemotesCached(client), NEW dsn, NEW transport, NEW environment,
           NEW schemes, NEW default
    PROVE  SetFrom(SetDsn(client, dsn, transport, environment, schemes, default), client)
  <1> DEFINE chosen == IF dsn = None THEN environment ELSE dsn
             remote == IF chosen = None THEN NoRemote(transport, default)
                       ELSE FromString(chosen, transport, schemes)
             made == Put(remote, "number", client.made + 1)
             cache == Remember(client.cache, chosen, made)
             yes == TRUE
             no == FALSE
             new == SetDsn(client, dsn, transport, environment, schemes, default)
  <1>1. /\ client = [cache |-> client.cache, remote |-> client.remote, made |-> client.made,
                     raised |-> client.raised]
        /\ \A key \in DOMAIN client.cache : client.cache[key].dsn = key
        /\ client.remote # None =>
              /\ client.remote.dsn \in DOMAIN client.cache
              /\ client.cache[client.remote.dsn] = client.remote
    BY Zenon DEF RemotesCached
  <1>2. /\ chosen \in DOMAIN client.cache =>
              new = [client EXCEPT !.remote = client.cache[chosen], !.raised = no]
        /\ chosen \notin DOMAIN client.cache /\ remote = None => new = [client EXCEPT !.raised = yes]
        /\ chosen \notin DOMAIN client.cache /\ remote # None =>
              new = [cache |-> cache, remote |-> made, made |-> client.made + 1, raised |-> no]
    BY DEF SetDsn
  <1>3. remote # None => made.dsn = chosen
    <2>1. remote # None => remote.dsn = chosen /\ "dsn" \in DOMAIN remote
      BY DEF NoRemote, FromString
    <2> HIDE DEF remote
    <2>2. "dsn" \in DOMAIN remote => made["dsn"] = remote["dsn"]
      BY DEF Put
    <2> HIDE DEF made
    <2> QED BY <2>1, <2>2
  <1> HIDE DEF chosen, remote, made, no, yes
  <1>4. /\ DOMAIN cache = DOMAIN client.cache \cup {chosen} /\ cache[chosen] = made
        /\ \A k \in DOMAIN client.cache : k # chosen => cache[k] = client.cache[k]
    BY DEF Remember, Put
  <1> HIDE DEF cache, new
  <1>5. CASE chosen \in DOMAIN client.cache
    <2> DEFINE calm == [client EXCEPT !.remote = client.cache[chosen]]
               found == client.cache[chosen]
    <2>1. new = [calm EXCEPT !.raised = no]
      BY <1>2, <1>5
    <2> HIDE DEF found
    <2>2. calm = [cache |-> client.cache, remote |-> found, made |-> client.made,
                  raised |-> client.raised]
      BY <1>1 DEF found
    <2> HIDE DEF calm
    <2>3. new = [cache |-> client.cache, remote |-> found, made |-> client.made, raised |-> no]
      BY <2>1, <2>2
    <2>4. /\ new.cache = client.cache /\ new.remote = found /\ new.raised = no
          /\ new = [cache |-> new.cache, remote |-> new.remote, made |-> new.made,
                    raised |-> new.raised]
      BY <2>3
    <2>5. found.dsn = chosen
      BY <1>1, <1>5, Zenon DEF found
    <2>6. RemotesCached(new)
      BY <1>1, <1>5, <2>4, <2>5, Zenon DEF RemotesCached, found
    <2>7. Extends(new.cache, client.cache) /\ ~ new.raised
      BY <2>4 DEF Extends, no
    <2> QED BY <2>6, <2>7, Zenon DEF SetFrom, new
  <1>6. CASE chosen \notin DOMAIN client.cache /\ remote = None
    <2>1. new = [cache |-> client.cache, remote |-> client.remote, made |-> client.made, raised |-> yes]
      BY <1>1, <1>2, <1>6
    <2>2. /\ new.cache = client.cache /\ new.remote = client.remote
          /\ new = [cache |-> new.cache, remote |-> new.remote, made |-> new.made,
                    raised |-> new.raised]
      BY <2>1
    <2>3. RemotesCached(new)
      BY <1>1, <2>2, Zenon DEF RemotesCached
    <2>4. Extends(new.cache, client.cache)
      BY <2>2 DEF Extends
    <2> QED BY <2>2, <2>3, <2>4, Zenon DEF SetFrom, new
  <1>7. CASE chosen \notin DOMAIN client.cache /\ remote # None
    <2>1. new = [cache |-> cache, remote |-> made, made |-> client.made + 1, raised |-> no]
      BY <1>2, <1>7
    <2>2. /\ new.cache = cache /\ new.remote = made /\ new.raised = no
          /\ new = [cache |-> new.cache, remote |-> new.remote, made |-> new.made,
                    raised |-> new.raised]
      BY <2>1
    <2>3. \A key \in DOMAIN cache : cache[key].dsn = key
      BY <1>1, <1>3, <1>4, <1>7
    <2>4. RemotesCached(new)
      <3>1. made.dsn = chosen /\ chosen \in DOMAIN cache
        BY <1>3, <1>4, <1>7
      <3> QED BY <1>4, <2>2, <2>3, <3>1, Zenon DEF RemotesCached
    <2>5. Extends(new.cache, client.cache) /\ ~ new.raised
      BY <1>4, <1>7, <2>2 DEF Extends, no
    <2> QED BY <2>4, <2>5, Zenon DEF SetFrom, new
  <1> QED BY <1>5, <1>6, <1>7

(* A client, as often as set_dsn() has been called. *)
Remotes ==
    Answered("dsn") =>
        /\ IsSeq(result) /\ Len(result) >= 1
        /\ \A i \in 1..Len(result) :
              RemotesCached(result[i]) /\ Extends(result[Len(result)].cache, result[i].cache)
        /\ \A i \in 2..Len(result) : result[i].raised => result[i].remote = result[i - 1].remote

(* So for every step, *)
LEMMA DsnStep ==
    ASSUME Remotes, [Next]_vars
    PROVE  Remotes'
  <1>1. input' = input
    BY InputStays
  <1>2. CASE input.do # "dsn" \/ UNCHANGED vars
    BY <1>1, <1>2 DEF Remotes, Answered, vars
  <1>3. CASE DsnFirst
    <2> DEFINE new == NewClient
    <2>1. result' = <<new>>
      BY <1>3 DEF DsnFirst, Answer
    <2>2. RemotesCached(new) /\ Extends(new.cache, new.cache)
      BY DEF RemotesCached, NewClient, Extends
    <2> HIDE DEF new
    <2>3. IsSeq(result') /\ Len(result') = 1 /\ result'[1] = new
      BY <2>1, IsOne
    <2>4. \A i \in 1..Len(result') :
             RemotesCached(result'[i]) /\ Extends(result'[Len(result')].cache, result'[i].cache)
      <3>1. \A i \in 1..1 : i = 1
        OBVIOUS
      <3> QED BY <2>2, <2>3, <3>1, Zenon
    <2>5. 1 >= 1 /\ \A i \in 2..1 : FALSE
      OBVIOUS
    <2> QED BY <2>3, <2>4, <2>5, Zenon DEF Remotes
  <1>4. CASE DsnNext
    <2> DEFINE n == Len(result)
               call == input.calls[n]
               old == result[n]
               new == SetDsn(old, call.dsn, call.transport, input.environment, Schemes,
                             DefaultTransport("server"))
    <2>1. Answered("dsn") /\ result' = Append(result, new)
      <3>1. Last(result) = old
        BY DEF Last
      <3> QED BY <1>4, <3>1, Zenon DEF DsnNext, Answer, Going, Answered
    <2>2. /\ IsSeq(result) /\ n >= 1
          /\ \A i \in 1..n : RemotesCached(result[i]) /\ Extends(old.cache, result[i].cache)
          /\ \A i \in 2..n : result[i].raised => result[i].remote = result[i - 1].remote
      BY <2>1, Zenon DEF Remotes
    <2>3. n \in Nat
      BY <2>2, Grown
    <2>4. SetFrom(new, old)
      <3>1. RemotesCached(old)
        BY <2>2, <2>3
      <3> QED BY <3>1, SetDsnKeeps, Zenon
    <2> HIDE DEF new
    <2>5. /\ IsSeq(result') /\ Len(result') = n + 1 /\ result'[n + 1] = new
          /\ \A i \in 1..n : result'[i] = result[i]
      BY <2>1, <2>2, Grown
    <2>6. RemotesCached(new) /\ Extends(new.cache, old.cache)
          /\ (new.raised => new.remote = old.remote)
      BY <2>4, Zenon DEF SetFrom
    <2> HIDE DEF old, n
    <2>7. \A i \in 1..n : Extends(new.cache, result[i].cache)
      BY <2>2, <2>6 DEF Extends
    <2>8. \A i \in 1..(n + 1) : RemotesCached(result'[i]) /\ Extends(new.cache, result'[i].cache)
      <3>1. \A i \in 1..(n + 1) : i = n + 1 \/ i \in 1..n
        BY <2>3
      <3>2. Extends(new.cache, new.cache)
        BY DEF Extends
      <3> QED BY <2>2, <2>5, <2>6, <2>7, <3>1, <3>2, Zenon
    <2>9. \A i \in 2..(n + 1) : result'[i].raised => result'[i].remote = result'[i - 1].remote
      <3>1. \A i \in 2..(n + 1) : \/ i = n + 1 /\ i - 1 = n /\ n \in 1..n
                                  \/ i \in 2..n /\ i \in 1..n /\ i - 1 \in 1..n
        BY <2>2, <2>3
      <3> QED BY <2>2, <2>5, <2>6, <3>1, Zenon DEF old
    <2>10. n + 1 >= 1
      BY <2>3
    <2> QED BY <2>5, <2>8, <2>9, <2>10, Zenon DEF Remotes
  <1>5. [Next]_vars /\ input.do = "dsn" => UNCHANGED vars \/ DsnFirst \/ DsnNext
    BY Questions DEF Next
  <1> QED BY <1>2, <1>3, <1>4, <1>5

(* and a DSN has one remote. *)
LEMMA RemotesStay ==
    ASSUME Remotes
    PROVE  RemotesKept
  <1>1. SUFFICES ASSUME Answered("dsn")
                 PROVE  RemotesKept
    BY DEF RemotesKept
  <1> DEFINE last == result[Len(result)].cache
  <1>2. \A i \in 1..Len(result) :
           /\ Extends(last, result[i].cache)
           /\ result[i].remote # None =>
                 /\ result[i].remote.dsn \in DOMAIN result[i].cache
                 /\ result[i].cache[result[i].remote.dsn] = result[i].remote
    BY <1>1, Zenon DEF Remotes, RemotesCached
  <1> HIDE DEF last
  <1>3. \A i \in 1..Len(result) :
           result[i].remote # None => last[result[i].remote.dsn] = result[i].remote
    BY <1>2, Zenon DEF Extends
  <1>4. \A i \in 2..Len(result) : result[i].raised => result[i].remote = result[i - 1].remote
    BY <1>1, Zenon DEF Remotes
  <1> QED BY <1>3, <1>4, Zenon DEF RemotesKept

(* An option is the one that the code looks at first. *)
LEMMA OptionStep ==
    ASSUME SettingInput, OptionChosen, [Next]_vars
    PROVE  OptionChosen'
  <1>1. input' = input
    BY InputStays
  <1>2. CASE input.do # "option" \/ UNCHANGED vars
    BY <1>1, <1>2 DEF OptionChosen, Answered, vars
  <1>3. CASE ConfigureOption
    <2> DEFINE kind == input.kind
               config == input.option.config
               setting == input.option.setting
               default == input.option.default
               first == IF config # "unset" THEN config ELSE IF setting # "unset" THEN setting
                        ELSE IF default # "unset" THEN default ELSE None
               usable(v) == v # None /\ ~ (kind # "none" /\ v = "falsy")
    <2>1. /\ kind \in {"or", "none", "transport"}
          /\ input.environment # None /\ input.environment # "falsy"
          /\ "builtin" # None
      BY <1>3, NoneAssumption DEF SettingInput, ConfigureOption, Asked
    <2>2. result' = Effective(kind, input.option, input.environment, "builtin")
      BY <1>3 DEF ConfigureOption, Answer
    <2>3. CASE kind = "transport"
      <3>1. setting # "unset" /\ usable(setting) => result' = setting
        BY <2>2, <2>3 DEF Effective, Convert, GetOpt
      <3> QED BY <1>1, <2>3, <3>1 DEF OptionChosen
    <2>4. CASE kind # "transport"
      <3>1. Convert(kind, input.option) = first
        BY <2>4 DEF Convert, GetOpt
      <3> HIDE DEF first
      <3>2. usable(first) <=> result' = first
        BY <2>1, <2>2, <2>4, <3>1 DEF Effective
      <3> QED BY <1>1, <2>4, <3>2 DEF OptionChosen, first
    <2> QED BY <2>3, <2>4
  <1>4. [Next]_vars /\ input.do = "option" => UNCHANGED vars \/ ConfigureOption
    BY Questions DEF Next
  <1> QED BY <1>2, <1>3, <1>4

(* What is put in front is the first, and all else one place further. *)
LEMMA Prepended ==
    ASSUME NEW s, IsSeq(s), NEW x
    PROVE  /\ IsSeq(<<x>> \o s) /\ Len(s) \in Nat /\ DOMAIN s = 1..Len(s)
           /\ Len(<<x>> \o s) = Len(s) + 1
           /\ (<<x>> \o s)[1] = x
           /\ \A i \in 1..Len(s) : (<<x>> \o s)[i + 1] = s[i]
           /\ \A i \in 1..(Len(s) + 1) : i = 1 \/ i - 1 \in 1..Len(s)
  <1>1. PICK S : s \in Seq(S)
    BY DEF IsSeq
  <1>2. s \in Seq(S \cup {x}) /\ <<x>> \in Seq(S \cup {x}) /\ Len(<<x>>) = 1
    BY <1>1
  <1> DEFINE new == <<x>> \o s
  <1>3. new \in Seq(S \cup {x}) /\ Len(new) = Len(s) + 1
    BY <1>2
  <1>4. new[1] = x
    BY <1>2
  <1>5. \A i \in 1..Len(s) : new[i + 1] = s[i]
    BY <1>2
  <1> QED BY <1>2, <1>3, <1>4, <1>5 DEF IsSeq

(* The middleware of the application, with Sentry's in front. *)
InFront(all, own, added) ==
    /\ Len(all) = Len(own) + added
    /\ \A i \in 1..Len(own) : all[added + i] = own[i]
    /\ \A i \in 1..added : all[i] \in {"Sentry", "RestFramework"}
    /\ \A i \in 1..added, j \in 1..Len(all) : all[i] = all[j] => i = j
Installed(all, own) == IsSeq(all) /\ \E added \in 0..2 : InFront(all, own, added)

(* install_middleware() puts at most one in front. *)
LEMMA InstallKeeps ==
    ASSUME NEW all, NEW own, NEW name, NEW names, Installed(all, own), Len(own) \in Nat,
           name \in {"Sentry", "RestFramework"}, name \in names
    PROVE  Installed(InstallMiddleware(all, name, names), own)
  <1>1. CASE ToSet(all) \cap names # {}
    BY <1>1 DEF InstallMiddleware
  <1>2. CASE ToSet(all) \cap names = {}
    <2> DEFINE new == <<name>> \o all
    <2>1. InstallMiddleware(all, name, names) = new
      BY <1>2 DEF InstallMiddleware
    <2>2. PICK added \in 0..2 : InFront(all, own, added)
      BY DEF Installed
    <2>3. /\ Len(all) = Len(own) + added
          /\ \A i \in 1..Len(own) : all[added + i] = own[i]
          /\ \A i \in 1..added : all[i] \in {"Sentry", "RestFramework"}
          /\ \A i \in 1..added, j \in 1..Len(all) : all[i] = all[j] => i = j
      BY <2>2, Zenon DEF InFront
    <2>4. /\ IsSeq(new) /\ Len(all) \in Nat /\ DOMAIN all = 1..Len(all)
          /\ Len(new) = Len(all) + 1 /\ new[1] = name
          /\ \A i \in 1..Len(all) : new[i + 1] = all[i]
          /\ \A i \in 1..(Len(all) + 1) : i = 1 \/ i - 1 \in 1..Len(all)
      <3>1. IsSeq(all)
        BY DEF Installed
      <3>2. /\ IsSeq(<<name>> \o all) /\ Len(all) \in Nat /\ DOMAIN all = 1..Len(all)
            /\ Len(<<name>> \o all) = Len(all) + 1
            /\ (<<name>> \o all)[1] = name
            /\ \A i \in 1..Len(all) : (<<name>> \o all)[i + 1] = all[i]
            /\ \A i \in 1..(Len(all) + 1) : i = 1 \/ i - 1 \in 1..Len(all)
        BY <3>1, Prepended, Zenon
      <3> HIDE DEF new
      <3> QED BY <3>2, Zenon DEF new
    <2>5. \A i \in 1..Len(all) : all[i] # name
      BY <1>2, <2>4 DEF ToSet
    <2> HIDE DEF new
    <2>6. added # 2
      <3>1. SUFFICES ASSUME added = 2
                     PROVE  FALSE
        OBVIOUS
      <3>2. 1 \in 1..added /\ 2 \in 1..added /\ 1 \in 1..Len(all) /\ 2 \in 1..Len(all)
        BY <2>3, <3>1
      <3>3. all[1] = all[2]
        BY <2>3, <2>5, <3>2
      <3> QED BY <2>3, <3>2, <3>3
    <2>7. InFront(new, own, added + 1)
      <3>1. Len(new) = Len(own) + (added + 1)
        BY <2>3, <2>4
      <3>2. \A i \in 1..Len(own) : new[(added + 1) + i] = own[i]
        <4>1. \A i \in 1..Len(own) : added + i \in 1..Len(all) /\ (added + 1) + i = (added + i) + 1
          BY <2>3
        <4> QED BY <2>3, <2>4, <4>1
      <3>3. \A i \in 1..(added + 1) : i = 1 \/ (i - 1 \in 1..added /\ i - 1 \in 1..Len(all) /\ (i - 1) + 1 = i)
        BY <2>3
      <3>4. \A i \in 1..(Len(all) + 1) : i = 1 \/ (i - 1 \in 1..Len(all) /\ (i - 1) + 1 = i)
        BY <2>4
      <3>5. \A i \in 1..(added + 1) : new[i] \in {"Sentry", "RestFramework"}
        <4>1. SUFFICES ASSUME NEW i \in 1..(added + 1)
                       PROVE  new[i] \in {"Sentry", "RestFramework"}
          OBVIOUS
        <4>2. i = 1 \/ (new[i] = all[i - 1] /\ i - 1 \in 1..added)
          BY <2>4, <3>3
        <4> QED BY <2>3, <2>4, <4>2
      <3>6. \A i \in 1..(added + 1), j \in 1..(Len(all) + 1) : new[i] = new[j] => i = j
        <4>1. SUFFICES ASSUME NEW i \in 1..(added + 1), NEW j \in 1..(Len(all) + 1),
                              new[i] = new[j]
                       PROVE  i = j
          OBVIOUS
        <4>2. i = 1 \/ (i - 1 \in 1..added /\ i - 1 \in 1..Len(all) /\ new[i] = all[i - 1])
          BY <2>4, <3>3
        <4>3. j = 1 \/ (j - 1 \in 1..Len(all) /\ new[j] = all[j - 1])
          BY <2>4, <3>4
        <4>4. CASE i = 1 \/ j = 1
          BY <2>4, <2>5, <4>1, <4>2, <4>3, <4>4
        <4>5. CASE i # 1 /\ j # 1
          <5>1. i - 1 = j - 1
            BY <2>3, <4>1, <4>2, <4>3, <4>5
          <5> QED BY <5>1
        <4> QED BY <4>4, <4>5
      <3> QED BY <2>4, <3>1, <3>2, <3>5, <3>6 DEF InFront
    <2>8. added + 1 \in 0..2
      BY <2>6
    <2> QED BY <2>1, <2>4, <2>7, <2>8, Zenon DEF Installed
  <1> QED BY <1>1, <1>2

(* The attempts up to the n-th that could not make the client. *)
Failed(attempts, n) == {i \in 1..n : attempts[i].fails = "client"}
(* One attempt more. *)
LEMMA FailedNext ==
    ASSUME NEW attempts, NEW n \in Nat
    PROVE  LET now == Failed(attempts, n)
               next == Failed(attempts, n + 1)
           IN  /\ Cardinality(now) \in Nat /\ Cardinality(next) \in Nat
               /\ Cardinality(now) <= Cardinality(next)
               /\ attempts[n + 1].fails = "client" => Cardinality(next) = Cardinality(now) + 1
  <1> DEFINE now == Failed(attempts, n)
             next == Failed(attempts, n + 1)
  <1>1. IsFiniteSet(now)
    <2>1. now \subseteq 1..n /\ IsFiniteSet(1..n)
      BY FS_Interval DEF Failed
    <2> QED BY <2>1, FS_Subset
  <1>2. next = now \/ next = now \cup {n + 1}
    BY DEF Failed
  <1>3. n + 1 \notin now
    BY DEF Failed
  <1>4. attempts[n + 1].fails = "client" => next = now \cup {n + 1}
    BY DEF Failed
  <1>5. Cardinality(now) \in Nat /\ Cardinality(now \cup {n + 1}) = Cardinality(now) + 1
    BY <1>1, <1>3, FS_CardinalityType, FS_AddElement
  <1> QED BY <1>2, <1>4, <1>5

(* initialize() after the first n attempts. *)
Tried(attempts, n, s) ==
    /\ s = [middleware |-> s.middleware, handlers |-> s.handlers, initialized |-> s.initialized]
    /\ s.handlers \in Nat
    /\ s.initialized <=> \E i \in 1..n : attempts[i].fails = "nowhere"
    /\ s.initialized => s.handlers <= Cardinality(Failed(attempts, n)) + 1
    /\ ~ s.initialized => s.handlers <= Cardinality(Failed(attempts, n))
    /\ s.initialized /\ (\A i \in 1..n : attempts[i].instrument) => s.handlers >= 1

(* initialize_raven() once more. *)
LEMMA InitializeKeeps ==
    ASSUME NEW attempts, NEW n \in Nat, NEW s, NEW own, Tried(attempts, n, s),
           Installed(s.middleware, own), Len(own) \in Nat, attempts[n + 1] \in Attempt
    PROVE  LET new == Initialize(s, attempts[n + 1])
           IN  Tried(attempts, n + 1, new) /\ Installed(new.middleware, own)
  <1> DEFINE a == attempts[n + 1]
             sentry == InstallMiddleware(s.middleware, "Sentry", {"Sentry", "SentryLog"})
             both == InstallMiddleware(sentry, "RestFramework", {"RestFramework"})
             count == s.handlers + (IF a.instrument THEN 1 ELSE 0)
             new == Initialize(s, a)
             now == Cardinality(Failed(attempts, n))
             next == Cardinality(Failed(attempts, n + 1))
  <1>1. /\ s = [middleware |-> s.middleware, handlers |-> s.handlers, initialized |-> s.initialized]
        /\ s.handlers \in Nat
        /\ s.initialized <=> \E i \in 1..n : attempts[i].fails = "nowhere"
        /\ s.initialized => s.handlers <= now + 1
        /\ ~ s.initialized => s.handlers <= now
        /\ s.initialized /\ (\A i \in 1..n : attempts[i].instrument) => s.handlers >= 1
    BY Zenon DEF Tried
  <1>2. Installed(sentry, own) /\ Installed(both, own)
    <2>1. Installed(sentry, own)
      BY InstallKeeps
    <2> HIDE DEF sentry
    <2> QED BY <2>1, InstallKeeps
  <1>3. /\ now \in Nat /\ next \in Nat /\ now <= next
        /\ a.fails = "client" => next = now + 1
    BY FailedNext
  <1>4. a.fails \in {"nowhere", "serializers", "middleware", "client"} /\ a.instrument \in BOOLEAN
    BY DEF Attempt
  <1>5. \A i \in 1..(n + 1) : i \in 1..n \/ i = n + 1
    OBVIOUS
  <1>6. 1..n \subseteq 1..(n + 1) /\ n + 1 \in 1..(n + 1)
    OBVIOUS
  <1>7. /\ s.initialized \/ a.fails = "serializers" => new = s
        /\ ~ s.initialized /\ a.fails = "middleware" => new = [s EXCEPT !.middleware = sentry]
        /\ ~ s.initialized /\ a.fails \in {"nowhere", "client"} =>
              new = [middleware |-> both, handlers |-> count,
                     initialized |-> a.fails # "client"]
    BY <1>4 DEF Initialize
  <1> HIDE DEF sentry, both, now, next, new, a
  <1>8. CASE s.initialized \/ a.fails = "serializers"
    <2>1. new = s
      BY <1>7, <1>8
    <2>2. s.initialized <=> \E i \in 1..(n + 1) : attempts[i].fails = "nowhere"
      BY <1>1, <1>5, <1>6, <1>8 DEF a
    <2>3. /\ s.initialized => s.handlers <= next + 1
          /\ ~ s.initialized => s.handlers <= next
      BY <1>1, <1>3
    <2>4. s.initialized /\ (\A i \in 1..(n + 1) : attempts[i].instrument) => s.handlers >= 1
      BY <1>1, <1>6
    <2>5. Tried(attempts, n + 1, s)
      BY <1>1, <2>2, <2>3, <2>4, Zenon DEF Tried, next
    <2> QED BY <2>1, <2>5, Zenon DEF new, a
  <1>9. CASE ~ s.initialized /\ a.fails = "middleware"
    <2>1. new = [middleware |-> sentry, handlers |-> s.handlers, initialized |-> s.initialized]
      BY <1>1, <1>7, <1>9
    <2>2. /\ new.middleware = sentry /\ new.handlers = s.handlers
          /\ new.initialized = s.initialized
          /\ new = [middleware |-> new.middleware, handlers |-> new.handlers,
                    initialized |-> new.initialized]
      BY <2>1
    <2>3. ~ \E i \in 1..(n + 1) : attempts[i].fails = "nowhere"
      BY <1>1, <1>5, <1>9 DEF a
    <2>4. s.handlers <= next
      BY <1>1, <1>3, <1>9
    <2>5. Tried(attempts, n + 1, new)
      BY <1>1, <1>9, <2>2, <2>3, <2>4, Zenon DEF Tried, next
    <2> QED BY <1>2, <2>2, <2>5, Zenon DEF new, a
  <1>10. CASE ~ s.initialized /\ a.fails = "client"
    <2> DEFINE no == FALSE
    <2>1. new = [middleware |-> both, handlers |-> count, initialized |-> no]
      BY <1>7, <1>10
    <2> HIDE DEF no, count
    <2>2. /\ new.middleware = both /\ new.handlers = count /\ new.initialized = no
          /\ new = [middleware |-> new.middleware, handlers |-> new.handlers,
                    initialized |-> new.initialized]
      BY <2>1
    <2>3. ~ \E i \in 1..(n + 1) : attempts[i].fails = "nowhere"
      BY <1>1, <1>5, <1>10 DEF a
    <2>4. count <= next /\ count \in Nat
      BY <1>1, <1>3, <1>4, <1>10 DEF count
    <2>5. Tried(attempts, n + 1, new)
      BY <2>2, <2>3, <2>4, Zenon DEF Tried, next, no
    <2> QED BY <1>2, <2>2, <2>5, Zenon DEF new, a
  <1>11. CASE ~ s.initialized /\ a.fails = "nowhere"
    <2> DEFINE yes == TRUE
    <2>1. new = [middleware |-> both, handlers |-> count, initialized |-> yes]
      BY <1>7, <1>11
    <2> HIDE DEF yes, count
    <2>2. /\ new.middleware = both /\ new.handlers = count /\ new.initialized = yes
          /\ new = [middleware |-> new.middleware, handlers |-> new.handlers,
                    initialized |-> new.initialized]
      BY <2>1
    <2>3. \E i \in 1..(n + 1) : attempts[i].fails = "nowhere"
      BY <1>6, <1>11 DEF a
    <2>4. count <= next + 1 /\ count \in Nat
      BY <1>1, <1>3, <1>4, <1>11 DEF count
    <2>5. (\A i \in 1..(n + 1) : attempts[i].instrument) => count >= 1
      <3>1. a.instrument => count >= 1
        BY <1>1 DEF count
      <3> QED BY <1>6, <3>1 DEF a
    <2>6. Tried(attempts, n + 1, new)
      BY <2>2, <2>3, <2>4, <2>5, Zenon DEF Tried, next, yes
    <2> QED BY <1>2, <2>2, <2>6, Zenon DEF new, a
  <1> QED BY <1>4, <1>8, <1>9, <1>10, <1>11

(* Attempts at initialize(), as many as there have been. *)
Tries ==
    Answered("initialize") =>
        /\ result.done \in 0..Len(input.attempts)
        /\ Tried(input.attempts, result.done, result.s)
        /\ Installed(result.s.middleware, input.middleware)

(* So for every step, *)
LEMMA InitializeStep ==
    ASSUME SettingInput, Tries, [Next]_vars
    PROVE  Tries'
  <1>1. input' = input
    BY InputStays
  <1>2. CASE input.do # "initialize" \/ UNCHANGED vars
    BY <1>1, <1>2 DEF Tries, Answered, vars
  <1>3. input.do = "initialize" =>
           /\ \A i \in 1..Len(input.attempts) : input.attempts[i] \in Attempt
           /\ Len(input.attempts) \in Nat /\ Len(input.middleware) \in Nat
           /\ IsSeq(input.middleware)
    BY DEF SettingInput, IsSeq
  <1>4. CASE InitializeFirst
    <2> DEFINE s == [middleware |-> input.middleware, handlers |-> 0, initialized |-> FALSE]
    <2>1. result' = [s |-> s, done |-> 0] /\ input.do = "initialize"
      BY <1>4 DEF InitializeFirst, Answer, Asked
    <2>2. Tried(input.attempts, 0, s)
      <3> DEFINE no == FALSE
                 t == [middleware |-> input.middleware, handlers |-> 0, initialized |-> no]
      <3> HIDE DEF no
      <3>1. /\ t.handlers = 0 /\ t.initialized = no
            /\ t = [middleware |-> t.middleware, handlers |-> t.handlers,
                    initialized |-> t.initialized]
        OBVIOUS
      <3>2. Cardinality(Failed(input.attempts, 0)) \in Nat
        BY FailedNext
      <3>3. 0 <= Cardinality(Failed(input.attempts, 0)) /\ 0 \in Nat /\ \A i \in 1..0 : FALSE
        BY <3>2
      <3> HIDE DEF t
      <3>4. Tried(input.attempts, 0, t)
        BY <3>1, <3>3, Zenon DEF Tried, no
      <3> QED BY <3>4, Zenon DEF t, no
    <2>3. Installed(s.middleware, input.middleware)
      <3>1. InFront(input.middleware, input.middleware, 0)
        BY <1>3, <2>1 DEF InFront
      <3> QED BY <1>3, <2>1, <3>1 DEF Installed
    <2> HIDE DEF s
    <2>4. result'.s = s /\ result'.done = 0 /\ 0 \in 0..Len(input.attempts)
      BY <1>3, <2>1
    <2> QED BY <1>1, <2>2, <2>3, <2>4, Zenon DEF Tries
  <1>5. CASE InitializeNext
    <2> DEFINE n == result.done
               new == Initialize(result.s, input.attempts[n + 1])
    <2>1. /\ Answered("initialize") /\ n < Len(input.attempts)
          /\ result' = [s |-> new, done |-> n + 1]
      BY <1>5, Zenon DEF InitializeNext, Answer, Going, Answered
    <2>2. /\ n \in 0..Len(input.attempts) /\ Tried(input.attempts, n, result.s)
          /\ Installed(result.s.middleware, input.middleware)
      BY <2>1, Zenon DEF Tries
    <2>3. input.do = "initialize"
      BY <2>1 DEF Answered
    <2>4. n \in Nat /\ n + 1 \in 0..Len(input.attempts) /\ n + 1 \in 1..Len(input.attempts)
      BY <1>3, <2>1, <2>2, <2>3
    <2>5. input.attempts[n + 1] \in Attempt /\ Len(input.middleware) \in Nat
      BY <1>3, <2>3, <2>4
    <2> HIDE DEF n
    <2>6. Tried(input.attempts, n + 1, new) /\ Installed(new.middleware, input.middleware)
      BY <2>2, <2>4, <2>5, InitializeKeeps, Zenon
    <2> HIDE DEF new
    <2>7. result'.s = new /\ result'.done = n + 1
      BY <2>1
    <2> QED BY <1>1, <2>4, <2>6, <2>7, Zenon DEF Tries
  <1>6. [Next]_vars /\ input.do = "initialize" => UNCHANGED vars \/ InitializeFirst \/ InitializeNext
    BY Questions DEF Next
  <1> QED BY <1>2, <1>4, <1>5, <1>6

(* and the middleware is there when an attempt got that far. *)
LEMMA TriesInstall ==
    ASSUME SettingInput, Tries
    PROVE  MiddlewareInstalled
  <1>1. SUFFICES ASSUME Answered("initialize")
                 PROVE  MiddlewareInstalled
    BY DEF MiddlewareInstalled
  <1> DEFINE s == result.s
             n == result.done
             own == input.middleware
  <1>2. /\ n \in 0..Len(input.attempts) /\ Tried(input.attempts, n, s)
        /\ Installed(s.middleware, own)
    BY <1>1, Zenon DEF Tries
  <1>3. Len(own) \in Nat /\ DOMAIN own = 1..Len(own) /\ n \in Nat
    BY <1>1, <1>2 DEF SettingInput, Answered
  <1>4. PICK k \in 0..2 : InFront(s.middleware, own, k)
    BY <1>2 DEF Installed
  <1>5. /\ Len(s.middleware) = Len(own) + k
        /\ \A i \in 1..Len(own) : s.middleware[k + i] = own[i]
        /\ \A i \in 1..k : s.middleware[i] \in {"Sentry", "RestFramework"}
        /\ \A i \in 1..k, j \in 1..Len(s.middleware) : s.middleware[i] = s.middleware[j] => i = j
    BY <1>4, Zenon DEF InFront
  <1>6. Len(s.middleware) - Len(own) = k
    BY <1>3, <1>5
  <1>7. DOMAIN s.middleware = 1..Len(s.middleware)
    BY <1>2, Grown DEF Installed
  <1>8. /\ s.initialized <=> \E i \in 1..n : input.attempts[i].fails = "nowhere"
        /\ s.handlers \in Nat
        /\ s.initialized => s.handlers <= Cardinality(Failed(input.attempts, n)) + 1
        /\ ~ s.initialized => s.handlers <= Cardinality(Failed(input.attempts, n))
        /\ s.initialized /\ (\A i \in 1..n : input.attempts[i].instrument) => s.handlers >= 1
    BY <1>2, Zenon DEF Tried
  <1>9. Cardinality(Failed(input.attempts, n)) \in Nat
    BY <1>3, FailedNext
  <1>10. s.handlers <= Cardinality({i \in 1..n : input.attempts[i].fails = "client"}) + 1
    BY <1>8, <1>9 DEF Failed
  <1> QED BY <1>3, <1>5, <1>6, <1>7, <1>8, <1>10, Zenon DEF MiddlewareInstalled

(* What init_app() makes of what it is given, by the extension's class. *)
AppOf(sanic, app) ==
    IF sanic THEN [app EXCEPT !.wrapWsgi = FALSE, !.registerSignal = TRUE, !.propagate = TRUE]
    ELSE app

(* Whether its records get to the root logger. *)
Propagating(sanic, app) == sanic \/ app.propagate

(* What init_app() is given differs by the class in what Sanic has not. *)
LEMMA AppIs ==
    ASSUME NEW sanic \in BOOLEAN, NEW app \in App
    PROVE  /\ AppOf(sanic, app).dsn = app.dsn /\ AppOf(sanic, app).logging = app.logging
           /\ AppOf(sanic, app).configured = app.configured
           /\ AppOf(sanic, app).registerSignal # FALSE \/ app.registerSignal = FALSE
           /\ AppOf(sanic, app).registerSignal \in Nones(BOOLEAN)
           /\ AppOf(sanic, app).propagate = Propagating(sanic, app)
           /\ AppOf(sanic, app).propagate \in BOOLEAN
  <1>1. /\ app.registerSignal \in Nones(BOOLEAN) /\ app.propagate \in BOOLEAN
        /\ DOMAIN app = {"dsn", "wrapWsgi", "registerSignal", "logging", "debug",
                         "propagate", "configured"}
    BY DEF App
  <1> DEFINE yes == TRUE
             no == FALSE
             of == [app EXCEPT !.wrapWsgi = no, !.registerSignal = yes, !.propagate = yes]
  <1> HIDE DEF yes, no
  <1>2. /\ of.dsn = app.dsn /\ of.logging = app.logging /\ of.configured = app.configured
        /\ of.registerSignal = yes /\ of.propagate = yes
    BY <1>1
  <1>3. CASE sanic
    <2>1. AppOf(sanic, app) = of
      BY <1>3 DEF AppOf, yes, no
    <2>2. of.registerSignal \in BOOLEAN /\ of.registerSignal # FALSE
      BY <1>2, Zenon DEF yes
    <2>3. of.propagate = Propagating(sanic, app) /\ of.propagate \in BOOLEAN
      BY <1>2, <1>3, Zenon DEF yes, Propagating
    <2> HIDE DEF of
    <2> QED BY <1>2, <2>1, <2>2, <2>3, Zenon DEF Nones
  <1>4. CASE ~ sanic
    <2>1. AppOf(sanic, app) = app
      BY <1>4 DEF AppOf
    <2>2. app.propagate = Propagating(sanic, app)
      BY <1>1, <1>4 DEF Propagating
    <2>3. app.registerSignal # FALSE \/ app.registerSignal = FALSE
      BY Zenon
    <2> QED BY <1>1, <2>1, <2>2, <2>3, Zenon
  <1> QED BY <1>3, <1>4

(* Of the applications up to the n-th, the last that says anything of *)
(* logging has turned it on.                                          *)
LoggedAt(apps, n) ==
    \E j \in 1..n : apps[j].logging = TRUE /\ \A k \in (j + 1)..n : apps[k].logging # FALSE
Silenced(apps, n) == \E j \in 1..n : apps[j].registerSignal = FALSE
Propagates(in, i) == Propagating(in.sanic, in.apps[i])

(* What the extension has of the applications so far. *)
Extended(in, s) ==
    LET n == Len(s.apps)
    IN  /\ IsSeq(s.apps) /\ n <= Len(in.apps)
        /\ s.dsn \in Nones(STRING)
        /\ s.registerSignal \in BOOLEAN /\ s.logging \in BOOLEAN /\ s.root \in BOOLEAN
        /\ n # 0 => s.client # None
        /\ s.registerSignal \/ Silenced(in.apps, n)
        /\ LoggedAt(in.apps, n) => s.logging
        /\ \A i \in 1..n :
              /\ s.apps[i].client = s.client
              /\ s.apps[i].signal \/ Silenced(in.apps, i)
              /\ LoggedAt(in.apps, i) =>
                    s.root /\ s.apps[i].handler = ~ Propagates(in, i)

(* One application more. *)
LEMMA LoggedNext ==
    ASSUME NEW apps, NEW n \in Nat
    PROVE  /\ LoggedAt(apps, n + 1) =>
                 apps[n + 1].logging = TRUE \/ (apps[n + 1].logging # FALSE /\ LoggedAt(apps, n))
           /\ Silenced(apps, n) => Silenced(apps, n + 1)
           /\ apps[n + 1].registerSignal = FALSE => Silenced(apps, n + 1)
  <1>1. LoggedAt(apps, n + 1) =>
           apps[n + 1].logging = TRUE \/ (apps[n + 1].logging # FALSE /\ LoggedAt(apps, n))
    <2>1. SUFFICES ASSUME LoggedAt(apps, n + 1), apps[n + 1].logging # TRUE
                   PROVE  apps[n + 1].logging # FALSE /\ LoggedAt(apps, n)
      OBVIOUS
    <2>2. PICK j \in 1..(n + 1) : /\ apps[j].logging = TRUE
                                  /\ \A k \in (j + 1)..(n + 1) : apps[k].logging # FALSE
      BY <2>1, Zenon DEF LoggedAt
    <2>3. j # n + 1
      BY <2>1, <2>2
    <2>4. /\ j \in 1..n /\ n + 1 \in (j + 1)..(n + 1)
          /\ \A k \in (j + 1)..n : k \in (j + 1)..(n + 1)
      BY <2>3
    <2> QED BY <2>2, <2>4, Zenon DEF LoggedAt
  <1>2. n + 1 \in 1..(n + 1) /\ \A i \in 1..n : i \in 1..(n + 1)
    OBVIOUS
  <1> QED BY <1>1, <1>2, Zenon DEF Silenced

(* The client that the first application decides on. *)
LEMMA ClientIs ==
    ASSUME NEW client, NEW dsn \in Nones(STRING), NEW configured \in STRING
    PROVE  LET new == Or(client, [dsn |-> Convert("dsn", [config |-> "unset", default |-> dsn,
                                                          setting |-> configured])])
           IN  new # None /\ (client # None => new = client)
  <1> DEFINE text == Convert("dsn", [config |-> "unset", default |-> dsn, setting |-> configured])
  <1>1. text \in STRING \cup {None}
    BY DEF Convert, GetOpt, Nones
  <1> HIDE DEF text
  <1>2. [dsn |-> text] \in [dsn : STRING \cup {None}]
    BY <1>1
  <1>3. [dsn |-> text] # None
    BY <1>2, NoneAssumption
  <1> QED BY <1>3 DEF Or, text

(* init_app() once more. *)
LEMMA InitAppKeeps ==
    ASSUME NEW in, NEW s, Extended(in, s),
           in.sanic \in BOOLEAN, in.apps \in Seq(App), Len(s.apps) < Len(in.apps)
    PROVE  Extended(in, InitApp(s, AppOf(in.sanic, in.apps[Len(s.apps) + 1])))
  <1> DEFINE n == Len(s.apps)
             given == in.apps[n + 1]
             app == AppOf(in.sanic, given)
             dsn == Or(app.dsn, s.dsn)
             wrap == Or(app.wrapWsgi, Or(s.wrapWsgi, ~ app.debug))
             signal == Or(app.registerSignal, s.registerSignal)
             logging == Or(app.logging, s.logging)
             client == Or(s.client, [dsn |-> Convert("dsn", [config |-> "unset", default |-> dsn,
                                                             setting |-> app.configured])])
             root == s.root \/ logging
             handler == logging /\ ~ app.propagate
             shown == [client |-> client, wrapped |-> wrap, signal |-> signal, handler |-> handler]
             apps == Append(s.apps, shown)
             new == InitApp(s, app)
  <1>1. /\ IsSeq(s.apps) /\ n <= Len(in.apps) /\ s.dsn \in Nones(STRING)
        /\ s.registerSignal \in BOOLEAN /\ s.logging \in BOOLEAN /\ s.root \in BOOLEAN
        /\ n # 0 => s.client # None
        /\ s.registerSignal \/ Silenced(in.apps, n)
        /\ LoggedAt(in.apps, n) => s.logging
        /\ \A i \in 1..n :
              /\ s.apps[i].client = s.client
              /\ s.apps[i].signal \/ Silenced(in.apps, i)
              /\ LoggedAt(in.apps, i) =>
                    s.root /\ s.apps[i].handler = ~ Propagates(in, i)
    BY Zenon DEF Extended
  <1>2. n \in Nat /\ n + 1 \in 1..Len(in.apps) /\ n + 1 <= Len(in.apps)
    <2>1. n \in Nat
      BY <1>1, Grown
    <2> QED BY <2>1
  <1>3. given \in App
    BY <1>2
  <1>4. /\ app.dsn = given.dsn /\ app.logging = given.logging /\ app.configured = given.configured
        /\ app.registerSignal # FALSE \/ given.registerSignal = FALSE
        /\ app.registerSignal \in Nones(BOOLEAN)
        /\ app.propagate = Propagates(in, n + 1) /\ app.propagate \in BOOLEAN
    <2> HIDE DEF given
    <2>1. /\ app.dsn = given.dsn /\ app.logging = given.logging
          /\ app.configured = given.configured
          /\ app.registerSignal # FALSE \/ given.registerSignal = FALSE
          /\ app.registerSignal \in Nones(BOOLEAN)
          /\ app.propagate = Propagating(in.sanic, given) /\ app.propagate \in BOOLEAN
      BY <1>3, AppIs, Zenon
    <2> QED BY <2>1, Zenon DEF Propagates, given
  <1> HIDE DEF app
  <1>5. /\ given.dsn \in Nones(STRING) /\ given.configured \in STRING
        /\ given.logging \in Nones(BOOLEAN)
    BY <1>3 DEF App
  <1>6. new = [dsn |-> dsn, wrapWsgi |-> wrap, registerSignal |-> signal, logging |-> logging,
               client |-> client, root |-> root, apps |-> apps]
    BY Zenon DEF InitApp
  <1>7. /\ new.dsn = dsn /\ new.registerSignal = signal /\ new.logging = logging
        /\ new.client = client /\ new.root = root /\ new.apps = apps
    <2> HIDE DEF dsn, wrap, signal, logging, client, root, apps, new
    <2> QED BY <1>6
  <1>8. dsn \in Nones(STRING)
    BY <1>1, <1>4, <1>5 DEF Or
  <1>9. client # None /\ (s.client # None => client = s.client)
    <2> HIDE DEF dsn
    <2>1. app.configured \in STRING
      BY <1>4, <1>5
    <2> QED BY <1>8, <2>1, ClientIs, Zenon
  <1>10. /\ signal \in BOOLEAN /\ logging \in BOOLEAN
         /\ app.registerSignal # FALSE => signal = TRUE \/ signal = s.registerSignal
         /\ given.logging = TRUE => logging
         /\ given.logging # FALSE => logging \/ logging = s.logging
    BY <1>1, <1>4, <1>5, NoneAssumption, Zenon DEF Or, Nones
  <1>11. signal \/ Silenced(in.apps, n + 1)
    BY <1>1, <1>2, <1>4, <1>10, LoggedNext, Zenon
  <1>12. LoggedAt(in.apps, n + 1) => logging
    BY <1>1, <1>2, <1>10, LoggedNext, Zenon
  <1>13. root \in BOOLEAN /\ (logging => root) /\ (s.root => root)
    BY <1>1, <1>10, Zenon
  <1>14. logging => handler = ~ Propagates(in, n + 1)
    BY <1>4, Zenon
  <1>15. shown.client = client /\ shown.signal = signal /\ shown.handler = handler
    <2> HIDE DEF client, signal, handler, wrap
    <2> QED OBVIOUS
  <1>16. /\ IsSeq(apps) /\ Len(apps) = n + 1 /\ apps[n + 1] = shown
         /\ \A i \in 1..n : apps[i] = s.apps[i]
    <2> HIDE DEF shown
    <2> QED BY <1>1, Grown
  <1>17. \A i \in 1..n : i # 0 /\ n # 0
    BY <1>2
  <1>18. \A i \in 1..(n + 1) : i = n + 1 \/ i \in 1..n
    BY <1>2
  <1>19. n + 1 # 0
    BY <1>2
  <1> HIDE DEF n, given, dsn, wrap, signal, logging, client, root, handler, shown, apps, new
  <1>20. \A i \in 1..(n + 1) :
            /\ apps[i].client = client
            /\ apps[i].signal \/ Silenced(in.apps, i)
            /\ LoggedAt(in.apps, i) => root /\ apps[i].handler = ~ Propagates(in, i)
    <2>1. SUFFICES ASSUME NEW i \in 1..n
                   PROVE  /\ apps[i].client = client
                          /\ apps[i].signal \/ Silenced(in.apps, i)
                          /\ LoggedAt(in.apps, i) =>
                                root /\ apps[i].handler = ~ Propagates(in, i)
      BY <1>11, <1>12, <1>13, <1>14, <1>15, <1>16, <1>18, Zenon
    <2> QED BY <1>1, <1>9, <1>13, <1>16, <1>17, Zenon
  <1> QED BY <1>2, <1>7, <1>8, <1>9, <1>10, <1>11, <1>12, <1>13, <1>16, <1>19, <1>20, Zenon
        DEF Extended, new, app, given, n

(* The applications that share an extension, as many as it has set up. *)
Extensions == Answered("apps") => Extended(input, result)

(* So for every step, *)
LEMMA AppsStep ==
    ASSUME SettingInput, Extensions, [Next]_vars
    PROVE  Extensions'
  <1>1. input' = input
    BY InputStays
  <1>2. CASE input.do # "apps" \/ UNCHANGED vars
    BY <1>1, <1>2 DEF Extensions, Answered, vars
  <1>3. input.do = "apps" => input.sanic \in BOOLEAN /\ input.apps \in Seq(App)
    BY DEF SettingInput
  <1>4. CASE AppsFirst
    <2> DEFINE yes == TRUE
               no == FALSE
               s == [dsn |-> None, wrapWsgi |-> None, registerSignal |-> yes, logging |-> no,
                     client |-> None, root |-> no, apps |-> <<>>]
    <2>1. result' = s /\ input.do = "apps"
      BY <1>4, Zenon DEF AppsFirst, Answer, Asked, Extension
    <2>2. yes \in BOOLEAN /\ no \in BOOLEAN /\ yes
      OBVIOUS
    <2> HIDE DEF yes, no
    <2>3. /\ s.dsn = None /\ s.registerSignal = yes /\ s.logging = no /\ s.root = no
          /\ s.apps = <<>>
      OBVIOUS
    <2> HIDE DEF s
    <2>4. IsSeq(<<>>) /\ Len(<<>>) = 0 /\ \A i \in 1..0 : FALSE
      <3>1. <<>> \in Seq({})
        OBVIOUS
      <3> QED BY <3>1 DEF IsSeq
    <2>5. 0 <= Len(input.apps)
      BY <1>3, <2>1
    <2>6. ~ LoggedAt(input.apps, 0) /\ None \in Nones(STRING)
      BY <2>4 DEF LoggedAt, Nones
    <2>7. Extended(input, s)
      BY <2>2, <2>3, <2>4, <2>5, <2>6, Zenon DEF Extended
    <2> QED BY <1>1, <2>1, <2>7, Zenon DEF Extensions
  <1>5. CASE AppsNext
    <2> DEFINE given == input.apps[Len(result.apps) + 1]
               app == AppOf(input.sanic, given)
               new == InitApp(result, app)
    <2>1. /\ Answered("apps") /\ Len(result.apps) < Len(input.apps)
          /\ result' = (IF input.sanic THEN InitSanic(result, given) ELSE InitApp(result, given))
      BY <1>5, Zenon DEF AppsNext, Answer, Going, Answered
    <2>2. input.do = "apps"
      BY <2>1, Zenon DEF Answered
    <2>3. result' = new
      BY <2>1, Zenon DEF InitSanic, AppOf
    <2>4. Extended(input, result) /\ app = AppOf(input.sanic, given)
      BY <2>1, Zenon DEF Extensions
    <2>5. /\ input.sanic \in BOOLEAN /\ input.apps \in Seq(App)
          /\ Len(result.apps) < Len(input.apps)
      BY <1>3, <2>1, <2>2, Zenon
    <2>6. Extended(input, InitApp(result, AppOf(input.sanic, input.apps[Len(result.apps) + 1])))
      BY <2>4, <2>5, InitAppKeeps, Zenon
    <2> QED BY <1>1, <2>3, <2>6, Zenon DEF Extensions
  <1>6. [Next]_vars /\ input.do = "apps" => UNCHANGED vars \/ AppsFirst \/ AppsNext
    BY Questions DEF Next
  <1> QED BY <1>2, <1>4, <1>5, <1>6

(* and the applications report by what they have. *)
LEMMA ExtensionsReport ==
    ASSUME Extensions
    PROVE  AppsReport
  <1>1. SUFFICES ASSUME Answered("apps")
                 PROVE  AppsReport
    BY DEF AppsReport
  <1> DEFINE apps == result.apps
             n == Len(apps)
  <1>2. /\ IsSeq(apps)
        /\ \A i \in 1..n :
              /\ apps[i].client = result.client
              /\ apps[i].signal \/ Silenced(input.apps, i)
              /\ LoggedAt(input.apps, i) =>
                    result.root /\ apps[i].handler = ~ Propagates(input, i)
        /\ result.root \in BOOLEAN
    BY <1>1, Zenon DEF Extensions, Extended
  <1>3. DOMAIN apps = 1..n
    BY <1>2, Grown
  <1> HIDE DEF apps, n
  <1>4. \A i, j \in 1..n : apps[i].client = apps[j].client
    BY <1>2, Zenon
  <1>5. \A i \in 1..n : ~ (apps[i].wrapped \/ apps[i].signal) =>
                            \E j \in 1..i : input.apps[j].registerSignal = FALSE
    BY <1>2, Zenon DEF Silenced
  <1>6. \A i \in 1..n : LoggedAt(input.apps, i) =>
           (Propagates(input, i) /\ result.root) # apps[i].handler
    BY <1>2, Zenon
  <1> QED BY <1>3, <1>4, <1>5, <1>6, Zenon DEF AppsReport, apps, LoggedAt, Propagates, Propagating

-----------------------------------------------------------------------------
(* Every behaviour *)

(* Nothing is said before there is an answer, *)
LEMMA Unanswered ==
    ASSUME Init, NEW what
    PROVE  ~ Answered(what)
  BY Zenon DEF Init, Answered

(* and inputs stay in their domains. *)
LEMMA InputsStay ==
    ASSUME [Next]_vars
    PROVE  /\ StackInput => StackInput'
           /\ RequestInput => RequestInput'
           /\ BuildInput => BuildInput'
           /\ LogInput => LogInput'
           /\ CrumbInput => CrumbInput'
           /\ SettingInput => SettingInput'
  <1>1. input' = input
    BY InputStays
  <1>2. StackInput => StackInput'
    BY <1>1, Zenon DEF StackInput
  <1>3. RequestInput => RequestInput'
    BY <1>1, Zenon DEF RequestInput
  <1>4. BuildInput => BuildInput'
    BY <1>1, Zenon DEF BuildInput
  <1>5. LogInput => LogInput'
    BY <1>1, Zenon DEF LogInput
  <1>6. CrumbInput => CrumbInput'
    BY <1>1, Zenon DEF CrumbInput
  <1>7. SettingInput => SettingInput'
    BY <1>1, Zenon DEF SettingInput
  <1> QED BY <1>2, <1>3, <1>4, <1>5, <1>6, <1>7

(* What is inductive about stacks: each answer is that of the function, *)
StackInv ==
    /\ StackInput
    /\ FramesShown /\ TemplateShown /\ ModulePlaced /\ ChainKept /\ SlimIs /\ TargetFound

(* about requests: the resolver's cache has its own routes only, *)
RequestInv ==
    /\ RequestInput
    /\ BodyAndUserRead /\ RestBodyRead /\ NotFoundReported /\ LambdaRead /\ EnvironRead
    /\ Resolved /\ HostNamed

(* about records: of the calls of callHandlers() that are under way, only  *)
(* the outermost has a record of the application; one handler is raven's,  *)
LogInv == LogInput /\ Logged /\ AttributesPlaced /\ Signalled

(* and about settings: what is registered, cached or installed only grows. *)
SettingInv ==
    SettingInput /\ Registered /\ Remotes /\ Extensions /\ Tries /\ OptionChosen

(* It is all so at first. *)
LEMMA EventInvInit ==
    ASSUME Init
    PROVE  StackInv /\ RequestInv /\ LogInv /\ SettingInv
  <1>1. StackInput /\ RequestInput /\ LogInput /\ SettingInput
    BY Zenon DEF Init
  <1>2. \A what : ~ Answered(what)
    BY Unanswered
  <1>3. FramesShown /\ TemplateShown /\ ModulePlaced /\ ChainKept /\ SlimIs /\ TargetFound
    BY <1>2, Zenon DEF FramesShown, TemplateShown, ModulePlaced, ChainKept, SlimIs, TargetFound
  <1>4. /\ BodyAndUserRead /\ RestBodyRead /\ NotFoundReported /\ LambdaRead /\ EnvironRead
        /\ Resolved /\ HostNamed
    BY <1>2, Zenon DEF BodyAndUserRead, RestBodyRead, NotFoundReported, LambdaRead,
                       EnvironRead, Resolved, HostNamed
  <1>5. Logged /\ AttributesPlaced /\ Signalled
    BY <1>2, Zenon DEF Logged, AttributesPlaced, Signalled
  <1>6. Registered /\ Remotes /\ Extensions /\ Tries /\ OptionChosen
    BY <1>2, Zenon DEF Registered, Remotes, Extensions, Tries, OptionChosen
  <1> QED BY <1>1, <1>3, <1>4, <1>5, <1>6 DEF StackInv, RequestInv, LogInv, SettingInv

(* The sum of what was proved about the stacks of an event: every step of  *)
(* get_stack_info(), _chained_exceptions(), the template and slim code.    *)
THEOREM StackInvariance == Spec => []StackInv
  <1>1. Init => StackInv
    BY EventInvInit
  <1>2. StackInv /\ [Next]_vars => StackInv'
    <2>1. SUFFICES ASSUME StackInv, [Next]_vars
                   PROVE  StackInv'
      OBVIOUS
    <2>2. /\ StackInput /\ FramesShown /\ TemplateShown /\ ModulePlaced /\ ChainKept
          /\ SlimIs /\ TargetFound
      BY <2>1 DEF StackInv
    <2>3. StackInput'
      BY <2>1, <2>2, InputsStay
    <2>4. FramesShown' /\ TemplateShown'
      BY <2>1, <2>2, TraceStep, TemplateStep
    <2>5. ModulePlaced' /\ TargetFound'
      BY <2>1, <2>2, PlaceStep, TargetStep
    <2>6. ChainKept' /\ SlimIs'
      BY <2>1, <2>2, ChainStep
    <2> QED BY <2>3, <2>4, <2>5, <2>6 DEF StackInv
  <1> QED BY <1>1, <1>2, PTL DEF Spec

(* SlimKept in every state, of stacks of any length and any allowance.     *)
THEOREM StacksSlim == Spec => []SlimKept
  <1>1. StackInv => SlimKept
    BY SlimKeepsEnds, Zenon DEF StackInv, SlimIs
  <1> QED BY <1>1, StackInvariance, PTL

(* TraceFaithful in every state, of any number of frames, variables of any *)
(* size, template tokens, and exceptions: an event shows the frames that   *)
(* are not hidden, in their order, with the source and the variables of    *)
(* their own (get_stack_info() and what it calls).                         *)
THEOREM StacksFaithful == Spec => []TraceFaithful
  <1>1. StackInv => TraceFaithful
    <2>1. ChainKept => ChainFaithful
      BY ChainsEnd, Zenon DEF ChainKept
    <2> QED BY <2>1, Zenon DEF StackInv, TraceFaithful
  <1> QED BY <1>1, StackInvariance, PTL

(* RequestRead in every state, of any headers, names, paths and routes:    *)
(* what the integrations read of a request is what it has, in each of the  *)
(* ways that reading can fail, and a path is named by the first route that *)
(* matches, unless another of the same pattern was cached before.          *)
THEOREM RequestsAreRead == Spec => []RequestRead
  <1>1. Init => RequestInv
    BY EventInvInit
  <1>2. RequestInv /\ [Next]_vars => RequestInv'
    <2>1. SUFFICES ASSUME RequestInv, [Next]_vars
                   PROVE  RequestInv'
      OBVIOUS
    <2>2. /\ RequestInput /\ BodyAndUserRead /\ RestBodyRead /\ NotFoundReported /\ LambdaRead
          /\ EnvironRead /\ Resolved /\ HostNamed
      BY <2>1 DEF RequestInv
    <2>3. RequestInput'
      BY <2>1, <2>2, InputsStay
    <2>4. BodyAndUserRead' /\ RestBodyRead' /\ NotFoundReported'
      BY <2>1, <2>2, ReadStep, RestStep, NotFoundStep
    <2>5. LambdaRead' /\ EnvironRead' /\ HostNamed'
      BY <2>1, <2>2, LambdaStep, EnvironStep, HostStep
    <2>6. Resolved'
      BY <2>1, <2>2, ResolveStep
    <2> QED BY <2>3, <2>4, <2>5, <2>6 DEF RequestInv
  <1>3. RequestInv => RequestRead
    BY ResolvedNames, Zenon DEF RequestInv, RequestRead
  <1> QED BY <1>1, <1>2, <1>3, PTL DEF Spec

(* RecordsReported in every state, however often the handlers are set up,  *)
(* whatever attributes a record has and whichever handlers Celery's logger *)
(* has: capturing may log, and each of those records may be captured, yet  *)
(* callHandlers() is never more than five calls deep, with one event at    *)
(* most for a record of the application.                                   *)
THEOREM LogRecordsReported == Spec => []RecordsReported
  <1>1. Init => LogInv
    BY EventInvInit
  <1>2. LogInv /\ [Next]_vars => LogInv'
    <2>1. SUFFICES ASSUME LogInv, [Next]_vars
                   PROVE  LogInv'
      OBVIOUS
    <2>2. LogInput /\ Logged /\ AttributesPlaced /\ Signalled
      BY <2>1 DEF LogInv
    <2>3. LogInput'
      BY <2>1, <2>2, InputsStay
    <2>4. Logged' /\ AttributesPlaced' /\ Signalled'
      BY <2>1, <2>2, LogStep, ExtractStep, CeleryStep
    <2> QED BY <2>3, <2>4 DEF LogInv
  <1>3. LogInv => RecordsReported
    BY LoggedReports, SignalledReports, Zenon DEF LogInv, RecordsReported
  <1> QED BY <1>1, <1>2, <1>3, PTL DEF Spec

(* Configured in every state, of any number of transports, DSNs, apps and  *)
(* attempts: a scheme keeps its transport, a DSN its remote, applications  *)
(* that share an extension each report, and Django's middleware is there   *)
(* when initialize_raven() has got so far, once.                           *)
THEOREM SettingsKept == Spec => []Configured
  <1>1. Init => SettingInv
    BY EventInvInit
  <1>2. SettingInv /\ [Next]_vars => SettingInv'
    <2>1. SUFFICES ASSUME SettingInv, [Next]_vars
                   PROVE  SettingInv'
      OBVIOUS
    <2>2. SettingInput /\ Registered /\ Remotes /\ Extensions /\ Tries /\ OptionChosen
      BY <2>1 DEF SettingInv
    <2>3. SettingInput'
      BY <2>1, <2>2, InputsStay
    <2>4. Registered' /\ Remotes' /\ Extensions'
      BY <2>1, <2>2, RegisterStep, DsnStep, AppsStep
    <2>5. Tries' /\ OptionChosen'
      BY <2>1, <2>2, InitializeStep, OptionStep
    <2> QED BY <2>3, <2>4, <2>5 DEF SettingInv
  <1>3. SettingInv => Configured
    <2>1. SUFFICES ASSUME SettingInv
                   PROVE  Configured
      OBVIOUS
    <2>2. SettingInput /\ Registered /\ Remotes /\ Extensions /\ Tries /\ OptionChosen
      BY <2>1 DEF SettingInv
    <2>3. SchemesKept /\ RemotesKept /\ AppsReport
      BY <2>2, RegisteredSchemes, RemotesStay, ExtensionsReport
    <2>4. MiddlewareInstalled
      BY <2>2, TriesInstall
    <2> QED BY <2>2, <2>3, <2>4 DEF Configured
  <1> QED BY <1>1, <1>2, <1>3, PTL DEF Spec
=============================================================================
