----------------------------- MODULE QueueProofs -----------------------------
(***************************************************************************)
(* What taking members out of a queue leaves: the others, in their order.  *)
(* Without is a recursive function over the naturals; the one induction it *)
(* needs is proved from the cardinality of finite sets.                    *)
(***************************************************************************)
EXTENDS Queues, FiniteSetTheorems, TLAPS

\* A set of numbers that has 0, and n + 1 with every n, has every number: were m
\* missing, n |-> n + 1 would map the finite set of those up to m into itself
\* without 0.
LEMMA Induction ==
    ASSUME NEW S \in SUBSET Nat, 0 \in S, \A n \in S : n + 1 \in S
    PROVE  S = Nat
<1>1. SUFFICES ASSUME NEW m \in Nat, m \notin S PROVE FALSE
  OBVIOUS
<1> DEFINE T == {n \in S : n <= m}
           f == [n \in T |-> n + 1]
<1>2. IsFiniteSet(T)
  <2>1. IsFiniteSet(0..m)
    BY FS_Interval
  <2>2. T \in SUBSET (0..m)
    <3>1. \A n \in T : n \in 0..m
      OBVIOUS
    <3> HIDE DEF T
    <3> QED
      BY <3>1
  <2> QED
    BY <2>1, <2>2, FS_Subset
<1>3. 0 \in T
  OBVIOUS
<1>4. /\ IsFiniteSet(T \ {0}) /\ Cardinality(T \ {0}) = Cardinality(T) - 1
      /\ Cardinality(T) \in Nat
  BY <1>2, <1>3, FS_RemoveElement, FS_CardinalityType
<1>5. f \in Injection(T, T \ {0})
  <2>1. ASSUME NEW n \in T PROVE n + 1 \in T \ {0}
    <3>1. n + 1 \in S /\ n # m
      BY <1>1
    <3> QED
      BY <3>1
  <2>2. f \in [T -> T \ {0}] /\ DOMAIN f = T
    BY <2>1
  <2>3. ASSUME NEW a \in T, NEW b \in T, f[a] = f[b] PROVE a = b
    BY <2>3
  <2> HIDE DEF f, T
  <2> QED
    BY <2>2, <2>3 DEF Injection, IsInjective
<1>6. Cardinality(T) <= Cardinality(T \ {0})
  BY <1>4, <1>5, FS_Injection
<1> QED
  BY <1>4, <1>6

\* The lists that Without builds of the first 0, 1, ... n members.
Kept(q, drop, kept, n) ==
    \A i \in 0..n : kept[i] = IF i = 0 THEN <<>>
                              ELSE IF q[i] \in drop THEN kept[i - 1]
                              ELSE Append(kept[i - 1], q[i])

LEMMA KeptExists ==
    ASSUME NEW q, NEW drop, NEW n \in Nat
    PROVE  \E kept : DOMAIN kept = 0..n /\ kept = [i \in 0..n |-> kept[i]] /\ Kept(q, drop, kept, n)
<1> DEFINE Has(k) == \E kept : /\ DOMAIN kept = 0..k /\ kept = [i \in 0..k |-> kept[i]]
                               /\ Kept(q, drop, kept, k)
           S == {k \in Nat : Has(k)}
<1>1. 0 \in S
  <2> DEFINE kept == [i \in 0..0 |-> <<>>]
  <2>1. DOMAIN kept = 0..0 /\ kept = [i \in 0..0 |-> kept[i]] /\ Kept(q, drop, kept, 0)
    BY DEF Kept
  <2> QED
    BY <2>1
<1>2. ASSUME NEW k \in S PROVE k + 1 \in S
  <2>1. PICK kept : /\ DOMAIN kept = 0..k /\ kept = [i \in 0..k |-> kept[i]]
                    /\ Kept(q, drop, kept, k)
    OBVIOUS
  <2> DEFINE next == IF q[k + 1] \in drop THEN kept[k] ELSE Append(kept[k], q[k + 1])
             more == [i \in 0..(k + 1) |-> IF i = k + 1 THEN next ELSE kept[i]]
  <2>2. k \in Nat
    OBVIOUS
  <2>3. /\ DOMAIN more = 0..(k + 1) /\ more = [i \in 0..(k + 1) |-> more[i]]
        /\ more[k + 1] = next /\ \A i \in 0..k : more[i] = kept[i]
    BY <2>2
  <2> HIDE DEF more
  <2>4. ASSUME NEW i \in 0..(k + 1)
        PROVE  more[i] = IF i = 0 THEN <<>>
                         ELSE IF q[i] \in drop THEN more[i - 1]
                         ELSE Append(more[i - 1], q[i])
    <3>1. CASE i = k + 1
      <4>1. i # 0 /\ i - 1 = k /\ k \in 0..k
        BY <2>2, <3>1
      <4> QED
        BY <2>3, <3>1, <4>1
    <3>2. CASE i = 0
      <4>1. 0 \in 0..k
        BY <2>2
      <4>2. kept[0] = <<>>
        BY <2>1, <4>1 DEF Kept
      <4> QED
        BY <2>3, <3>2, <4>1, <4>2
    <3>3. CASE i \in 1..k
      <4>1. i # 0 /\ i \in 0..k /\ i - 1 \in 0..k
        BY <2>2, <3>3
      <4> QED
        BY <2>1, <2>3, <4>1 DEF Kept
    <3> QED
      BY <2>2, <3>1, <3>2, <3>3
  <2>5. Has(k + 1)
    BY <2>3, <2>4 DEF Kept
  <2> QED
    BY <2>2, <2>5
<1>3. S = Nat
  <2> HIDE DEF Has
  <2>1. S \in SUBSET Nat
    OBVIOUS
  <2> HIDE DEF S
  <2> QED
    BY <1>1, <1>2, <2>1, Induction
<1> QED
  BY <1>3
\* Each member of r is that of q at its place `at`, none of them is to be
\* dropped, the order is that of q, and none of the others is missing.
Selects(q, drop, n, r, at) ==
    /\ Len(r) <= n /\ at \in [1..Len(r) -> 1..n]
    /\ \A j \in 1..Len(r) : r[j] = q[at[j]] /\ q[at[j]] \notin drop
    /\ \A j, k \in 1..Len(r) : j < k => at[j] < at[k]
    /\ \A i \in 1..n : q[i] \notin drop => \E j \in 1..Len(r) : at[j] = i

LEMMA WithoutIsKept ==
    ASSUME NEW S, NEW q \in Seq(S), NEW drop
    PROVE  \E kept : Without(q, drop) = kept[Len(q)] /\ Kept(q, drop, kept, Len(q))
<1> DEFINE kept == CHOOSE kept : kept = [i \in 0..Len(q) |->
                       IF i = 0 THEN <<>>
                       ELSE IF q[i] \in drop THEN kept[i - 1] ELSE Append(kept[i - 1], q[i])]
<1>1. Without(q, drop) = kept[Len(q)]
  BY DEF Without
<1>2. PICK some : /\ DOMAIN some = 0..Len(q) /\ some = [i \in 0..Len(q) |-> some[i]]
                  /\ Kept(q, drop, some, Len(q))
  <2>1. Len(q) \in Nat
    OBVIOUS
  <2> QED
    BY <2>1, KeptExists, Zenon
<1>3. some = [i \in 0..Len(q) |->
                 IF i = 0 THEN <<>>
                 ELSE IF q[i] \in drop THEN some[i - 1] ELSE Append(some[i - 1], q[i])]
  <2> DEFINE body(i) == IF i = 0 THEN <<>>
                        ELSE IF q[i] \in drop THEN some[i - 1] ELSE Append(some[i - 1], q[i])
  <2>1. \A i \in 0..Len(q) : some[i] = body(i)
    BY <1>2, Zenon DEF Kept
  <2> HIDE DEF body
  <2>2. [i \in 0..Len(q) |-> some[i]] = [i \in 0..Len(q) |-> body(i)]
    BY <2>1
  <2>3. some = [i \in 0..Len(q) |-> body(i)]
    BY <1>2, <2>2, Zenon
  <2> QED
    BY <2>3 DEF body
<1>4. kept = [i \in 0..Len(q) |->
                 IF i = 0 THEN <<>>
                 ELSE IF q[i] \in drop THEN kept[i - 1] ELSE Append(kept[i - 1], q[i])]
  BY <1>3, Zenon
<1> HIDE DEF kept
<1>5. Kept(q, drop, kept, Len(q))
  BY <1>4 DEF Kept
<1> QED
  BY <1>1, <1>5

LEMMA WithoutSelects ==
    ASSUME NEW S, NEW q \in Seq(S), NEW drop
    PROVE  /\ Without(q, drop) \in Seq(S)
           /\ \E at : Selects(q, drop, Len(q), Without(q, drop), at)
<1>1. PICK kept : Without(q, drop) = kept[Len(q)] /\ Kept(q, drop, kept, Len(q))
  BY WithoutIsKept
<1> DEFINE Selected(i) == kept[i] \in Seq(S) /\ \E at : Selects(q, drop, i, kept[i], at)
           T == {i \in Nat : i <= Len(q) => Selected(i)}
<1>2. 0 \in T
  <2>1. kept[0] = <<>>
    <3>1. 0 \in 0..Len(q)
      OBVIOUS
    <3> QED
      BY <1>1, <3>1 DEF Kept
  <2>2. Selects(q, drop, 0, <<>>, [j \in 1..0 |-> 1])
    BY DEF Selects
  <2>3. <<>> \in Seq(S)
    OBVIOUS
  <2> HIDE DEF Selects
  <2>4. Selected(0)
    BY <2>1, <2>2, <2>3, Zenon
  <2> HIDE DEF Selected
  <2> QED
    BY <2>4
<1>3. ASSUME NEW i \in T PROVE i + 1 \in T
  <2>1. SUFFICES ASSUME i + 1 <= Len(q) PROVE Selected(i + 1)
    OBVIOUS
  <2>2. i \in Nat /\ i + 1 \in 0..Len(q) /\ i + 1 \in 1..Len(q) /\ q[i + 1] \in S
    BY <2>1
  <2>3. kept[i + 1] = IF q[i + 1] \in drop THEN kept[i] ELSE Append(kept[i], q[i + 1])
    <3>1. (i + 1) - 1 = i /\ i + 1 # 0
      BY <2>2
    <3> QED
      BY <1>1, <2>2, <3>1 DEF Kept
  <2>4. PICK at : kept[i] \in Seq(S) /\ Selects(q, drop, i, kept[i], at)
    BY <2>1, <2>2
  <2> DEFINE r == kept[i]
  <2>5. r \in Seq(S) /\ Selects(q, drop, i, r, at)
    BY <2>4
  <2>6. \A k \in 1..(i + 1) : k \in 1..i \/ k = i + 1
    BY <2>2
  <2>7. CASE q[i + 1] \in drop
    <3>1. Selects(q, drop, i + 1, r, at)
      <4> HIDE DEF r
      <4>1. at \in [1..Len(r) -> 1..(i + 1)]
        BY <2>2, <2>5 DEF Selects
      <4> QED
        BY <2>2, <2>5, <2>6, <2>7, <4>1 DEF Selects
    <3> QED
      BY <2>3, <2>5, <2>7, <3>1
  <2>8. CASE q[i + 1] \notin drop
    <3>1. kept[i + 1] = Append(r, q[i + 1])
      BY <2>3, <2>8
    <3> HIDE DEF r
    <3> DEFINE more == [j \in 1..(Len(r) + 1) |-> IF j = Len(r) + 1 THEN i + 1 ELSE at[j]]
               t == Append(r, q[i + 1])
    <3>2. /\ t \in Seq(S) /\ Len(t) = Len(r) + 1 /\ Len(r) \in Nat
          /\ t[Len(r) + 1] = q[i + 1] /\ \A j \in 1..Len(r) : t[j] = r[j]
      BY <2>2, <2>5
    <3>3. \A j \in 1..(Len(r) + 1) : j \in 1..Len(r) \/ j = Len(r) + 1
      BY <3>2
    <3>4. /\ \A j \in 1..Len(r) : j \in 1..(Len(r) + 1) /\ j # Len(r) + 1
          /\ Len(r) + 1 \in 1..(Len(r) + 1)
      BY <3>2
    <3>5. \A j \in 1..Len(r) : at[j] \in 1..i
      BY <2>5 DEF Selects
    <3>6. more \in [1..(Len(r) + 1) -> 1..(i + 1)]
      BY <2>2, <3>3, <3>5
    <3>7. more[Len(r) + 1] = i + 1 /\ \A j \in 1..Len(r) : more[j] = at[j]
      BY <3>4
    <3> HIDE DEF more, t
    <3>8. \A j \in 1..Len(t) : t[j] = q[more[j]] /\ q[more[j]] \notin drop
      BY <2>5, <2>8, <3>2, <3>3, <3>7 DEF Selects
    <3>9. ASSUME NEW j \in 1..Len(t), NEW k \in 1..Len(t), j < k
          PROVE  more[j] < more[k]
      <4>1. j \in 1..Len(r) /\ (k \in 1..Len(r) \/ k = Len(r) + 1)
        BY <3>2, <3>3, <3>9
      <4>2. at[j] \in 1..i /\ more[j] = at[j]
        BY <3>5, <3>7, <4>1
      <4>3. CASE k = Len(r) + 1
        BY <2>2, <3>7, <4>2, <4>3
      <4>4. CASE k \in 1..Len(r)
        <5>1. at[j] < at[k]
          BY <2>5, <3>9, <4>1, <4>4 DEF Selects
        <5> QED
          BY <3>7, <4>2, <4>4, <5>1
      <4> QED
        BY <4>1, <4>3, <4>4
    <3>10. \A k \in 1..(i + 1) : q[k] \notin drop => \E j \in 1..Len(t) : more[j] = k
      BY <2>2, <2>5, <2>6, <3>2, <3>4, <3>7 DEF Selects
    <3>11. Selects(q, drop, i + 1, t, more)
      <4>1. Len(t) <= i + 1 /\ more \in [1..Len(t) -> 1..(i + 1)]
        <5>1. Len(r) <= i
          BY <2>5 DEF Selects
        <5> QED
          BY <2>2, <3>2, <3>6, <5>1
      <4> QED
        BY <3>8, <3>9, <3>10, <4>1 DEF Selects
    <3> QED
      BY <3>1, <3>2, <3>11 DEF t
  <2> QED
    BY <2>7, <2>8
<1>4. T = Nat
  <2> HIDE DEF Selected
  <2>1. T \in SUBSET Nat
    OBVIOUS
  <2> HIDE DEF T
  <2> QED
    BY <1>2, <1>3, <2>1, Induction
<1>5. Selected(Len(q))
  <2> HIDE DEF Selected
  <2> QED
    BY <1>4
<1> QED
  BY <1>1, <1>5

\* What the rest of the proofs use: where a member of the rest was, that it is
\* none of those dropped, that nothing else is missing, and the order.
LEMMA WithoutProperties ==
    ASSUME NEW S, NEW q \in Seq(S), NEW drop
    PROVE  /\ Without(q, drop) \in Seq(S) /\ Len(Without(q, drop)) <= Len(q)
           /\ \E at \in [1..Len(Without(q, drop)) -> 1..Len(q)] :
                  /\ \A j \in 1..Len(Without(q, drop)) :
                         Without(q, drop)[j] = q[at[j]] /\ q[at[j]] \notin drop
                  /\ \A j, k \in 1..Len(Without(q, drop)) : j < k => at[j] < at[k]
                  /\ \A i \in 1..Len(q) :
                         q[i] \notin drop => \E j \in 1..Len(Without(q, drop)) : at[j] = i
  BY WithoutSelects DEF Selects

\* Its members were there, and are none of those to drop.
LEMMA WithoutMembers ==
    ASSUME NEW S, NEW q \in Seq(S), NEW drop
    PROVE  /\ Without(q, drop) \in Seq(S)
           /\ \A j \in DOMAIN Without(q, drop) :
                  \E i \in DOMAIN q : Without(q, drop)[j] = q[i] /\ q[i] \notin drop
<1> DEFINE r == Without(q, drop)
<1>1. r \in Seq(S)
  BY WithoutProperties
<1>2. PICK at \in [1..Len(r) -> 1..Len(q)] :
          \A j \in 1..Len(r) : r[j] = q[at[j]] /\ q[at[j]] \notin drop
  BY WithoutProperties
<1> HIDE DEF r
<1>3. DOMAIN r = 1..Len(r) /\ DOMAIN q = 1..Len(q)
  BY <1>1
<1>4. \A j \in DOMAIN r : \E i \in DOMAIN q : r[j] = q[i] /\ q[i] \notin drop
  BY <1>2, <1>3
<1> QED
  BY <1>1, <1>4 DEF r
=============================================================================
