------------------------------- MODULE Loops --------------------------------
(***************************************************************************)
(* Loops, as the modules write them: a function on 0 .. n whose value at i *)
(* is made from that at i - 1.  Such a definition is a choice, so that one *)
(* has to know that there is a function of that kind, and what a loop      *)
(* keeps true at each turn holds at its end.  Both follow from the least   *)
(* element of a set of naturals; the properties are sets here, because the *)
(* provers do not instantiate theorems about operators.                    *)
(***************************************************************************)
EXTENDS Integers, FiniteSets, FiniteSetTheorems, WellFoundedInduction, TLAPS

\* A set of naturals has a least element.
LEMMA Least ==
  ASSUME NEW T, T \subseteq Nat, T # {}
  PROVE  \E x \in T : \A y \in T : x <= y
<1>1. IsWellFoundedOn(OpToRel(<, Nat), Nat)
  BY NatLessThanWellFounded
<1>2. PICK x \in T : \A y \in T : ~ (<<y, x>> \in OpToRel(<, Nat))
  BY <1>1, WFMin
<1>3. \A y \in T : ~ (y < x)
  BY <1>2 DEF OpToRel
<1> QED
  BY <1>3

\* Induction up to n, for the property of being in A.
LEMMA UpTo ==
  ASSUME NEW n \in Nat, NEW A, 0 \in A,
         \A i \in 0 .. n - 1 : i \in A => i + 1 \in A
  PROVE  \A i \in 0 .. n : i \in A
<1> SUFFICES ASSUME NEW j \in 0 .. n, j \notin A PROVE FALSE
  OBVIOUS
<1> DEFINE T == {i \in 0 .. n : i \notin A}
<1>1. T \subseteq Nat /\ T # {}
  OBVIOUS
<1> HIDE DEF T
<1>2. PICK x \in T : \A y \in T : x <= y
  BY <1>1, Least
<1>3. x \in 0 .. n /\ x \notin A /\ x # 0
  BY <1>2 DEF T
<1>4. x - 1 \in 0 .. n - 1 /\ x - 1 \notin T
  BY <1>2, <1>3
<1>5. x - 1 \in A
  BY <1>4 DEF T
<1> QED
  BY <1>3, <1>4, <1>5

\* A set of numbers up to n has a greatest element.
LEMMA Greatest ==
  ASSUME NEW n \in Nat, NEW T, T \subseteq 0 .. n, T # {}
  PROVE  \E x \in T : \A y \in T : y <= x
<1> DEFINE U == {i \in 0 .. n : n - i \in T}
<1>1. U \subseteq Nat /\ U # {}
  <2>1. PICK t \in T : TRUE
    OBVIOUS
  <2>2. n - t \in U
    BY <2>1
  <2> QED
    BY <2>2
<1> HIDE DEF U
<1>2. PICK u \in U : \A y \in U : u <= y
  BY <1>1, Least
<1>3. u \in 0 .. n /\ n - u \in T
  BY <1>2 DEF U
<1>4. ASSUME NEW y \in T PROVE y <= n - u
  <2>1. n - y \in U
    BY DEF U
  <2> QED
    BY <1>2, <1>3, <2>1
<1> QED
  BY <1>3, <1>4

\* The first n naturals are finitely many: n.
LEMMA FromZero ==
  ASSUME NEW n \in Nat
  PROVE  IsFiniteSet(0 .. n - 1) /\ Cardinality(0 .. n - 1) = n
<1>1. PICK z \in Int : z = 0
  OBVIOUS
<1>2. PICK k \in Int : k = n - 1
  OBVIOUS
<1>3. IsFiniteSet(z .. k) /\ Cardinality(z .. k) = IF z > k THEN 0 ELSE k - z + 1
  BY FS_Interval
<1> QED
  BY <1>1, <1>2, <1>3

\* The loop that starts with x and goes from s at i - 1 to G[<<i, s>>] at i.
Turns(n, x, G, f) ==
  f = [i \in 0 .. n |-> IF i = 0 THEN x ELSE G[<<i, f[i - 1]>>]]

\* There is one, if no turn leaves the set S.
LEMMA LoopExists ==
  ASSUME NEW n \in Nat, NEW S, NEW x \in S, NEW G \in [(1 .. n) \X S -> S]
  PROVE  \E f \in [0 .. n -> S] : Turns(n, x, G, f)
<1> DEFINE A == {k \in 0 .. n : \E f \in [0 .. k -> S] : Turns(k, x, G, f)}
<1>1. 0 \in A
  <2> DEFINE f == [i \in 0 .. 0 |-> x]
  <2>1. f \in [0 .. 0 -> S]
    OBVIOUS
  <2>2. Turns(0, x, G, f)
    BY DEF Turns
  <2> QED
    BY <2>1, <2>2
<1>2. ASSUME NEW k \in 0 .. n - 1, k \in A PROVE k + 1 \in A
  <2>1. PICK f \in [0 .. k -> S] : Turns(k, x, G, f)
    BY <1>2
  <2> DEFINE g == [i \in 0 .. k + 1 |-> IF i <= k THEN f[i] ELSE G[<<k + 1, f[k]>>]]
  <2>2. f[k] \in S /\ <<k + 1, f[k]>> \in (1 .. n) \X S
    BY <2>1
  <2>3. g \in [0 .. k + 1 -> S]
    <3>1. G[<<k + 1, f[k]>>] \in S
      BY <2>2
    <3> QED
      BY <2>1, <3>1
  <2>4. ASSUME NEW i \in 0 .. k + 1
        PROVE  g[i] = IF i = 0 THEN x ELSE G[<<i, g[i - 1]>>]
    <3>1. CASE i = 0
      BY <2>1, <3>1 DEF Turns
    <3>2. CASE i \in 1 .. k
      <4>1. g[i] = f[i] /\ g[i - 1] = f[i - 1]
        BY <3>2
      <4>2. f[i] = G[<<i, f[i - 1]>>]
        BY <2>1, <3>2 DEF Turns
      <4>3. i # 0
        BY <3>2
      <4> HIDE DEF g
      <4> QED
        BY <4>1, <4>2, <4>3
    <3>3. CASE i = k + 1
      BY <3>3
    <3> QED
      BY <3>1, <3>2, <3>3
  <2>5. Turns(k + 1, x, G, g)
    BY <2>4 DEF Turns
  <2>6. k + 1 \in 0 .. n
    OBVIOUS
  <2> HIDE DEF g
  <2> QED
    BY <2>3, <2>5, <2>6
<1> HIDE DEF A
<1>3. n \in A
  BY <1>1, <1>2, UpTo
<1> QED
  BY <1>3 DEF A
=============================================================================
