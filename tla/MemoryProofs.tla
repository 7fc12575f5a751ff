---------------------------- MODULE MemoryProofs ----------------------------
(***************************************************************************)
(* That the slabs of the kernel heap tile its pages, that what has been    *)
(* allocated stays so until it is freed, and that common_malloc() ends     *)
(* with a slab; and that the memory's pages are each in one list and have  *)
(* one use, that all processes have the same kernel heap, and that a fork  *)
(* leaves the parent's space alone: for every size of the memory, a page   *)
(* and a table, and any processes.                                         *)
(***************************************************************************)
EXTENDS Heap, Loops

Slabs       == [used : BOOLEAN, size : Nat, prev : Nat, next : Nat]
Shaped(h)   == h = [pages |-> h.pages, slab |-> h.slab] /\ h.slab \in [DOMAIN h.slab -> Slabs]
EndOf(h, a) == a + HEADER + h.slab[a].size

\* The ring of slabs goes up from SLAB_FIRST without a hole, to top.
Ring(h, top) ==
  /\ Shaped(h)
  /\ DOMAIN h.slab \subseteq Nat /\ SLAB_FIRST \in DOMAIN h.slab
  /\ \A a \in DOMAIN h.slab :
       /\ SLAB_FIRST <= a
       /\ h.slab[a].next \in DOMAIN h.slab /\ h.slab[h.slab[a].next].prev = a
       /\ h.slab[a].prev \in DOMAIN h.slab /\ h.slab[h.slab[a].prev].next = a
       /\ EndOf(h, a) <= top
       /\ h.slab[a].next = IF EndOf(h, a) = top THEN SLAB_FIRST ELSE EndOf(h, a)
  /\ \A a, b \in DOMAIN h.slab : a < b => EndOf(h, a) <= b

\* Two free slabs are side by side at most before a.
MergedBut(h, a) ==
  \A x \in DOMAIN h.slab :
    h.slab[x].next # SLAB_FIRST /\ h.slab[x].next # a => h.slab[x].used \/ h.slab[h.slab[x].next].used

Merged(h) == MergedBut(h, SLAB_FIRST)

\* The heap has the pages from KernelHeap up to page m, the last one it can have
\* without a gap being the second of the second table.
UpToPage(h, m) == m \in KernelHeap + 1 .. PTES + 2 /\ h.pages = KernelHeap .. m - 1

\* The inductive invariant, with PointersKept.
Tiled(h) == Merged(h) /\ \E m \in Nat : UpToPage(h, m) /\ Ring(h, m * PG_SIZE)

LiveType == live \in SUBSET (Nat \X Nat)

HeapInv == Tiled(heap) /\ LiveType /\ PointersKept

\* What the constants are.
LEMMA Sizing ==
  /\ PTES \in Nat /\ PTES >= 3 /\ KernelHeap \in 2 .. PTES - 1
  /\ PG_SIZE \in Nat /\ HEADER \in Nat /\ 1 <= HEADER /\ HEADER < PG_SIZE
  /\ Sizes \subseteq Nat \ {0} /\ SLAB_FIRST \in Nat
  BY PagingAssumption, HeapAssumption DEF KernelHeap, SLAB_FIRST

-----------------------------------------------------------------------------
(* Where the next page goes. *)

Step(x) == NextLin(x, TRUE)

\* Dividing and taking the remainder by the size of a table.
LEMMA InTable ==
  ASSUME NEW p \in Nat, p >= 3, NEW d \in Nat, NEW e \in 0 .. p - 1
  PROVE  (d * p + e) \div p = d /\ (d * p + e) % p = e
  OBVIOUS

\* Every page is in an entry of a table.
LEMMA TableAndEntry ==
  ASSUME NEW p \in Nat, p >= 3, NEW x \in Nat
  PROVE  \E d \in Nat, e \in 0 .. p - 1 : x = d * p + e
<1>1. x \div p \in Nat
  OBVIOUS
<1>2. x % p \in 0 .. p - 1
  OBVIOUS
<1>3. x = (x \div p) * p + (x % p)
  OBVIOUS
<1> QED
  BY <1>1, <1>2, <1>3

\* The step from page x, in entry e of table d.
LEMMA HeapStep ==
  ASSUME NEW d \in Nat, NEW e \in 0 .. PTES - 1, NEW x \in Nat, x = d * PTES + e
  PROVE  Step(x) = IF e = 1 THEN (d + 1) * PTES ELSE d * PTES + ((e + 1) % PTES)
<1>1. (d * PTES + e) \div PTES = d /\ (d * PTES + e) % PTES = e
  BY Sizing, InTable
<1> QED
  BY <1>1 DEF Step, NextLin

\* A step leads from an address to another, never to entry 2 of the second table.
LEMMA NeverThere ==
  ASSUME NEW x \in Nat
  PROVE  Step(x) \in Nat /\ Step(x) # PTES + 2
<1>1. PICK d \in Nat, e \in 0 .. PTES - 1 : x = d * PTES + e
  BY Sizing, TableAndEntry
<1>2. Step(x) = IF e = 1 THEN (d + 1) * PTES ELSE d * PTES + ((e + 1) % PTES)
  BY <1>1, HeapStep
<1>3. CASE e = 1
  <2>1. (d + 1) * PTES \in Nat /\ (d + 1) * PTES # PTES + 2
    BY Sizing
  <2> QED
    BY <2>1, <1>2, <1>3
<1>4. CASE e # 1 /\ e + 1 < PTES
  <2>1. (e + 1) % PTES = e + 1
    BY Sizing, <1>4
  <2>2. d * PTES + (e + 1) \in Nat /\ d * PTES + (e + 1) # PTES + 2
    BY Sizing, <1>4
  <2> QED
    BY <2>1, <2>2, <1>2, <1>4
<1>5. CASE e = PTES - 1
  <2>1. (e + 1) % PTES = 0
    BY Sizing, <1>5
  <2>2. d * PTES + 0 \in Nat /\ d * PTES + 0 # PTES + 2 /\ e # 1
    BY Sizing, <1>5
  <2> QED
    BY <2>1, <2>2, <1>2
<1>6. e = 1 \/ (e # 1 /\ e + 1 < PTES) \/ e = PTES - 1
  BY Sizing
<1> QED
  BY <1>3, <1>4, <1>5, <1>6


\* The steps that lead through the pages up to the gap.
LEMMA FirstSteps ==
  /\ \A x \in 2 .. PTES - 2 : Step(x) = x + 1
  /\ Step(PTES - 1) = 0 /\ Step(0) = 1 /\ Step(1) = PTES
  /\ Step(PTES) = PTES + 1 /\ Step(PTES + 1) = 2 * PTES
<1>1. PICK zero \in Nat : zero = 0
  OBVIOUS
<1>2. PICK one \in Nat : one = 1
  OBVIOUS
<1>3. /\ \A x \in 0 .. PTES - 1 : x = zero * PTES + x
      /\ PTES = one * PTES + zero /\ PTES + 1 = one * PTES + one
      /\ one * PTES = PTES /\ (one + 1) * PTES = 2 * PTES
      /\ \A x \in 0 .. PTES - 2 : (x + 1) % PTES = x + 1
      /\ PTES % PTES = 0
      /\ zero \in 0 .. PTES - 1 /\ one \in 0 .. PTES - 1
  BY <1>1, <1>2, Sizing
<1>4. ASSUME NEW x \in 0 .. PTES - 2, x # 1 PROVE Step(x) = x + 1
  <2>1. x \in Nat /\ x \in 0 .. PTES - 1
    BY Sizing
  <2>2. x = zero * PTES + x /\ zero * PTES = 0
    BY <1>1, <1>3, <2>1, Sizing
  <2>3. Step(x) = IF x = 1 THEN (zero + 1) * PTES ELSE zero * PTES + ((x + 1) % PTES)
    BY <2>1, <2>2, HeapStep
  <2> QED
    BY <1>3, <1>4, <2>2, <2>3, Sizing
<1>5. Step(PTES - 1) = 0
  <2>1. PICK x \in 0 .. PTES - 1 : x = PTES - 1
    BY Sizing
  <2>2. x \in Nat /\ x = zero * PTES + x /\ zero * PTES = 0 /\ x # 1 /\ (x + 1) % PTES = 0
    BY <1>1, <1>3, <2>1, Sizing
  <2>3. Step(x) = IF x = 1 THEN (zero + 1) * PTES ELSE zero * PTES + ((x + 1) % PTES)
    BY <2>1, <2>2, HeapStep
  <2> QED
    BY <2>1, <2>2, <2>3
<1>6. Step(one) = PTES
  <2>1. one = zero * PTES + one /\ (zero + 1) * PTES = PTES
    BY <1>1, <1>3, Sizing
  <2>2. Step(one) = IF one = 1 THEN (zero + 1) * PTES ELSE zero * PTES + ((one + 1) % PTES)
    BY <1>3, <2>1, HeapStep
  <2> QED
    BY <1>2, <2>1, <2>2
<1>7. Step(PTES) = PTES + 1
  <2>1. Step(PTES) = IF zero = 1 THEN (one + 1) * PTES ELSE one * PTES + ((zero + 1) % PTES)
    <3>1. PICK x \in Nat : x = PTES
      BY Sizing
    <3>2. x = one * PTES + zero
      BY <1>3, <3>1
    <3>3. Step(x) = IF zero = 1 THEN (one + 1) * PTES ELSE one * PTES + ((zero + 1) % PTES)
      BY <1>1, <1>2, <1>3, <3>2, HeapStep
    <3> QED
      BY <3>1, <3>3
  <2>2. (zero + 1) % PTES = 1 /\ zero # 1
    BY <1>1, Sizing
  <2> QED
    BY <1>3, <2>1, <2>2
<1>8. Step(PTES + 1) = 2 * PTES
  <2>1. PTES + 1 \in Nat
    BY Sizing
  <2>2. Step(PTES + 1) = IF one = 1 THEN (one + 1) * PTES ELSE one * PTES + ((one + 1) % PTES)
    BY <1>3, <2>1, HeapStep
  <2> QED
    BY <1>2, <1>3, <2>2
<1>9. Step(0) = 1
  <2>1. zero \in 0 .. PTES - 2 /\ zero # 1
    BY <1>1, Sizing
  <2>2. Step(zero) = zero + 1
    BY <1>4, <2>1
  <2> QED
    BY <1>1, <2>2
<1> QED
  BY <1>2, <1>4, <1>5, <1>6, <1>7, <1>8, <1>9, Sizing

\* The k-th page that is looked at, from KernelHeap on.
Path(k) ==
  IF k < PTES - KernelHeap THEN KernelHeap + k
  ELSE IF k = PTES - KernelHeap THEN 0
  ELSE IF k = PTES - KernelHeap + 1 THEN 1
  ELSE PTES + (k - (PTES - KernelHeap + 2))

\* When the pages up to m are mapped, this many of the path are.
Length(m) == IF m < PTES THEN m - KernelHeap ELSE m - KernelHeap + 2

\* What is found behind them.
Behind(m) == IF m = PTES + 2 THEN 2 * PTES ELSE m

\* A step follows the path as long as it meets mapped pages, to what is behind them.
LEMMA PathSteps ==
  ASSUME NEW m \in KernelHeap + 1 .. PTES + 2, NEW k \in 0 .. Length(m) - 1
  PROVE  /\ Path(k) \in 0 .. m - 1
         /\ Step(Path(k)) = IF k = Length(m) - 1 THEN Behind(m) ELSE Path(k + 1)
<1> PICK h \in 2 .. PTES - 1 : h = KernelHeap
  BY Sizing
<1>0. PTES \in Nat /\ PTES >= 3 /\ m \in Int /\ k \in Int
  BY Sizing DEF Length
<1> USE FirstSteps
<1>1. CASE k < PTES - h - 1
  <2>1. Path(k) = h + k /\ Path(k + 1) = h + k + 1
    BY <1>0, <1>1 DEF Path
  <2>2. h + k \in 2 .. PTES - 2
    BY <1>0, <1>1
  <2>3. Step(h + k) = h + k + 1
    BY <2>2
  <2> QED
    BY <1>0, <1>1, <2>1, <2>3 DEF Length, Behind
<1>2. CASE k = PTES - h - 1
  <2>1. Path(k) = PTES - 1 /\ Path(k + 1) = 0
    BY <1>0, <1>2 DEF Path
  <2>2. m >= PTES /\ k < Length(m) - 1
    BY <1>0, <1>2 DEF Length
  <2> QED
    BY <1>0, <2>1, <2>2 DEF Behind
<1>3. CASE k = PTES - h
  <2>1. Path(k) = 0 /\ Path(k + 1) = 1
    BY <1>0, <1>3 DEF Path
  <2>2. m >= PTES /\ k < Length(m) - 1
    BY <1>0, <1>3 DEF Length
  <2> QED
    BY <1>0, <2>1, <2>2 DEF Behind
<1>4. CASE k = PTES - h + 1
  <2>1. Path(k) = 1 /\ Path(k + 1) = PTES
    BY <1>0, <1>4 DEF Path
  <2>2. m >= PTES /\ (k = Length(m) - 1 => m = PTES)
    BY <1>0, <1>4 DEF Length
  <2> QED
    BY <1>0, <2>1, <2>2 DEF Behind
<1>5. CASE k = PTES - h + 2
  <2>1. Path(k) = PTES /\ Path(k + 1) = PTES + 1
    BY <1>0, <1>5 DEF Path
  <2>2. m >= PTES + 1 /\ (k = Length(m) - 1 => m = PTES + 1)
    BY <1>0, <1>5 DEF Length
  <2> QED
    BY <1>0, <2>1, <2>2 DEF Behind
<1>6. CASE k = PTES - h + 3
  <2>1. Path(k) = PTES + 1
    BY <1>0, <1>6 DEF Path
  <2>2. m = PTES + 2 /\ k = Length(m) - 1
    BY <1>0, <1>6 DEF Length
  <2> QED
    BY <1>0, <2>1, <2>2 DEF Behind
<1>7. \/ k < PTES - h - 1 \/ k = PTES - h - 1 \/ k = PTES - h
      \/ k = PTES - h + 1 \/ k = PTES - h + 2 \/ k = PTES - h + 3
  BY <1>0 DEF Length
<1> QED
  BY <1>1, <1>2, <1>3, <1>4, <1>5, <1>6, <1>7

\* The loop of pg_next_addr(), for a heap.
Walk(mapped, f) ==
  f = [k \in 0 .. Cardinality(mapped) |->
         IF k = 0 THEN KernelHeap
         ELSE IF f[k - 1] \in mapped THEN Step(f[k - 1]) ELSE f[k - 1]]

\* There is such a function, and it is the one pg_next_addr() returns the last value of.
LEMMA WalkExists ==
  ASSUME NEW mapped, IsFiniteSet(mapped)
  PROVE  \E f \in [0 .. Cardinality(mapped) -> Nat] :
            Walk(mapped, f) /\ pg_next_addr(mapped, KernelHeap, TRUE) = f[Cardinality(mapped)]
<1> DEFINE n == Cardinality(mapped)
           Look(x) == IF x \in mapped THEN Step(x) ELSE x
           G == [t \in (1 .. n) \X Nat |-> Look(t[2])]
           l[k \in 0 .. n] ==
             IF k = 0 THEN KernelHeap
             ELSE LET lin == l[k - 1] IN IF lin \in mapped THEN Step(lin) ELSE lin
<1>1. pg_next_addr(mapped, KernelHeap, TRUE) = l[n]
  BY DEF pg_next_addr, Step
<1>2. n \in Nat /\ KernelHeap \in Nat
  BY FS_CardinalityType, Sizing
<1> HIDE DEF n
<1>3. G \in [(1 .. n) \X Nat -> Nat]
  BY NeverThere
<1>4. PICK f \in [0 .. n -> Nat] : Turns(n, KernelHeap, G, f)
  <2> HIDE DEF G
  <2> QED
    BY <1>2, <1>3, LoopExists
<1>5. f = [k \in 0 .. n |-> IF k = 0 THEN KernelHeap ELSE Look(f[k - 1])]
  <2>1. \A k \in 0 .. n : k # 0 => G[<<k, f[k - 1]>>] = Look(f[k - 1])
    BY <1>2
  <2> HIDE DEF G
  <2>2. \A k \in 0 .. n : f[k] = IF k = 0 THEN KernelHeap ELSE Look(f[k - 1])
    BY <1>4, <2>1 DEF Turns
  <2> HIDE DEF Look
  <2> QED
    BY <2>2
<1>6. l = [k \in 0 .. n |-> IF k = 0 THEN KernelHeap ELSE Look(l[k - 1])]
  BY <1>5 DEF l, Look
<1> HIDE DEF l
<1>7. Walk(mapped, l)
  BY <1>6 DEF Walk, n
<1>8. l[0] = KernelHeap /\ \A k \in 1 .. n : l[k] = Look(l[k - 1])
  BY <1>2, <1>6
<1> DEFINE A == {k \in 0 .. n : l[k] \in Nat}
<1>9. ASSUME NEW k \in 0 .. n - 1, k \in A PROVE k + 1 \in A
  <2>1. k + 1 \in 1 .. n /\ (k + 1) - 1 = k /\ l[k] \in Nat
    BY <1>2, <1>9
  <2>2. l[k + 1] = Look(l[k])
    BY <1>8, <2>1
  <2>3. l[k + 1] \in Nat
    <3>1. CASE l[k] \in mapped
      BY <2>1, <2>2, <3>1, NeverThere
    <3>2. CASE l[k] \notin mapped
      BY <2>1, <2>2, <3>2
    <3> QED
      BY <3>1, <3>2
  <2>4. k + 1 \in 0 .. n
    BY <1>2
  <2> QED
    BY <2>3, <2>4
<1>10. 0 \in A
  BY <1>2, <1>8
<1> HIDE DEF A
<1>11. \A k \in 0 .. n : k \in A
  BY <1>2, <1>9, <1>10, UpTo
<1>12. l \in [0 .. n -> Nat]
  BY <1>6, <1>11 DEF A
<1> QED
  BY <1>1, <1>7, <1>12 DEF n

\* The next page of a heap without a gap.
LEMMA NextOfPages ==
  ASSUME NEW m \in KernelHeap + 1 .. PTES + 2
  PROVE  NextPage(KernelHeap .. m - 1) = Behind(m)
<1> DEFINE mapped == 0 .. m - 1
           n      == Length(m)
<1>0. PICK h \in 2 .. PTES - 1 : h = KernelHeap
  BY Sizing
<1>1. m \in Nat /\ n \in 1 .. m
  BY <1>0, Sizing DEF Length
<1>2. (0 .. sys_pgs - 1) \cup (KernelHeap .. m - 1) = mapped
  BY <1>0, Sizing DEF KernelHeap
<1>3. IsFiniteSet(mapped) /\ Cardinality(mapped) = m
  BY <1>1, FromZero
<1>4. Behind(m) \notin mapped
  BY <1>1, Sizing DEF Behind
<1>5. NextPage(KernelHeap .. m - 1) = pg_next_addr(mapped, KernelHeap, TRUE)
  BY <1>2 DEF NextPage
<1>6. \A k \in 0 .. n - 1 : Path(k) \in mapped /\ Step(Path(k)) = IF k = n - 1 THEN Behind(m) ELSE Path(k + 1)
  <2>1. \A k \in 0 .. Length(m) - 1 :
          Path(k) \in 0 .. m - 1 /\ Step(Path(k)) = IF k = Length(m) - 1 THEN Behind(m) ELSE Path(k + 1)
    BY PathSteps
  <2> QED
    BY <2>1
<1>7. Path(0) = KernelHeap
  <2>1. PICK z \in Nat : z = 0
    OBVIOUS
  <2>2. Path(z) = KernelHeap
    BY <1>0, <2>1, Sizing DEF Path
  <2> QED
    BY <2>1, <2>2
<1> HIDE DEF mapped, n
<1>8. PICK f \in [0 .. m -> Nat] : Walk(mapped, f) /\ pg_next_addr(mapped, KernelHeap, TRUE) = f[m]
  BY <1>3, WalkExists
<1>9. /\ f[0] = KernelHeap
      /\ \A k \in 1 .. m : f[k] = IF f[k - 1] \in mapped THEN Step(f[k - 1]) ELSE f[k - 1]
  BY <1>1, <1>3, <1>8 DEF Walk
<1> DEFINE A == {k \in 0 .. m : f[k] = IF k < n THEN Path(k) ELSE Behind(m)}
<1>10. 0 \in A
  BY <1>1, <1>7, <1>9
<1>11. ASSUME NEW k \in 0 .. m - 1, k \in A PROVE k + 1 \in A
  <2>1. k + 1 \in 1 .. m /\ k + 1 \in 0 .. m /\ (k + 1) - 1 = k
    BY <1>1
  <2>2. f[k + 1] = IF f[k] \in mapped THEN Step(f[k]) ELSE f[k]
    BY <1>9, <2>1
  <2>3. CASE k < n
    <3>1. f[k] = Path(k) /\ k \in 0 .. n - 1
      BY <1>1, <1>11, <2>3
    <3>2. f[k + 1] = Step(Path(k))
      BY <1>6, <2>2, <3>1
    <3> QED
      BY <1>1, <1>6, <2>1, <3>1, <3>2
  <2>4. CASE k >= n
    <3>1. f[k] = Behind(m)
      BY <1>1, <1>11, <2>4
    <3> QED
      BY <1>1, <1>4, <2>1, <2>2, <2>4, <3>1
  <2> QED
    BY <1>1, <2>3, <2>4
<1>12. ASSUME m \in A PROVE f[m] = Behind(m)
  BY <1>1, <1>12
<1> HIDE DEF A
<1>13. \A k \in 0 .. m : k \in A
  BY <1>1, <1>10, <1>11, UpTo
<1>14. m \in A
  BY <1>1, <1>13
<1> QED
  BY <1>5, <1>8, <1>12, <1>14

\* Whatever pages there are, the next is not the third of the second table.
LEMMA NextNever ==
  ASSUME NEW pages, IsFiniteSet(pages)
  PROVE  NextPage(pages) \in Nat /\ NextPage(pages) # PTES + 2
<1> DEFINE mapped == (0 .. sys_pgs - 1) \cup pages
           n      == Cardinality(mapped)
<1>0. sys_pgs \in Nat /\ KernelHeap \in 2 .. PTES - 1
  BY PagingAssumption, Sizing
<1>1. IsFiniteSet(mapped)
  <2>1. IsFiniteSet(0 .. sys_pgs - 1)
    BY <1>0, FromZero
  <2> QED
    BY <2>1, FS_Union
<1>2. n \in Nat
  BY <1>1, FS_CardinalityType
<1>3. NextPage(pages) = pg_next_addr(mapped, KernelHeap, TRUE)
  BY DEF NextPage
<1> HIDE DEF mapped
<1>4. PICK f \in [0 .. n -> Nat] : Walk(mapped, f) /\ pg_next_addr(mapped, KernelHeap, TRUE) = f[n]
  BY <1>1, WalkExists
<1>5. /\ f[0] = KernelHeap
      /\ \A k \in 1 .. n : f[k] = IF f[k - 1] \in mapped THEN Step(f[k - 1]) ELSE f[k - 1]
  BY <1>2, <1>4 DEF Walk
<1> HIDE DEF n
<1> DEFINE A == {k \in 0 .. n : f[k] # PTES + 2}
<1>6. 0 \in A
  BY <1>0, <1>2, <1>5, Sizing
<1>7. ASSUME NEW k \in 0 .. n - 1, k \in A PROVE k + 1 \in A
  <2>1. k + 1 \in 1 .. n /\ k + 1 \in 0 .. n /\ (k + 1) - 1 = k /\ k \in 0 .. n
    BY <1>2
  <2>2. f[k + 1] = IF f[k] \in mapped THEN Step(f[k]) ELSE f[k]
    BY <1>5, <2>1
  <2>3. f[k] \in Nat /\ f[k] # PTES + 2
    BY <1>4, <1>7, <2>1
  <2>4. Step(f[k]) # PTES + 2
    BY <2>3, NeverThere
  <2> QED
    BY <2>1, <2>2, <2>3, <2>4
<1>8. ASSUME n \in A PROVE f[n] # PTES + 2
  BY <1>8
<1> HIDE DEF A
<1>9. \A k \in 0 .. n : k \in A
  BY <1>2, <1>6, <1>7, UpTo
<1>10. n \in A /\ f[n] \in Nat
  BY <1>2, <1>4, <1>9
<1> QED
  BY <1>3, <1>4, <1>8, <1>10

-----------------------------------------------------------------------------
(* common_sbrk() *)

PagesFor(increment) == (increment + HEADER + PG_SIZE - 1) \div PG_SIZE

\* They have room for a header and what was asked for.
LEMMA RoomFor ==
  ASSUME NEW size \in Nat, size # 0
  PROVE  /\ PagesFor(size) \in Nat /\ PagesFor(size) # 0
         /\ PagesFor(size) * PG_SIZE - HEADER \in Nat
         /\ PagesFor(size) * PG_SIZE - HEADER >= size
<1>1. PICK x \in Nat, s \in Nat : x = size + HEADER /\ s = PG_SIZE
  BY Sizing
<1>2. s >= 1 /\ x > HEADER
  BY <1>1, Sizing
<1>3. ((x + s - 1) \div s) \in Nat /\ ((x + s - 1) \div s) * s >= x
  BY <1>2
<1>4. PagesFor(size) = (x + s - 1) \div s
  BY <1>1 DEF PagesFor
<1>5. PICK n \in Nat : n = PagesFor(size) /\ n * s >= x
  BY <1>3, <1>4
<1>6. n # 0
  BY <1>2, <1>5, Sizing
<1>7. n * s - HEADER \in Nat /\ n * s - HEADER >= size
  BY <1>1, <1>5, Sizing
<1>8. n * PG_SIZE = n * s
  BY <1>1
<1> QED
  BY <1>5, <1>6, <1>7, <1>8

\* The heap with the slab of n pages, its pages being pages.
Extended(h, pages, n) ==
  LET old == NextPage(h.pages) * PG_SIZE
      new == WithSlab(h, old, [used |-> FALSE, size |-> n * PG_SIZE - HEADER,
                               prev |-> SLAB_LAST(h), next |-> SLAB_FIRST])
  IN [new EXCEPT !.pages = pages, !.slab[SLAB_LAST(h)].next = old, !.slab[SLAB_FIRST].prev = old]

FinitePages == {q \in SUBSET Nat : IsFiniteSet(q)}

\* A page more keeps them finite.
LEMMA OneMore ==
  ASSUME NEW q \in FinitePages
  PROVE  q \cup {NextPage(q)} \in FinitePages /\ NextPage(q) # PTES + 2
<1>1. IsFiniteSet(q) /\ NextPage(q) \in Nat /\ NextPage(q) # PTES + 2
  BY NextNever DEF FinitePages
<1>2. IsFiniteSet(q \cup {NextPage(q)})
  BY <1>1, FS_AddElement
<1> QED
  BY <1>1, <1>2 DEF FinitePages

\* The pages after the loop, and that those of the heap without a gap lie side by side.
AddedPages(h, pages, n) ==
  /\ pages \in FinitePages
  /\ \A m \in Nat :
       UpToPage(h, m) /\ pages = KernelHeap .. KernelHeap + Cardinality(pages) - 1
       => m + n <= PTES + 2 /\ pages = KernelHeap .. m + n - 1

\* The loop of common_sbrk() maps such pages.
LEMMA SbrkPages ==
  ASSUME NEW h, h.pages \in FinitePages, NEW increment \in Nat, increment # 0
  PROVE  \E pages : /\ common_sbrk(h, increment) = Extended(h, pages, PagesFor(increment))
                    /\ AddedPages(h, pages, PagesFor(increment))
<1> DEFINE n   == PagesFor(increment)
           S   == FinitePages
           Turn(q) == q \cup {NextPage(q)}
           G   == [t \in (1 .. n) \X S |-> Turn(t[2])]
           p[j \in 0 .. n] == IF j = 0 THEN h.pages ELSE LET q == p[j - 1] IN q \cup {NextPage(q)}
<1>1. common_sbrk(h, increment) = Extended(h, p[n], n)
  BY DEF common_sbrk, Extended, PagesFor
<1> HIDE DEF p, G, S, Turn
<1>2. n \in Nat /\ n # 0
  BY RoomFor
<1> HIDE DEF n
<1> USE DEF p, G, S, Turn
<1>3. G \in [(1 .. n) \X S -> S]
  BY OneMore
<1>4. PICK f \in [0 .. n -> S] : Turns(n, h.pages, G, f)
  <2> HIDE DEF G, S
  <2>1. h.pages \in S
    BY DEF S
  <2> QED
    BY <1>2, <1>3, <2>1, LoopExists
<1>5. f = [j \in 0 .. n |-> IF j = 0 THEN h.pages ELSE Turn(f[j - 1])]
  <2>1. \A j \in 0 .. n : j # 0 => G[<<j, f[j - 1]>>] = Turn(f[j - 1])
    BY <1>2
  <2> HIDE DEF G
  <2>2. \A j \in 0 .. n : f[j] = IF j = 0 THEN h.pages ELSE Turn(f[j - 1])
    BY <1>4, <2>1 DEF Turns
  <2> HIDE DEF Turn
  <2> QED
    BY <2>2
<1>6. p = [j \in 0 .. n |-> IF j = 0 THEN h.pages ELSE Turn(p[j - 1])]
  BY <1>5 DEF p, Turn
<1> HIDE DEF p
<1>7. p[0] = h.pages /\ \A j \in 1 .. n : p[j] = Turn(p[j - 1])
  <2> HIDE DEF Turn
  <2> QED
    BY <1>2, <1>6
<1> DEFINE B == {j \in 0 .. n : p[j] \in S}
<1>8. ASSUME NEW j \in 0 .. n - 1, j \in B PROVE j + 1 \in B
  <2>1. j + 1 \in 1 .. n /\ j + 1 \in 0 .. n /\ (j + 1) - 1 = j /\ p[j] \in S
    BY <1>2, <1>8
  <2>2. p[j + 1] = p[j] \cup {NextPage(p[j])}
    BY <1>7, <2>1
  <2>3. p[j + 1] \in S
    BY <2>1, <2>2, OneMore
  <2> QED
    BY <2>1, <2>3
<1>9. 0 \in B
  BY <1>2, <1>7
<1> HIDE DEF B
<1>10. \A j \in 0 .. n : j \in B
  BY <1>2, <1>8, <1>9, UpTo
<1>11. \A j \in 0 .. n : p[j] \in S
  BY <1>10 DEF B
<1>12. ASSUME NEW m \in Nat, UpToPage(h, m),
              p[n] = KernelHeap .. KernelHeap + Cardinality(p[n]) - 1
       PROVE  m + n <= PTES + 2 /\ p[n] = KernelHeap .. m + n - 1
  <2>0. m \in KernelHeap + 1 .. PTES + 2 /\ h.pages = KernelHeap .. m - 1 /\ KernelHeap \in Nat
        /\ KernelHeap <= PTES - 1 /\ PTES \in Nat /\ PTES >= 3
    BY <1>12, Sizing DEF UpToPage
  <2> DEFINE Side(j)   == m + j <= PTES + 2 /\ p[j] = KernelHeap .. m + j - 1
             Gapped(j) == 2 * PTES \in p[j] /\ PTES + 2 \notin p[j]
             A == {j \in 0 .. n : Side(j) \/ Gapped(j)}
  <2>1. 0 \in A
    BY <1>2, <1>7, <2>0
  <2>2. ASSUME NEW j \in 0 .. n - 1, j \in A PROVE j + 1 \in A
    <3>1. j + 1 \in 1 .. n /\ j + 1 \in 0 .. n /\ (j + 1) - 1 = j /\ j \in 0 .. n /\ j \in Nat
      BY <1>2
    <3>2. p[j + 1] = p[j] \cup {NextPage(p[j])}
      BY <1>7, <3>1
    <3>3. NextPage(p[j]) # PTES + 2
      BY <1>11, <3>1, OneMore
    <3>4. CASE Side(j)
      <4>1. PICK k \in KernelHeap + 1 .. PTES + 2 : k = m + j
        BY <2>0, <3>1, <3>4
      <4>2. p[j] = KernelHeap .. k - 1
        BY <3>4, <4>1
      <4>3. NextPage(p[j]) = Behind(k)
        BY <4>2, NextOfPages
      <4>4. CASE k = PTES + 2
        <5>1. p[j + 1] = (KernelHeap .. k - 1) \cup {2 * PTES}
          BY <3>2, <4>2, <4>3, <4>4 DEF Behind
        <5>2. 2 * PTES \in p[j + 1] /\ PTES + 2 \notin p[j + 1]
          BY <2>0, <4>4, <5>1
        <5> QED
          BY <3>1, <5>2
      <4>5. CASE k # PTES + 2
        <5>1. p[j + 1] = (KernelHeap .. k - 1) \cup {k}
          BY <3>2, <4>2, <4>3, <4>5 DEF Behind
        <5>2. (KernelHeap .. k - 1) \cup {k} = KernelHeap .. k
          BY <2>0
        <5>3. m + (j + 1) <= PTES + 2 /\ m + (j + 1) - 1 = k
          BY <2>0, <3>1, <4>1, <4>5
        <5> QED
          BY <3>1, <5>1, <5>2, <5>3
      <4> QED
        BY <4>4, <4>5
    <3>5. CASE Gapped(j)
      BY <3>1, <3>2, <3>3, <3>5
    <3> QED
      BY <2>2, <3>4, <3>5
  <2> HIDE DEF A
  <2>3. \A j \in 0 .. n : j \in A
    BY <1>2, <2>1, <2>2, UpTo
  <2>4. Side(n) \/ Gapped(n)
    BY <1>2, <2>3 DEF A
  <2>5. ~ Gapped(n)
    <3>1. PICK c \in Nat : c = Cardinality(p[n])
      <4>1. p[n] \in S
        BY <1>2, <1>11
      <4> QED
        BY <4>1, FS_CardinalityType DEF FinitePages
    <3>2. p[n] = KernelHeap .. KernelHeap + c - 1
      BY <1>12, <3>1
    <3> QED
      BY <2>0, <3>2
  <2> QED
    BY <2>4, <2>5
<1>13. AddedPages(h, p[n], n)
  BY <1>2, <1>11, <1>12 DEF AddedPages
<1> QED
  BY <1>1, <1>13 DEF n

-----------------------------------------------------------------------------
(* The calls are made of assignments to the fields of slabs. *)

SetUsed(h, a, v) == [h EXCEPT !.slab[a].used = v]
SetSize(h, a, v) == [h EXCEPT !.slab[a].size = v]
SetPrev(h, a, v) == [h EXCEPT !.slab[a].prev = v]
SetNext(h, a, v) == [h EXCEPT !.slab[a].next = v]

\* The heaps h and g have their slabs at the same addresses.
SameSlabs(h, g) ==
  Shaped(g) /\ g.pages = h.pages /\ DOMAIN g.slab = DOMAIN h.slab

\* Each assignment changes one field of one slab.
LEMMA SetUsedFields ==
  ASSUME NEW h, Shaped(h), NEW a \in DOMAIN h.slab, NEW v \in BOOLEAN
  PROVE  /\ SameSlabs(h, SetUsed(h, a, v))
         /\ \A x \in DOMAIN h.slab :
              /\ SetUsed(h, a, v).slab[x].used = IF x = a THEN v ELSE h.slab[x].used
              /\ SetUsed(h, a, v).slab[x].size = h.slab[x].size
              /\ SetUsed(h, a, v).slab[x].prev = h.slab[x].prev
              /\ SetUsed(h, a, v).slab[x].next = h.slab[x].next
<1> DEFINE r == [h.slab[a] EXCEPT !.used = v]
           t == [h.slab EXCEPT ![a] = r]
<1>1. SetUsed(h, a, v) = [pages |-> h.pages, slab |-> t]
  BY DEF SetUsed, Shaped
<1>2. h.slab[a] \in Slabs /\ h.slab \in [DOMAIN h.slab -> Slabs]
  BY DEF Shaped
<1>3. /\ r \in Slabs /\ r.used = v
      /\ r.size = h.slab[a].size
      /\ r.prev = h.slab[a].prev
      /\ r.next = h.slab[a].next
  BY <1>2 DEF Slabs
<1> HIDE DEF r
<1>4. t \in [DOMAIN h.slab -> Slabs] /\ \A x \in DOMAIN h.slab : t[x] = IF x = a THEN r ELSE h.slab[x]
  BY <1>2, <1>3
<1> HIDE DEF t
<1>5. SetUsed(h, a, v).pages = h.pages /\ SetUsed(h, a, v).slab = t
  BY <1>1
<1>6. SameSlabs(h, SetUsed(h, a, v))
  BY <1>1, <1>4, <1>5 DEF SameSlabs, Shaped
<1> QED
  BY <1>3, <1>4, <1>5, <1>6

\* The same for the size.
LEMMA SetSizeFields ==
  ASSUME NEW h, Shaped(h), NEW a \in DOMAIN h.slab, NEW v \in Nat
  PROVE  /\ SameSlabs(h, SetSize(h, a, v))
         /\ \A x \in DOMAIN h.slab :
              /\ SetSize(h, a, v).slab[x].size = IF x = a THEN v ELSE h.slab[x].size
              /\ SetSize(h, a, v).slab[x].used = h.slab[x].used
              /\ SetSize(h, a, v).slab[x].prev = h.slab[x].prev
              /\ SetSize(h, a, v).slab[x].next = h.slab[x].next
<1> DEFINE r == [h.slab[a] EXCEPT !.size = v]
           t == [h.slab EXCEPT ![a] = r]
<1>1. SetSize(h, a, v) = [pages |-> h.pages, slab |-> t]
  BY DEF SetSize, Shaped
<1>2. h.slab[a] \in Slabs /\ h.slab \in [DOMAIN h.slab -> Slabs]
  BY DEF Shaped
<1>3. /\ r \in Slabs /\ r.size = v
      /\ r.used = h.slab[a].used
      /\ r.prev = h.slab[a].prev
      /\ r.next = h.slab[a].next
  BY <1>2 DEF Slabs
<1> HIDE DEF r
<1>4. t \in [DOMAIN h.slab -> Slabs] /\ \A x \in DOMAIN h.slab : t[x] = IF x = a THEN r ELSE h.slab[x]
  BY <1>2, <1>3
<1> HIDE DEF t
<1>5. SetSize(h, a, v).pages = h.pages /\ SetSize(h, a, v).slab = t
  BY <1>1
<1>6. SameSlabs(h, SetSize(h, a, v))
  BY <1>1, <1>4, <1>5 DEF SameSlabs, Shaped
<1> QED
  BY <1>3, <1>4, <1>5, <1>6

\* The same for the link back.
LEMMA SetPrevFields ==
  ASSUME NEW h, Shaped(h), NEW a \in DOMAIN h.slab, NEW v \in Nat
  PROVE  /\ SameSlabs(h, SetPrev(h, a, v))
         /\ \A x \in DOMAIN h.slab :
              /\ SetPrev(h, a, v).slab[x].prev = IF x = a THEN v ELSE h.slab[x].prev
              /\ SetPrev(h, a, v).slab[x].used = h.slab[x].used
              /\ SetPrev(h, a, v).slab[x].size = h.slab[x].size
              /\ SetPrev(h, a, v).slab[x].next = h.slab[x].next
<1> DEFINE r == [h.slab[a] EXCEPT !.prev = v]
           t == [h.slab EXCEPT ![a] = r]
<1>1. SetPrev(h, a, v) = [pages |-> h.pages, slab |-> t]
  BY DEF SetPrev, Shaped
<1>2. h.slab[a] \in Slabs /\ h.slab \in [DOMAIN h.slab -> Slabs]
  BY DEF Shaped
<1>3. /\ r \in Slabs /\ r.prev = v
      /\ r.used = h.slab[a].used
      /\ r.size = h.slab[a].size
      /\ r.next = h.slab[a].next
  BY <1>2 DEF Slabs
<1> HIDE DEF r
<1>4. t \in [DOMAIN h.slab -> Slabs] /\ \A x \in DOMAIN h.slab : t[x] = IF x = a THEN r ELSE h.slab[x]
  BY <1>2, <1>3
<1> HIDE DEF t
<1>5. SetPrev(h, a, v).pages = h.pages /\ SetPrev(h, a, v).slab = t
  BY <1>1
<1>6. SameSlabs(h, SetPrev(h, a, v))
  BY <1>1, <1>4, <1>5 DEF SameSlabs, Shaped
<1> QED
  BY <1>3, <1>4, <1>5, <1>6

\* The same for the link on.
LEMMA SetNextFields ==
  ASSUME NEW h, Shaped(h), NEW a \in DOMAIN h.slab, NEW v \in Nat
  PROVE  /\ SameSlabs(h, SetNext(h, a, v))
         /\ \A x \in DOMAIN h.slab :
              /\ SetNext(h, a, v).slab[x].next = IF x = a THEN v ELSE h.slab[x].next
              /\ SetNext(h, a, v).slab[x].used = h.slab[x].used
              /\ SetNext(h, a, v).slab[x].size = h.slab[x].size
              /\ SetNext(h, a, v).slab[x].prev = h.slab[x].prev
<1> DEFINE r == [h.slab[a] EXCEPT !.next = v]
           t == [h.slab EXCEPT ![a] = r]
<1>1. SetNext(h, a, v) = [pages |-> h.pages, slab |-> t]
  BY DEF SetNext, Shaped
<1>2. h.slab[a] \in Slabs /\ h.slab \in [DOMAIN h.slab -> Slabs]
  BY DEF Shaped
<1>3. /\ r \in Slabs /\ r.next = v
      /\ r.used = h.slab[a].used
      /\ r.size = h.slab[a].size
      /\ r.prev = h.slab[a].prev
  BY <1>2 DEF Slabs
<1> HIDE DEF r
<1>4. t \in [DOMAIN h.slab -> Slabs] /\ \A x \in DOMAIN h.slab : t[x] = IF x = a THEN r ELSE h.slab[x]
  BY <1>2, <1>3
<1> HIDE DEF t
<1>5. SetNext(h, a, v).pages = h.pages /\ SetNext(h, a, v).slab = t
  BY <1>1
<1>6. SameSlabs(h, SetNext(h, a, v))
  BY <1>1, <1>4, <1>5 DEF SameSlabs, Shaped
<1> QED
  BY <1>3, <1>4, <1>5, <1>6

\* A slab more.
LEMMA WithSlabFields ==
  ASSUME NEW h, Shaped(h), NEW a, NEW s \in Slabs
  PROVE  /\ Shaped(WithSlab(h, a, s)) /\ WithSlab(h, a, s).pages = h.pages
         /\ DOMAIN WithSlab(h, a, s).slab = DOMAIN h.slab \cup {a}
         /\ \A x \in DOMAIN h.slab \cup {a} :
              WithSlab(h, a, s).slab[x] = IF x = a THEN s ELSE h.slab[x]
<1> DEFINE t == [b \in DOMAIN h.slab \cup {a} |-> IF b = a THEN s ELSE h.slab[b]]
<1>1. WithSlab(h, a, s) = [pages |-> h.pages, slab |-> t]
  BY DEF WithSlab, Shaped
<1>2. h.slab \in [DOMAIN h.slab -> Slabs]
  BY DEF Shaped
<1>3. t \in [DOMAIN h.slab \cup {a} -> Slabs]
  BY <1>2
<1>4. DOMAIN t = DOMAIN h.slab \cup {a} /\ \A x \in DOMAIN h.slab \cup {a} : t[x] = IF x = a THEN s ELSE h.slab[x]
  OBVIOUS
<1> HIDE DEF t
<1>5. WithSlab(h, a, s).pages = h.pages /\ WithSlab(h, a, s).slab = t
  BY <1>1
<1> QED
  BY <1>1, <1>3, <1>4, <1>5 DEF Shaped

Without(h, b) == [h EXCEPT !.slab = [x \in DOMAIN @ \ {b} |-> @[x]]]

\* A slab less.
LEMMA WithoutFields ==
  ASSUME NEW h, Shaped(h), NEW b
  PROVE  /\ Shaped(Without(h, b)) /\ Without(h, b).pages = h.pages
         /\ DOMAIN Without(h, b).slab = DOMAIN h.slab \ {b}
         /\ \A x \in DOMAIN h.slab \ {b} : Without(h, b).slab[x] = h.slab[x]
<1> DEFINE t == [x \in DOMAIN h.slab \ {b} |-> h.slab[x]]
<1>1. Without(h, b) = [pages |-> h.pages, slab |-> t]
  BY DEF Without, Shaped
<1>2. h.slab \in [DOMAIN h.slab -> Slabs]
  BY DEF Shaped
<1>3. t \in [DOMAIN h.slab \ {b} -> Slabs]
  BY <1>2
<1>4. DOMAIN t = DOMAIN h.slab \ {b} /\ \A x \in DOMAIN h.slab \ {b} : t[x] = h.slab[x]
  OBVIOUS
<1> HIDE DEF t
<1>5. Without(h, b).pages = h.pages /\ Without(h, b).slab = t
  BY <1>1
<1> QED
  BY <1>1, <1>3, <1>4, <1>5 DEF Shaped

WithPages(h, pages) == [h EXCEPT !.pages = pages]

\* Other pages.
LEMMA WithPagesFields ==
  ASSUME NEW h, Shaped(h), NEW pages
  PROVE  /\ Shaped(WithPages(h, pages)) /\ WithPages(h, pages).pages = pages
         /\ WithPages(h, pages).slab = h.slab
<1>1. WithPages(h, pages) = [pages |-> pages, slab |-> h.slab]
  BY DEF WithPages, Shaped
<1> QED
  BY <1>1 DEF Shaped

\* split() as assignments to fields.
LEMMA SplitSteps ==
  ASSUME NEW h, NEW a, NEW size
  PROVE  LET b == a + HEADER + size
             c == h.slab[a].next
         IN split(h, a, size)
              = SetNext(SetPrev(SetSize(WithSlab(h, b,
                                          [used |-> FALSE, size |-> h.slab[a].size - (size + HEADER),
                                           prev |-> a, next |-> c]),
                                        a, size), c, b), a, b)
  BY Zenon DEF split, SetNext, SetPrev, SetSize

\* merge() as assignments to fields.
LEMMA MergeSteps ==
  ASSUME NEW h, NEW a
  PROVE  LET b == h.slab[a].next
             c == h.slab[b].next
         IN merge(h, a)
              = Without(SetPrev(SetNext(SetSize(h, a, h.slab[a].size + HEADER + h.slab[b].size), a, c),
                                c, a), b)
  BY Zenon DEF merge, Without, SetNext, SetPrev, SetSize

\* common_sbrk() as assignments to fields.
LEMMA ExtendedSteps ==
  ASSUME NEW h, NEW pages, NEW n
  PROVE  LET old  == NextPage(h.pages) * PG_SIZE
             last == h.slab[SLAB_FIRST].prev
         IN Extended(h, pages, n)
              = SetPrev(SetNext(WithPages(WithSlab(h, old,
                                            [used |-> FALSE, size |-> n * PG_SIZE - HEADER,
                                             prev |-> last, next |-> SLAB_FIRST]), pages),
                                last, old), SLAB_FIRST, old)
  BY Zenon DEF Extended, SLAB_LAST, WithPages, SetNext, SetPrev

-----------------------------------------------------------------------------
(* What split(), merge() and common_sbrk() do to the fields. *)

\* g is h with the slab at a split, the rest being at b.
SplitOf(h, g, a, b, size) ==
  /\ Shaped(g) /\ g.pages = h.pages /\ DOMAIN g.slab = DOMAIN h.slab \cup {b}
  /\ \A x \in DOMAIN h.slab \cup {b} :
       /\ g.slab[x].used = IF x = b THEN FALSE ELSE h.slab[x].used
       /\ g.slab[x].size = IF x = b THEN h.slab[a].size - (size + HEADER)
                            ELSE IF x = a THEN size ELSE h.slab[x].size
       /\ g.slab[x].prev = IF x = b THEN a ELSE IF x = h.slab[a].next THEN b ELSE h.slab[x].prev
       /\ g.slab[x].next = IF x = b THEN h.slab[a].next ELSE IF x = a THEN b ELSE h.slab[x].next

\* split() does so, when the address of the rest is not a slab's.
LEMMA SplitFields ==
  ASSUME NEW h, Shaped(h), DOMAIN h.slab \subseteq Nat, NEW a \in DOMAIN h.slab, NEW size \in Nat,
         h.slab[a].size >= size + HEADER, a + HEADER + size \notin DOMAIN h.slab,
         h.slab[a].next \in DOMAIN h.slab
  PROVE  SplitOf(h, split(h, a, size), a, a + HEADER + size, size)
<1> DEFINE b  == a + HEADER + size
           c  == h.slab[a].next
           s  == [used |-> FALSE, size |-> h.slab[a].size - (size + HEADER), prev |-> a, next |-> c]
           g1 == WithSlab(h, b, s)
           g2 == SetSize(g1, a, size)
           g3 == SetPrev(g2, c, b)
           g4 == SetNext(g3, a, b)
<1>1. split(h, a, size) = g4
  BY SplitSteps
<1>2. h.slab[a] \in Slabs /\ a \in Nat /\ b \in Nat /\ c \in Nat /\ c # b /\ a # b
  <2>1. h.slab[a] \in Slabs
    BY DEF Shaped
  <2> QED
    BY <2>1, Sizing DEF Slabs
<1>3. h.slab[a].size - (size + HEADER) \in Nat
  BY <1>2, Sizing DEF Slabs
<1>4. s \in Slabs
  BY <1>2, <1>3 DEF Slabs
<1>5. /\ Shaped(g1) /\ g1.pages = h.pages /\ DOMAIN g1.slab = DOMAIN h.slab \cup {b}
      /\ \A x \in DOMAIN h.slab \cup {b} : g1.slab[x] = IF x = b THEN s ELSE h.slab[x]
  <2> HIDE DEF s
  <2> QED
    BY <1>4, WithSlabFields
<1>6. /\ s.used = FALSE /\ s.size = h.slab[a].size - (size + HEADER) /\ s.prev = a /\ s.next = c
      /\ a \in DOMAIN h.slab \cup {b} /\ c \in DOMAIN h.slab \cup {b}
  OBVIOUS
<1> HIDE DEF s, g1
<1>7. /\ SameSlabs(g1, g2)
      /\ \A x \in DOMAIN g1.slab :
           /\ g2.slab[x].size = IF x = a THEN size ELSE g1.slab[x].size
           /\ g2.slab[x].used = g1.slab[x].used
           /\ g2.slab[x].prev = g1.slab[x].prev
           /\ g2.slab[x].next = g1.slab[x].next
  BY <1>5, <1>6, SetSizeFields
<1> HIDE DEF g2
<1>8. /\ SameSlabs(g2, g3)
      /\ \A x \in DOMAIN g2.slab :
           /\ g3.slab[x].prev = IF x = c THEN b ELSE g2.slab[x].prev
           /\ g3.slab[x].used = g2.slab[x].used
           /\ g3.slab[x].size = g2.slab[x].size
           /\ g3.slab[x].next = g2.slab[x].next
  <2>1. Shaped(g2) /\ c \in DOMAIN g2.slab
    BY <1>5, <1>6, <1>7 DEF SameSlabs
  <2> QED
    BY <1>2, <2>1, SetPrevFields
<1> HIDE DEF g3
<1>9. /\ SameSlabs(g3, g4)
      /\ \A x \in DOMAIN g3.slab :
           /\ g4.slab[x].next = IF x = a THEN b ELSE g3.slab[x].next
           /\ g4.slab[x].used = g3.slab[x].used
           /\ g4.slab[x].size = g3.slab[x].size
           /\ g4.slab[x].prev = g3.slab[x].prev
  <2>1. Shaped(g3) /\ a \in DOMAIN g3.slab
    BY <1>5, <1>6, <1>7, <1>8 DEF SameSlabs
  <2> QED
    BY <1>2, <2>1, SetNextFields
<1> HIDE DEF g4
<1>10. /\ Shaped(g4) /\ g4.pages = h.pages
       /\ DOMAIN g4.slab = DOMAIN h.slab \cup {b} /\ DOMAIN g3.slab = DOMAIN h.slab \cup {b}
       /\ DOMAIN g2.slab = DOMAIN h.slab \cup {b}
  BY <1>5, <1>7, <1>8, <1>9 DEF SameSlabs
<1> HIDE DEF b, c
<1>11. ASSUME NEW x \in DOMAIN h.slab \cup {b}
       PROVE  /\ g4.slab[x].used = IF x = b THEN FALSE ELSE h.slab[x].used
              /\ g4.slab[x].size = IF x = b THEN h.slab[a].size - (size + HEADER)
                                    ELSE IF x = a THEN size ELSE h.slab[x].size
              /\ g4.slab[x].prev = IF x = b THEN a ELSE IF x = c THEN b ELSE h.slab[x].prev
              /\ g4.slab[x].next = IF x = b THEN c ELSE IF x = a THEN b ELSE h.slab[x].next
  <2>1. g4.slab[x].used = g1.slab[x].used
    BY <1>5, <1>7, <1>8, <1>9, <1>10
  <2>2. g4.slab[x].size = IF x = a THEN size ELSE g1.slab[x].size
    BY <1>5, <1>7, <1>8, <1>9, <1>10
  <2>3. g4.slab[x].prev = IF x = c THEN b ELSE g1.slab[x].prev
    BY <1>5, <1>7, <1>8, <1>9, <1>10
  <2>4. g4.slab[x].next = IF x = a THEN b ELSE g1.slab[x].next
    BY <1>5, <1>7, <1>8, <1>9, <1>10
  <2>5. g1.slab[x] = IF x = b THEN s ELSE h.slab[x]
    BY <1>5
  <2> QED
    BY <1>2, <1>6, <2>1, <2>2, <2>3, <2>4, <2>5
<1>12. SplitOf(h, g4, a, b, size)
  BY <1>10, <1>11 DEF SplitOf, c
<1> QED
  BY <1>1, <1>12 DEF b

\* g is h with the slab at a and the next, at b, made one.
MergeOf(h, g, a, b) ==
  /\ Shaped(g) /\ g.pages = h.pages /\ DOMAIN g.slab = DOMAIN h.slab \ {b}
  /\ \A x \in DOMAIN h.slab \ {b} :
       /\ g.slab[x].used = h.slab[x].used
       /\ g.slab[x].size = IF x = a THEN h.slab[a].size + HEADER + h.slab[b].size ELSE h.slab[x].size
       /\ g.slab[x].prev = IF x = h.slab[b].next THEN a ELSE h.slab[x].prev
       /\ g.slab[x].next = IF x = a THEN h.slab[b].next ELSE h.slab[x].next

\* merge() does so.
LEMMA MergeFields ==
  ASSUME NEW h, Shaped(h), DOMAIN h.slab \subseteq Nat, NEW a \in DOMAIN h.slab,
         h.slab[a].next \in DOMAIN h.slab, h.slab[h.slab[a].next].next \in DOMAIN h.slab
  PROVE  MergeOf(h, merge(h, a), a, h.slab[a].next)
<1> DEFINE b  == h.slab[a].next
           c  == h.slab[b].next
           n  == h.slab[a].size + HEADER + h.slab[b].size
           g1 == SetSize(h, a, n)
           g2 == SetNext(g1, a, c)
           g3 == SetPrev(g2, c, a)
           g4 == Without(g3, b)
<1>1. merge(h, a) = g4
  BY MergeSteps
<1>2. /\ h.slab[a] \in Slabs /\ h.slab[b] \in Slabs
      /\ a \in Nat /\ c \in Nat /\ c \in DOMAIN h.slab /\ b \in DOMAIN h.slab
  BY DEF Shaped
<1>3. n \in Nat
  BY <1>2, Sizing DEF Slabs
<1> HIDE DEF n, c, b
<1>4. /\ SameSlabs(h, g1)
      /\ \A x \in DOMAIN h.slab :
           /\ g1.slab[x].size = IF x = a THEN n ELSE h.slab[x].size
           /\ g1.slab[x].used = h.slab[x].used
           /\ g1.slab[x].prev = h.slab[x].prev
           /\ g1.slab[x].next = h.slab[x].next
  BY <1>3, SetSizeFields
<1> HIDE DEF g1
<1>5. /\ SameSlabs(g1, g2)
      /\ \A x \in DOMAIN g1.slab :
           /\ g2.slab[x].next = IF x = a THEN c ELSE g1.slab[x].next
           /\ g2.slab[x].used = g1.slab[x].used
           /\ g2.slab[x].size = g1.slab[x].size
           /\ g2.slab[x].prev = g1.slab[x].prev
  <2>1. Shaped(g1) /\ a \in DOMAIN g1.slab
    BY <1>4 DEF SameSlabs
  <2> QED
    BY <1>2, <2>1, SetNextFields
<1> HIDE DEF g2
<1>6. /\ SameSlabs(g2, g3)
      /\ \A x \in DOMAIN g2.slab :
           /\ g3.slab[x].prev = IF x = c THEN a ELSE g2.slab[x].prev
           /\ g3.slab[x].used = g2.slab[x].used
           /\ g3.slab[x].size = g2.slab[x].size
           /\ g3.slab[x].next = g2.slab[x].next
  <2>1. Shaped(g2) /\ c \in DOMAIN g2.slab
    BY <1>2, <1>4, <1>5 DEF SameSlabs
  <2> QED
    BY <1>2, <2>1, SetPrevFields
<1> HIDE DEF g3
<1>7. /\ Shaped(g4) /\ g4.pages = g3.pages /\ DOMAIN g4.slab = DOMAIN g3.slab \ {b}
      /\ \A x \in DOMAIN g3.slab \ {b} : g4.slab[x] = g3.slab[x]
  BY <1>6, WithoutFields DEF SameSlabs
<1> HIDE DEF g4
<1>8. /\ g4.pages = h.pages /\ DOMAIN g4.slab = DOMAIN h.slab \ {b}
      /\ DOMAIN g3.slab = DOMAIN h.slab /\ DOMAIN g2.slab = DOMAIN h.slab
      /\ DOMAIN g1.slab = DOMAIN h.slab
  BY <1>4, <1>5, <1>6, <1>7 DEF SameSlabs
<1>9. ASSUME NEW x \in DOMAIN h.slab \ {b}
      PROVE  /\ g4.slab[x].used = h.slab[x].used
             /\ g4.slab[x].size = IF x = a THEN n ELSE h.slab[x].size
             /\ g4.slab[x].prev = IF x = c THEN a ELSE h.slab[x].prev
             /\ g4.slab[x].next = IF x = a THEN c ELSE h.slab[x].next
  <2>1. g4.slab[x] = g3.slab[x] /\ x \in DOMAIN h.slab
    BY <1>7, <1>8
  <2> QED
    BY <1>4, <1>5, <1>6, <1>8, <2>1
<1>10. MergeOf(h, g4, a, b)
  BY <1>7, <1>8, <1>9 DEF MergeOf, c, n
<1> QED
  BY <1>1, <1>10 DEF b

\* g is h with the slab of size at old behind the last, and its pages being pages.
ExtendOf(h, g, old, size, pages) ==
  /\ Shaped(g) /\ g.pages = pages /\ DOMAIN g.slab = DOMAIN h.slab \cup {old}
  /\ \A x \in DOMAIN h.slab \cup {old} :
       /\ g.slab[x].used = IF x = old THEN FALSE ELSE h.slab[x].used
       /\ g.slab[x].size = IF x = old THEN size ELSE h.slab[x].size
       /\ old \notin DOMAIN h.slab =>
            /\ g.slab[x].prev = IF x = SLAB_FIRST THEN old ELSE IF x = old THEN SLAB_LAST(h)
                                 ELSE h.slab[x].prev
            /\ g.slab[x].next = IF x = SLAB_LAST(h) THEN old ELSE IF x = old THEN SLAB_FIRST
                                 ELSE h.slab[x].next

\* common_sbrk() does so.
LEMMA ExtendFields ==
  ASSUME NEW h, Shaped(h), DOMAIN h.slab \subseteq Nat, SLAB_FIRST \in DOMAIN h.slab,
         SLAB_LAST(h) \in DOMAIN h.slab, NextPage(h.pages) \in Nat, NEW pages, NEW n \in Nat,
         n * PG_SIZE - HEADER \in Nat
  PROVE  ExtendOf(h, Extended(h, pages, n), NextPage(h.pages) * PG_SIZE, n * PG_SIZE - HEADER, pages)
<1> DEFINE old  == NextPage(h.pages) * PG_SIZE
           last == h.slab[SLAB_FIRST].prev
           size == n * PG_SIZE - HEADER
           s  == [used |-> FALSE, size |-> size, prev |-> last, next |-> SLAB_FIRST]
           g1 == WithSlab(h, old, s)
           g2 == WithPages(g1, pages)
           g3 == SetNext(g2, last, old)
           g4 == SetPrev(g3, SLAB_FIRST, old)
<1>1. Extended(h, pages, n) = g4
  BY ExtendedSteps
<1>2. size \in Nat /\ old \in Nat /\ last \in Nat /\ last \in DOMAIN h.slab /\ SLAB_FIRST \in Nat
  BY Sizing DEF SLAB_LAST
<1> HIDE DEF size, old, last
<1>3. s \in Slabs
  BY <1>2 DEF Slabs
<1>4. s.used = FALSE /\ s.size = size /\ s.prev = last /\ s.next = SLAB_FIRST
  OBVIOUS
<1> HIDE DEF s
<1>5. /\ Shaped(g1) /\ g1.pages = h.pages /\ DOMAIN g1.slab = DOMAIN h.slab \cup {old}
      /\ \A x \in DOMAIN h.slab \cup {old} : g1.slab[x] = IF x = old THEN s ELSE h.slab[x]
  BY <1>3, WithSlabFields
<1> HIDE DEF g1
<1>6. Shaped(g2) /\ g2.pages = pages /\ g2.slab = g1.slab
  BY <1>5, WithPagesFields
<1> HIDE DEF g2
<1>7. /\ SameSlabs(g2, g3)
      /\ \A x \in DOMAIN g2.slab :
           /\ g3.slab[x].next = IF x = last THEN old ELSE g2.slab[x].next
           /\ g3.slab[x].used = g2.slab[x].used
           /\ g3.slab[x].size = g2.slab[x].size
           /\ g3.slab[x].prev = g2.slab[x].prev
  BY <1>2, <1>5, <1>6, SetNextFields
<1> HIDE DEF g3
<1>8. /\ SameSlabs(g3, g4)
      /\ \A x \in DOMAIN g3.slab :
           /\ g4.slab[x].prev = IF x = SLAB_FIRST THEN old ELSE g3.slab[x].prev
           /\ g4.slab[x].used = g3.slab[x].used
           /\ g4.slab[x].size = g3.slab[x].size
           /\ g4.slab[x].next = g3.slab[x].next
  <2>1. Shaped(g3) /\ SLAB_FIRST \in DOMAIN g3.slab
    BY <1>5, <1>6, <1>7 DEF SameSlabs
  <2> QED
    BY <1>2, <2>1, SetPrevFields
<1> HIDE DEF g4
<1>9. /\ Shaped(g4) /\ g4.pages = pages
      /\ DOMAIN g4.slab = DOMAIN h.slab \cup {old} /\ DOMAIN g3.slab = DOMAIN h.slab \cup {old}
      /\ DOMAIN g2.slab = DOMAIN h.slab \cup {old}
  BY <1>5, <1>6, <1>7, <1>8 DEF SameSlabs
<1>10. ASSUME NEW x \in DOMAIN h.slab \cup {old}
       PROVE  /\ g4.slab[x].used = IF x = old THEN FALSE ELSE h.slab[x].used
              /\ g4.slab[x].size = IF x = old THEN size ELSE h.slab[x].size
              /\ old \notin DOMAIN h.slab =>
                   /\ g4.slab[x].prev = IF x = SLAB_FIRST THEN old ELSE IF x = old THEN last
                                         ELSE h.slab[x].prev
                   /\ g4.slab[x].next = IF x = last THEN old ELSE IF x = old THEN SLAB_FIRST
                                         ELSE h.slab[x].next
  <2>1. g4.slab[x].used = g1.slab[x].used /\ g4.slab[x].size = g1.slab[x].size
    BY <1>6, <1>7, <1>8, <1>9
  <2>2. g4.slab[x].prev = IF x = SLAB_FIRST THEN old ELSE g1.slab[x].prev
    BY <1>6, <1>7, <1>8, <1>9
  <2>3. g4.slab[x].next = IF x = last THEN old ELSE g1.slab[x].next
    BY <1>6, <1>7, <1>8, <1>9
  <2>4. g1.slab[x] = IF x = old THEN s ELSE h.slab[x]
    BY <1>5
  <2> QED
    BY <1>2, <1>4, <2>1, <2>2, <2>3, <2>4
<1>11. last = SLAB_LAST(h)
  BY DEF last, SLAB_LAST
<1>12. ExtendOf(h, g4, old, size, pages)
  BY <1>9, <1>10, <1>11 DEF ExtendOf
<1> QED
  BY <1>1, <1>12 DEF old, size

-----------------------------------------------------------------------------
(* They keep the ring. *)

\* A slab has its numbers, and the one behind it or the top where it ends.
LEMMA InRing ==
  ASSUME NEW h, NEW top \in Nat, Ring(h, top), NEW a \in DOMAIN h.slab
  PROVE  /\ a \in Nat /\ SLAB_FIRST <= a /\ SLAB_FIRST \in Nat
         /\ h.slab[a].used \in BOOLEAN /\ h.slab[a].size \in Nat
         /\ h.slab[a].next \in DOMAIN h.slab /\ h.slab[a].prev \in DOMAIN h.slab
         /\ h.slab[a].next \in Nat /\ h.slab[a].prev \in Nat
         /\ h.slab[h.slab[a].next].prev = a /\ h.slab[h.slab[a].prev].next = a
         /\ EndOf(h, a) \in Nat /\ a < EndOf(h, a) /\ EndOf(h, a) <= top
         /\ EndOf(h, a) = a + HEADER + h.slab[a].size
         /\ h.slab[a].next = IF EndOf(h, a) = top THEN SLAB_FIRST ELSE EndOf(h, a)
<1>1. h.slab \in [DOMAIN h.slab -> Slabs] /\ DOMAIN h.slab \subseteq Nat
  BY DEF Ring, Shaped
<1>2. h.slab[a] \in Slabs
  BY <1>1
<1>3. h.slab[a].used \in BOOLEAN /\ h.slab[a].size \in Nat
  BY <1>2 DEF Slabs
<1>4. EndOf(h, a) \in Nat /\ a < EndOf(h, a)
  BY <1>1, <1>3, Sizing DEF EndOf
<1>5. /\ SLAB_FIRST <= a
      /\ h.slab[a].next \in DOMAIN h.slab /\ h.slab[h.slab[a].next].prev = a
      /\ h.slab[a].prev \in DOMAIN h.slab /\ h.slab[h.slab[a].prev].next = a
      /\ EndOf(h, a) <= top
      /\ h.slab[a].next = IF EndOf(h, a) = top THEN SLAB_FIRST ELSE EndOf(h, a)
  BY DEF Ring
<1> QED
  BY <1>1, <1>3, <1>4, <1>5, Sizing DEF EndOf

\* The rest of a slab is no slab yet.
LEMMA NewWithin ==
  ASSUME NEW h, NEW top \in Nat, Ring(h, top), NEW a \in DOMAIN h.slab, NEW size \in Nat,
         h.slab[a].size > size + HEADER
  PROVE  /\ a + HEADER + size \notin DOMAIN h.slab /\ a + HEADER + size \in Nat
         /\ a < a + HEADER + size /\ a + HEADER + size < EndOf(h, a)
<1>1. /\ a \in Nat /\ h.slab[a].size \in Nat /\ EndOf(h, a) = a + HEADER + h.slab[a].size
  BY InRing
<1>2. /\ a + HEADER + size \in Nat /\ a < a + HEADER + size
      /\ a + HEADER + size < EndOf(h, a)
  BY <1>1, Sizing
<1>3. \A b \in DOMAIN h.slab : a < b => b \in Nat /\ EndOf(h, a) <= b
  BY InRing DEF Ring
<1>4. EndOf(h, a) \in Nat
  BY InRing
<1> QED
  BY <1>2, <1>3, <1>4

\* Splitting a slab keeps the ring.
LEMMA SplitRing ==
  ASSUME NEW h, NEW top \in Nat, Ring(h, top), NEW g, NEW a \in DOMAIN h.slab, NEW size \in Nat,
         NEW b \in Nat, SplitOf(h, g, a, b, size), b = a + HEADER + size,
         h.slab[a].size > size + HEADER
  PROVE  Ring(g, top)
<1> DEFINE D == DOMAIN h.slab
           c == h.slab[a].next
<1>1. b \notin D /\ a < b /\ b < EndOf(h, a)
  BY NewWithin
<1>2. /\ Shaped(g) /\ DOMAIN g.slab = D \cup {b}
      /\ \A x \in D \cup {b} :
           /\ g.slab[x].size = IF x = b THEN h.slab[a].size - (size + HEADER)
                                ELSE IF x = a THEN size ELSE h.slab[x].size
           /\ g.slab[x].prev = IF x = b THEN a ELSE IF x = c THEN b ELSE h.slab[x].prev
           /\ g.slab[x].next = IF x = b THEN c ELSE IF x = a THEN b ELSE h.slab[x].next
  BY DEF SplitOf
<1>3. \A x \in D :
        /\ x \in Nat /\ SLAB_FIRST <= x /\ SLAB_FIRST \in Nat
        /\ h.slab[x].size \in Nat
        /\ h.slab[x].next \in D /\ h.slab[x].prev \in D
        /\ h.slab[h.slab[x].next].prev = x /\ h.slab[h.slab[x].prev].next = x
        /\ EndOf(h, x) \in Nat /\ x < EndOf(h, x) /\ EndOf(h, x) <= top
        /\ EndOf(h, x) = x + HEADER + h.slab[x].size
        /\ h.slab[x].next = IF EndOf(h, x) = top THEN SLAB_FIRST ELSE EndOf(h, x)
  BY InRing
<1>a. /\ a \in Nat /\ SLAB_FIRST <= a /\ SLAB_FIRST \in Nat
      /\ h.slab[a].size \in Nat /\ EndOf(h, a) \in Nat /\ a < EndOf(h, a) /\ EndOf(h, a) <= top
      /\ EndOf(h, a) = a + HEADER + h.slab[a].size
      /\ h.slab[a].next = IF EndOf(h, a) = top THEN SLAB_FIRST ELSE EndOf(h, a)
  BY InRing
<1>4. \A x, y \in D : x < y => EndOf(h, x) <= y
  BY DEF Ring
<1>5. SLAB_FIRST \in D /\ c \in D /\ c # b /\ a # b /\ h.slab[c].prev = a
  <2>1. c \in D /\ h.slab[c].prev = a
    BY <1>3
  <2>2. SLAB_FIRST \in D
    BY DEF Ring
  <2> QED
    BY <1>1, <2>1, <2>2
<1>6. ASSUME NEW x \in D \cup {b}
      PROVE  EndOf(g, x) = IF x = b THEN EndOf(h, a) ELSE IF x = a THEN b ELSE EndOf(h, x)
  <2>1. EndOf(g, x) = x + HEADER + g.slab[x].size
    BY DEF EndOf
  <2>2. CASE x = b
    <3>1. g.slab[x].size = h.slab[a].size - (size + HEADER)
      BY <1>2, <2>2
    <3> QED
      BY <1>a, <2>1, <2>2, <3>1, Sizing
  <2>3. CASE x = a
    BY <1>2, <1>5, <2>1, <2>3
  <2>4. CASE x # a /\ x # b
    BY <1>2, <1>3, <2>1, <2>4
  <2> QED
    BY <2>2, <2>3, <2>4
<1>7. ASSUME NEW x \in D \cup {b}
      PROVE  /\ x \in Nat /\ SLAB_FIRST <= x
             /\ g.slab[x].next \in D \cup {b} /\ g.slab[g.slab[x].next].prev = x
             /\ g.slab[x].prev \in D \cup {b} /\ g.slab[g.slab[x].prev].next = x
             /\ EndOf(g, x) <= top
             /\ g.slab[x].next = IF EndOf(g, x) = top THEN SLAB_FIRST ELSE EndOf(g, x)
  <2>1. x \in Nat /\ SLAB_FIRST <= x
    <3>1. CASE x = b
      BY <1>1, <1>a, <3>1
    <3>2. CASE x # b
      BY <1>3, <3>2
    <3> QED
      BY <3>1, <3>2
  <2>2. g.slab[x].next \in D \cup {b} /\ g.slab[g.slab[x].next].prev = x
    <3>1. CASE x = b
      BY <1>2, <1>5, <3>1
    <3>2. CASE x = a
      BY <1>2, <1>5, <3>2
    <3>3. CASE x \in D /\ x # a
      <4>1. g.slab[x].next = h.slab[x].next /\ h.slab[x].next \in D /\ h.slab[h.slab[x].next].prev = x
        BY <1>1, <1>2, <1>3, <3>3
      <4>2. h.slab[x].next # c /\ h.slab[x].next # b
        BY <1>1, <1>5, <4>1, <3>3
      <4> QED
        BY <1>2, <4>1, <4>2
    <3> QED
      BY <3>1, <3>2, <3>3
  <2>3. g.slab[x].prev \in D \cup {b} /\ g.slab[g.slab[x].prev].next = x
    <3>1. CASE x = b
      BY <1>2, <1>5, <3>1
    <3>2. CASE x = c
      BY <1>2, <1>5, <3>2
    <3>3. CASE x \in D /\ x # c
      <4>1. g.slab[x].prev = h.slab[x].prev /\ h.slab[x].prev \in D /\ h.slab[h.slab[x].prev].next = x
        BY <1>1, <1>2, <1>3, <3>3
      <4>2. h.slab[x].prev # a /\ h.slab[x].prev # b
        BY <1>1, <4>1, <3>3
      <4> QED
        BY <1>2, <4>1, <4>2
    <3> QED
      BY <3>1, <3>2, <3>3
  <2>4. EndOf(g, x) <= top
    <3>1. EndOf(h, a) <= top /\ b <= top
      BY <1>1, <1>a
    <3>2. x # b => EndOf(h, x) <= top
      BY <1>3
    <3> QED
      BY <1>6, <3>1, <3>2
  <2>5. g.slab[x].next = IF EndOf(g, x) = top THEN SLAB_FIRST ELSE EndOf(g, x)
    <3>1. CASE x = b
      <4>1. g.slab[x].next = c /\ EndOf(g, x) = EndOf(h, a)
        BY <1>2, <1>6, <3>1
      <4> QED
        BY <1>a, <4>1
    <3>2. CASE x = a
      <4>1. EndOf(g, x) = b /\ g.slab[x].next = b /\ b # top
        BY <1>1, <1>2, <1>5, <1>6, <1>a, <3>2
      <4> QED
        BY <4>1
    <3>3. CASE x \in D /\ x # a
      <4>1. g.slab[x].next = h.slab[x].next /\ EndOf(g, x) = EndOf(h, x)
        BY <1>1, <1>2, <1>6, <3>3
      <4> QED
        BY <1>3, <3>3, <4>1
    <3> QED
      BY <3>1, <3>2, <3>3
  <2> QED
    BY <2>1, <2>2, <2>3, <2>4, <2>5
<1>8. ASSUME NEW x \in D \cup {b}, NEW y \in D \cup {b}, x < y PROVE EndOf(g, x) <= y
  <2>1. x \in Nat /\ y \in Nat
    BY <1>7
  <2>2. CASE x = b
    <3>1. y \in D /\ a < y
      BY <1>1, <1>a, <1>8, <2>1, <2>2
    <3> QED
      BY <1>4, <1>6, <2>2, <3>1
  <2>3. CASE x = a /\ y \in D
    <3>1. EndOf(h, a) <= y /\ EndOf(g, x) = b
      BY <1>1, <1>4, <1>5, <1>6, <1>8, <2>3
    <3> QED
      BY <1>1, <1>a, <2>1, <3>1
  <2>4. CASE x = a /\ y = b
    BY <1>1, <1>6, <2>1, <2>4
  <2>5. CASE x \in D /\ x # a /\ y = b
    <3>1. x < a
      <4>1. x < b
        BY <1>8, <2>5
      <4>2. a < x => EndOf(h, a) <= x
        BY <1>4, <2>5
      <4> QED
        BY <1>1, <1>a, <2>1, <2>5, <4>1, <4>2
    <3>2. EndOf(h, x) <= a
      BY <1>4, <2>5, <3>1
    <3> QED
      <4>1. EndOf(g, x) = EndOf(h, x) /\ EndOf(h, x) \in Nat
        BY <1>1, <1>3, <1>6, <2>5
      <4> QED
        BY <1>1, <1>a, <2>1, <2>5, <3>2, <4>1
  <2>6. CASE x \in D /\ x # a /\ y \in D
    BY <1>1, <1>4, <1>6, <1>8, <2>6
  <2> QED
    BY <2>2, <2>3, <2>4, <2>5, <2>6
<1> HIDE DEF D
<1> QED
  BY <1>2, <1>5, <1>7, <1>8 DEF Ring

\* Merging a slab with the next keeps the ring, unless that is the first.
LEMMA MergeRing ==
  ASSUME NEW h, NEW top \in Nat, Ring(h, top), NEW g, NEW a \in DOMAIN h.slab, NEW b \in DOMAIN h.slab,
         h.slab[a].next = b, b # SLAB_FIRST, MergeOf(h, g, a, b)
  PROVE  Ring(g, top)
<1> DEFINE D == DOMAIN h.slab
           c == h.slab[b].next
<1>2. /\ Shaped(g) /\ DOMAIN g.slab = D \ {b}
      /\ \A x \in D \ {b} :
           /\ g.slab[x].size = IF x = a THEN h.slab[a].size + HEADER + h.slab[b].size ELSE h.slab[x].size
           /\ g.slab[x].prev = IF x = c THEN a ELSE h.slab[x].prev
           /\ g.slab[x].next = IF x = a THEN c ELSE h.slab[x].next
  BY DEF MergeOf
<1>3. \A x \in D :
        /\ x \in Nat /\ SLAB_FIRST <= x /\ SLAB_FIRST \in Nat
        /\ h.slab[x].size \in Nat
        /\ h.slab[x].next \in D /\ h.slab[x].prev \in D
        /\ h.slab[h.slab[x].next].prev = x /\ h.slab[h.slab[x].prev].next = x
        /\ EndOf(h, x) \in Nat /\ x < EndOf(h, x) /\ EndOf(h, x) <= top
        /\ EndOf(h, x) = x + HEADER + h.slab[x].size
        /\ h.slab[x].next = IF EndOf(h, x) = top THEN SLAB_FIRST ELSE EndOf(h, x)
  BY InRing
<1>a. /\ a \in Nat /\ SLAB_FIRST <= a /\ SLAB_FIRST \in Nat
      /\ h.slab[a].size \in Nat /\ EndOf(h, a) \in Nat /\ a < EndOf(h, a) /\ EndOf(h, a) <= top
      /\ EndOf(h, a) = a + HEADER + h.slab[a].size
      /\ h.slab[a].next = IF EndOf(h, a) = top THEN SLAB_FIRST ELSE EndOf(h, a)
  BY <1>3
<1>b. /\ b \in Nat /\ SLAB_FIRST <= b /\ SLAB_FIRST \in Nat
      /\ h.slab[b].size \in Nat /\ EndOf(h, b) \in Nat /\ b < EndOf(h, b) /\ EndOf(h, b) <= top
      /\ EndOf(h, b) = b + HEADER + h.slab[b].size
      /\ h.slab[b].next = IF EndOf(h, b) = top THEN SLAB_FIRST ELSE EndOf(h, b)
  BY <1>3
<1>4. \A x, y \in D : x < y => EndOf(h, x) <= y
  BY DEF Ring
<1>5. SLAB_FIRST \in D /\ c \in D /\ h.slab[c].prev = b /\ h.slab[b].prev = a
  BY <1>3 DEF Ring
<1>1. EndOf(h, a) = b /\ EndOf(h, a) # top /\ a < b
  BY <1>a
<1>9. c # b /\ a # b
  BY <1>1, <1>a, <1>b
<1>6. ASSUME NEW x \in D \ {b}
      PROVE  EndOf(g, x) = IF x = a THEN EndOf(h, b) ELSE EndOf(h, x)
  <2>1. EndOf(g, x) = x + HEADER + g.slab[x].size
    BY DEF EndOf
  <2>2. CASE x = a
    <3>1. g.slab[x].size = h.slab[a].size + HEADER + h.slab[b].size
      BY <1>2, <2>2
    <3> QED
      <4>1. EndOf(g, x) = a + HEADER + (h.slab[a].size + HEADER + h.slab[b].size)
        BY <2>1, <2>2, <3>1
      <4>2. HEADER \in Nat
        BY Sizing
      <4>3. /\ a \in Nat /\ h.slab[a].size \in Nat /\ b \in Nat /\ h.slab[b].size \in Nat
            /\ b = a + HEADER + h.slab[a].size /\ EndOf(h, b) = b + HEADER + h.slab[b].size
        BY <1>1, <1>a, <1>b
      <4>4. ASSUME NEW p \in Nat, NEW q \in Nat, NEW r \in Nat, NEW k \in Nat, q = p + k + r, NEW t \in Nat
            PROVE  p + k + (r + k + t) = q + k + t
        BY <4>4
      <4> QED
        BY <2>2, <4>1, <4>2, <4>3, <4>4
  <2>3. CASE x # a
    BY <1>2, <1>3, <2>1, <2>3
  <2> QED
    BY <2>2, <2>3
<1>7. ASSUME NEW x \in D \ {b}
      PROVE  /\ x \in Nat /\ SLAB_FIRST <= x
             /\ g.slab[x].next \in D \ {b} /\ g.slab[g.slab[x].next].prev = x
             /\ g.slab[x].prev \in D \ {b} /\ g.slab[g.slab[x].prev].next = x
             /\ EndOf(g, x) <= top
             /\ g.slab[x].next = IF EndOf(g, x) = top THEN SLAB_FIRST ELSE EndOf(g, x)
  <2>1. x \in Nat /\ SLAB_FIRST <= x
    BY <1>3
  <2>2. g.slab[x].next \in D \ {b} /\ g.slab[g.slab[x].next].prev = x
    <3>1. CASE x = a
      BY <1>2, <1>5, <1>9, <3>1
    <3>2. CASE x # a
      <4>1. g.slab[x].next = h.slab[x].next /\ h.slab[x].next \in D /\ h.slab[h.slab[x].next].prev = x
        BY <1>2, <1>3, <3>2
      <4>2. h.slab[x].next # c /\ h.slab[x].next # b
        BY <1>5, <4>1, <3>2
      <4> QED
        BY <1>2, <4>1, <4>2
    <3> QED
      BY <3>1, <3>2
  <2>3. g.slab[x].prev \in D \ {b} /\ g.slab[g.slab[x].prev].next = x
    <3>1. CASE x = c
      BY <1>2, <1>5, <1>9, <3>1
    <3>2. CASE x # c
      <4>1. g.slab[x].prev = h.slab[x].prev /\ h.slab[x].prev \in D /\ h.slab[h.slab[x].prev].next = x
        BY <1>2, <1>3, <3>2
      <4>2. h.slab[x].prev # a /\ h.slab[x].prev # b
        BY <4>1, <3>2
      <4> QED
        BY <1>2, <4>1, <4>2
    <3> QED
      BY <3>1, <3>2
  <2>4. EndOf(g, x) <= top
    BY <1>3, <1>6
  <2>5. g.slab[x].next = IF EndOf(g, x) = top THEN SLAB_FIRST ELSE EndOf(g, x)
    <3>1. CASE x = a
      <4>1. g.slab[x].next = c /\ EndOf(g, x) = EndOf(h, b)
        BY <1>2, <1>6, <3>1
      <4> QED
        BY <1>b, <4>1
    <3>2. CASE x # a
      <4>1. g.slab[x].next = h.slab[x].next /\ EndOf(g, x) = EndOf(h, x)
        BY <1>2, <1>6, <3>2
      <4> QED
        BY <1>3, <4>1
    <3> QED
      BY <3>1, <3>2
  <2> QED
    BY <2>1, <2>2, <2>3, <2>4, <2>5
<1>8. ASSUME NEW x \in D \ {b}, NEW y \in D \ {b}, x < y PROVE EndOf(g, x) <= y
  <2>1. x \in Nat /\ y \in Nat
    BY <1>7
  <2>2. CASE x = a
    <3>1. EndOf(h, a) <= y
      BY <1>4, <1>8, <2>2
    <3>2. b < y
      BY <1>1, <1>b, <2>1, <3>1
    <3> QED
      BY <1>4, <1>6, <2>2, <3>2
  <2>3. CASE x # a
    BY <1>4, <1>6, <1>8, <2>3
  <2> QED
    BY <2>2, <2>3
<1>10. SLAB_FIRST \in D \ {b} /\ D \ {b} \subseteq Nat
  BY <1>3, <1>5
<1> HIDE DEF D
<1> QED
  BY <1>2, <1>7, <1>8, <1>10 DEF Ring

\* A new last slab.
LEMMA ExtendRing ==
  ASSUME NEW h, NEW top \in Nat, Ring(h, top), NEW g, NEW size \in Nat, NEW pages,
         ExtendOf(h, g, top, size, pages)
  PROVE  /\ Ring(g, top + HEADER + size)
         /\ top \notin DOMAIN h.slab /\ g.slab[top].next = SLAB_FIRST
         /\ \A x \in DOMAIN h.slab : g.slab[x].next = h.slab[x].next \/ g.slab[x].next = top
<1> DEFINE D == DOMAIN h.slab
           l == SLAB_LAST(h)
<1>3. \A x \in D :
        /\ x \in Nat /\ SLAB_FIRST <= x /\ SLAB_FIRST \in Nat
        /\ h.slab[x].size \in Nat
        /\ h.slab[x].next \in D /\ h.slab[x].prev \in D
        /\ h.slab[h.slab[x].next].prev = x /\ h.slab[h.slab[x].prev].next = x
        /\ EndOf(h, x) \in Nat /\ x < EndOf(h, x) /\ EndOf(h, x) <= top
        /\ EndOf(h, x) = x + HEADER + h.slab[x].size
        /\ h.slab[x].next = IF EndOf(h, x) = top THEN SLAB_FIRST ELSE EndOf(h, x)
  BY InRing
<1>4. \A x, y \in D : x < y => EndOf(h, x) <= y
  BY DEF Ring
<1>1. top \notin D /\ SLAB_FIRST \in D /\ SLAB_FIRST # top /\ D \subseteq Nat
  <2>1. SLAB_FIRST \in D /\ D \subseteq Nat
    BY DEF Ring
  <2>2. \A x \in D : x # top
    BY <1>3
  <2> QED
    BY <2>1, <2>2
<1>2. /\ Shaped(g) /\ DOMAIN g.slab = D \cup {top}
      /\ \A x \in D \cup {top} :
           /\ g.slab[x].size = IF x = top THEN size ELSE h.slab[x].size
           /\ g.slab[x].prev = IF x = SLAB_FIRST THEN top ELSE IF x = top THEN l ELSE h.slab[x].prev
           /\ g.slab[x].next = IF x = l THEN top ELSE IF x = top THEN SLAB_FIRST ELSE h.slab[x].next
  BY <1>1 DEF ExtendOf
<1>5. l \in D /\ l # top /\ h.slab[l].next = SLAB_FIRST /\ h.slab[SLAB_FIRST].prev = l
  BY <1>1, <1>3 DEF SLAB_LAST
<1>6. ASSUME NEW x \in D PROVE (EndOf(h, x) = top) <=> (x = l)
  <2>1. x # l => h.slab[x].next # SLAB_FIRST
    BY <1>3, <1>5
  <2>2. EndOf(h, l) = top
    <3>1. l \in Nat /\ SLAB_FIRST <= l /\ l < EndOf(h, l) /\ EndOf(h, l) \in Nat /\ SLAB_FIRST \in Nat
      BY <1>3, <1>5
    <3>2. EndOf(h, l) # SLAB_FIRST
      BY <3>1
    <3> QED
      BY <1>3, <1>5, <3>2
  <2> QED
    BY <1>3, <2>1, <2>2
<1>t. HEADER \in Nat /\ HEADER >= 1 /\ top + HEADER + size \in Nat /\ top < top + HEADER + size
  BY Sizing
<1>7. ASSUME NEW x \in D \cup {top}
      PROVE  EndOf(g, x) = IF x = top THEN top + HEADER + size ELSE EndOf(h, x)
  <2>1. EndOf(g, x) = x + HEADER + g.slab[x].size
    BY DEF EndOf
  <2>2. CASE x = top
    BY <1>2, <2>1, <2>2
  <2>3. CASE x # top
    BY <1>2, <1>3, <2>1, <2>3
  <2> QED
    BY <2>2, <2>3
<1>8. ASSUME NEW x \in D \cup {top}
      PROVE  /\ SLAB_FIRST <= x
             /\ g.slab[x].next \in D \cup {top} /\ g.slab[g.slab[x].next].prev = x
             /\ g.slab[x].prev \in D \cup {top} /\ g.slab[g.slab[x].prev].next = x
             /\ EndOf(g, x) <= top + HEADER + size
             /\ g.slab[x].next = IF EndOf(g, x) = top + HEADER + size THEN SLAB_FIRST ELSE EndOf(g, x)
  <2>1. SLAB_FIRST <= x
    <3>1. SLAB_FIRST \in Nat /\ l \in Nat /\ SLAB_FIRST <= l /\ l < EndOf(h, l) /\ EndOf(h, l) <= top
          /\ EndOf(h, l) \in Nat
      BY <1>3, <1>5
    <3>2. SLAB_FIRST <= top
      BY <3>1
    <3> QED
      BY <1>3, <3>2
  <2>2. g.slab[x].next \in D \cup {top} /\ g.slab[g.slab[x].next].prev = x
    <3>1. CASE x = top
      BY <1>1, <1>2, <1>5, <3>1
    <3>2. CASE x = l
      BY <1>1, <1>2, <1>5, <3>2
    <3>3. CASE x \in D /\ x # l
      <4>1. g.slab[x].next = h.slab[x].next /\ h.slab[x].next \in D /\ h.slab[h.slab[x].next].prev = x
        BY <1>1, <1>2, <1>3, <3>3
      <4>2. h.slab[x].next # SLAB_FIRST /\ h.slab[x].next # top
        BY <1>1, <1>5, <4>1, <3>3
      <4> QED
        BY <1>2, <4>1, <4>2
    <3> QED
      BY <3>1, <3>2, <3>3
  <2>3. g.slab[x].prev \in D \cup {top} /\ g.slab[g.slab[x].prev].next = x
    <3>1. CASE x = top
      BY <1>1, <1>2, <1>5, <3>1
    <3>2. CASE x = SLAB_FIRST
      BY <1>1, <1>2, <1>5, <3>2
    <3>3. CASE x \in D /\ x # SLAB_FIRST
      <4>1. g.slab[x].prev = h.slab[x].prev /\ h.slab[x].prev \in D /\ h.slab[h.slab[x].prev].next = x
        BY <1>1, <1>2, <1>3, <3>3
      <4>2. h.slab[x].prev # l /\ h.slab[x].prev # top
        BY <1>1, <1>5, <4>1, <3>3
      <4> QED
        BY <1>2, <4>1, <4>2
    <3> QED
      BY <3>1, <3>2, <3>3
  <2>4. CASE x = top
    <3>1. EndOf(g, x) = top + HEADER + size /\ g.slab[x].next = SLAB_FIRST
      BY <1>2, <1>5, <1>7, <2>4
    <3> QED
      BY <1>t, <2>1, <2>2, <2>3, <3>1
  <2>5. CASE x # top
    <3>1. EndOf(g, x) = EndOf(h, x) /\ EndOf(h, x) \in Nat /\ EndOf(h, x) <= top
      BY <1>3, <1>7, <2>5
    <3>2. EndOf(g, x) <= top + HEADER + size /\ EndOf(g, x) # top + HEADER + size
      BY <1>t, <3>1
    <3>3. g.slab[x].next = EndOf(g, x)
      <4>1. CASE x = l
        BY <1>2, <1>5, <1>6, <3>1, <4>1
      <4>2. CASE x # l
        <5>1. g.slab[x].next = h.slab[x].next /\ EndOf(h, x) # top
          BY <1>2, <1>6, <2>5, <4>2
        <5> QED
          BY <1>3, <2>5, <3>1, <5>1
      <4> QED
        BY <4>1, <4>2
    <3> QED
      BY <2>1, <2>2, <2>3, <3>2, <3>3
  <2> QED
    BY <2>4, <2>5
<1>9. ASSUME NEW x \in D \cup {top}, NEW y \in D \cup {top}, x < y PROVE EndOf(g, x) <= y
  <2>1. CASE x = top
    <3>1. y \in D
      BY <1>9, <2>1
    <3>2. y \in Nat /\ y < EndOf(h, y) /\ EndOf(h, y) <= top /\ EndOf(h, y) \in Nat
      BY <1>3, <3>1
    <3> QED
      BY <1>9, <2>1, <3>2
  <2>2. CASE x # top /\ y = top
    BY <1>3, <1>7, <2>2
  <2>3. CASE x # top /\ y # top
    BY <1>4, <1>7, <1>9, <2>3
  <2> QED
    BY <2>1, <2>2, <2>3
<1>10. SLAB_FIRST \in D \cup {top} /\ D \cup {top} \subseteq Nat
  BY <1>1
<1>11. g.slab[top].next = SLAB_FIRST /\ \A x \in D : g.slab[x].next = h.slab[x].next \/ g.slab[x].next = top
  BY <1>1, <1>2, <1>5
<1> HIDE DEF D, l
<1>12. Ring(g, top + HEADER + size)
  BY <1>2, <1>8, <1>9, <1>10 DEF Ring
<1> QED
  BY <1>1, <1>11, <1>12 DEF D

\* Marking a slab keeps the ring.
LEMMA MarkRing ==
  ASSUME NEW h, NEW top \in Nat, Ring(h, top), NEW a \in DOMAIN h.slab, NEW v \in BOOLEAN
  PROVE  Ring(SetUsed(h, a, v), top)
<1> DEFINE g == SetUsed(h, a, v)
<1>1. Shaped(h)
  BY DEF Ring
<1>2. /\ SameSlabs(h, g)
      /\ \A x \in DOMAIN h.slab :
           /\ g.slab[x].size = h.slab[x].size
           /\ g.slab[x].prev = h.slab[x].prev
           /\ g.slab[x].next = h.slab[x].next
  BY <1>1, SetUsedFields
<1> HIDE DEF g
<1>3. Shaped(g) /\ DOMAIN g.slab = DOMAIN h.slab
  BY <1>2 DEF SameSlabs
<1>4. \A x \in DOMAIN h.slab : EndOf(g, x) = EndOf(h, x)
  BY <1>2 DEF EndOf
<1>5. \A x \in DOMAIN h.slab :
        /\ h.slab[x].next \in DOMAIN h.slab /\ h.slab[x].prev \in DOMAIN h.slab
  BY DEF Ring
<1>6. ASSUME NEW x \in DOMAIN h.slab
      PROVE  /\ SLAB_FIRST <= x
             /\ g.slab[x].next \in DOMAIN h.slab /\ g.slab[g.slab[x].next].prev = x
             /\ g.slab[x].prev \in DOMAIN h.slab /\ g.slab[g.slab[x].prev].next = x
             /\ EndOf(g, x) <= top
             /\ g.slab[x].next = IF EndOf(g, x) = top THEN SLAB_FIRST ELSE EndOf(g, x)
  <2>1. /\ SLAB_FIRST <= x
        /\ h.slab[x].next \in DOMAIN h.slab /\ h.slab[h.slab[x].next].prev = x
        /\ h.slab[x].prev \in DOMAIN h.slab /\ h.slab[h.slab[x].prev].next = x
        /\ EndOf(h, x) <= top
        /\ h.slab[x].next = IF EndOf(h, x) = top THEN SLAB_FIRST ELSE EndOf(h, x)
    BY InRing
  <2>2. g.slab[x].next = h.slab[x].next /\ g.slab[x].prev = h.slab[x].prev /\ EndOf(g, x) = EndOf(h, x)
    BY <1>2, <1>4
  <2>3. /\ g.slab[h.slab[x].next].prev = h.slab[h.slab[x].next].prev
        /\ g.slab[h.slab[x].prev].next = h.slab[h.slab[x].prev].next
    BY <1>2, <2>1
  <2> QED
    BY <2>1, <2>2, <2>3
<1>7. \A x, y \in DOMAIN h.slab : x < y => EndOf(g, x) <= y
  BY <1>4 DEF Ring
<1>8. DOMAIN h.slab \subseteq Nat /\ SLAB_FIRST \in DOMAIN h.slab
  BY DEF Ring
<1>9. Ring(g, top)
  BY <1>3, <1>6, <1>7, <1>8 DEF Ring
<1> QED
  BY <1>9 DEF g

-----------------------------------------------------------------------------
(* Allocating and freeing a slab. *)

UsedSlabs(h) == {x \in DOMAIN h.slab : h.slab[x].used}

\* Two free slabs are side by side at most at a.
MergedAround(h, a) ==
  \A x \in DOMAIN h.slab :
    x # a /\ h.slab[x].next # SLAB_FIRST /\ h.slab[x].next # a
      => h.slab[x].used \/ h.slab[h.slab[x].next].used

\* A slab is followed by itself only if it is the only one.
LEMMA NotNext ==
  ASSUME NEW h, NEW top \in Nat, Ring(h, top), NEW a \in DOMAIN h.slab, h.slab[a].next # SLAB_FIRST
  PROVE  h.slab[a].next # a /\ a < h.slab[a].next
<1>1. /\ a \in Nat /\ EndOf(h, a) \in Nat /\ a < EndOf(h, a)
      /\ h.slab[a].next = IF EndOf(h, a) = top THEN SLAB_FIRST ELSE EndOf(h, a)
  BY InRing
<1> QED
  BY <1>1

\* Marking changes the used slabs, and no size.
LEMMA MarkUsed ==
  ASSUME NEW h, NEW top \in Nat, Ring(h, top), NEW a \in DOMAIN h.slab, NEW v \in BOOLEAN
  PROVE  /\ SetUsed(h, a, v).pages = h.pages
         /\ DOMAIN SetUsed(h, a, v).slab = DOMAIN h.slab
         /\ \A x \in DOMAIN h.slab :
              /\ SetUsed(h, a, v).slab[x].used = IF x = a THEN v ELSE h.slab[x].used
              /\ SetUsed(h, a, v).slab[x].size = h.slab[x].size
              /\ SetUsed(h, a, v).slab[x].next = h.slab[x].next
              /\ SetUsed(h, a, v).slab[x].prev = h.slab[x].prev
<1>1. Shaped(h)
  BY DEF Ring
<1> QED
  BY <1>1, SetUsedFields DEF SameSlabs

\* r is h with a slab of size at a in use that was free.
Took(h, r, a, size) ==
  /\ r.pages = h.pages /\ UsedSlabs(r) = UsedSlabs(h) \cup {a}
  /\ r.slab[a].size >= size
  /\ \A x \in UsedSlabs(h) : r.slab[x].size = h.slab[x].size

\* What Take() makes of the heap when the slab it takes is a.
Taken(h, a, size) ==
  SetUsed(IF h.slab[a].size > size + HEADER THEN split(h, a, size) ELSE h, a, TRUE)

\* Marking the slab at a in use, when others are merged already.
LEMMA MarkTakes ==
  ASSUME NEW h, NEW top \in Nat, Ring(h, top), NEW a \in DOMAIN h.slab, NEW size \in Nat,
         h.slab[a].size >= size, MergedAround(h, a)
  PROVE  /\ Ring(SetUsed(h, a, TRUE), top) /\ Merged(SetUsed(h, a, TRUE))
         /\ Took(h, SetUsed(h, a, TRUE), a, size)
<1>v. PICK v \in BOOLEAN : v = TRUE
  OBVIOUS
<1> DEFINE r == SetUsed(h, a, v)
<1>1. Ring(r, top)
  BY MarkRing
<1>2. /\ r.pages = h.pages /\ DOMAIN r.slab = DOMAIN h.slab
      /\ \A x \in DOMAIN h.slab :
           /\ r.slab[x].used = IF x = a THEN v ELSE h.slab[x].used
           /\ r.slab[x].size = h.slab[x].size
           /\ r.slab[x].next = h.slab[x].next
           /\ r.slab[x].prev = h.slab[x].prev
  BY MarkUsed
<1> HIDE DEF r
<1>3. \A x \in DOMAIN h.slab : h.slab[x].next \in DOMAIN h.slab
  BY DEF Ring
<1>4. Merged(r)
  BY <1>v, <1>2, <1>3 DEF Merged, MergedBut, MergedAround
<1>5. UsedSlabs(r) = UsedSlabs(h) \cup {a}
  BY <1>v, <1>2 DEF UsedSlabs
<1>6. Took(h, r, a, size)
  BY <1>2, <1>5 DEF Took, UsedSlabs
<1> QED
  BY <1>v, <1>1, <1>4, <1>6 DEF r

\* Taking a free slab that is large enough, with or without splitting it.
LEMMA TakenGood ==
  ASSUME NEW h, NEW top \in Nat, Ring(h, top), NEW a \in DOMAIN h.slab, NEW size \in Nat,
         ~ h.slab[a].used, h.slab[a].size >= size, MergedBut(h, a)
  PROVE  /\ Ring(Taken(h, a, size), top) /\ Merged(Taken(h, a, size))
         /\ Took(h, Taken(h, a, size), a, size)
<1>1. CASE ~ (h.slab[a].size > size + HEADER)
  <2>1. Taken(h, a, size) = SetUsed(h, a, TRUE)
    BY <1>1 DEF Taken
  <2>2. MergedAround(h, a)
    BY DEF MergedAround, MergedBut
  <2> QED
    BY <2>1, <2>2, MarkTakes
<1>2. CASE h.slab[a].size > size + HEADER
  <2> DEFINE g == split(h, a, size)
             b == a + HEADER + size
             c == h.slab[a].next
  <2>1. Taken(h, a, size) = SetUsed(g, a, TRUE)
    BY <1>2 DEF Taken
  <2>2. Shaped(h) /\ DOMAIN h.slab \subseteq Nat /\ c \in DOMAIN h.slab
    BY DEF Ring
  <2>3. b \notin DOMAIN h.slab /\ b \in Nat
    BY <1>2, NewWithin
  <2>4. h.slab[a].size >= size + HEADER
    <3>1. h.slab[a].size \in Nat
      BY InRing
    <3> QED
      BY <1>2, <3>1, Sizing
  <2>5. SplitOf(h, g, a, b, size)
    BY <2>2, <2>3, <2>4, SplitFields
  <2> HIDE DEF g
  <2>6. Ring(g, top)
    <3> HIDE DEF b
    <3>1. b = a + HEADER + size
      BY DEF b
    <3> QED
      BY <1>2, <2>3, <2>5, <3>1, SplitRing
  <2> HIDE DEF b
  <2>7. /\ g.pages = h.pages /\ DOMAIN g.slab = DOMAIN h.slab \cup {b}
        /\ \A x \in DOMAIN h.slab \cup {b} :
             /\ g.slab[x].used = IF x = b THEN FALSE ELSE h.slab[x].used
             /\ x # a /\ x # b => g.slab[x].size = h.slab[x].size
             /\ g.slab[x].next = IF x = b THEN c ELSE IF x = a THEN b ELSE h.slab[x].next
        /\ g.slab[a].size = size
    BY <2>3, <2>5 DEF SplitOf
  <2>8. \A x \in DOMAIN h.slab : h.slab[x].next \in DOMAIN h.slab
    BY DEF Ring
  <2>9. c # SLAB_FIRST => h.slab[c].used
    <3>1. c # SLAB_FIRST => c # a
      BY NotNext
    <3> QED
      BY <3>1 DEF MergedBut
  <2>10. MergedAround(g, a)
    <3> SUFFICES ASSUME NEW x \in DOMAIN g.slab, x # a, g.slab[x].next # SLAB_FIRST, g.slab[x].next # a
                 PROVE  g.slab[x].used \/ g.slab[g.slab[x].next].used
      BY DEF MergedAround
    <3>1. CASE x = b
      BY <2>2, <2>3, <2>7, <2>9, <3>1
    <3>2. CASE x # b
      <4>1. x \in DOMAIN h.slab /\ g.slab[x].next = h.slab[x].next /\ g.slab[x].used = h.slab[x].used
        BY <2>7, <3>2
      <4>2. h.slab[x].next \in DOMAIN h.slab /\ h.slab[x].next # b
        BY <2>3, <2>8, <4>1
      <4>3. h.slab[x].used \/ h.slab[h.slab[x].next].used
        BY <4>1 DEF MergedBut
      <4> QED
        BY <2>7, <4>1, <4>2, <4>3
    <3> QED
      BY <3>1, <3>2
  <2>11. a \in DOMAIN g.slab /\ g.slab[a].size >= size
    BY <2>7
  <2>12. /\ Ring(SetUsed(g, a, TRUE), top) /\ Merged(SetUsed(g, a, TRUE))
         /\ Took(g, SetUsed(g, a, TRUE), a, size)
    BY <2>6, <2>10, <2>11, MarkTakes
  <2>13. UsedSlabs(g) = UsedSlabs(h) /\ \A x \in UsedSlabs(h) : g.slab[x].size = h.slab[x].size
    BY <2>3, <2>7 DEF UsedSlabs
  <2>14. Took(h, SetUsed(g, a, TRUE), a, size)
    BY <2>7, <2>12, <2>13 DEF Took
  <2> QED
    BY <2>1, <2>12, <2>14
<1> QED
  BY <1>1, <1>2

\* r is h with the slab at a free that was in use.
Freed(h, r, a) ==
  /\ r.pages = h.pages /\ UsedSlabs(r) = UsedSlabs(h) \ {a}
  /\ \A x \in UsedSlabs(h) \ {a} : r.slab[x].size = h.slab[x].size

\* Merging two free slabs that are side by side.
LEMMA MergeGood ==
  ASSUME NEW h, NEW top \in Nat, Ring(h, top), NEW a \in DOMAIN h.slab,
         h.slab[a].next # SLAB_FIRST, ~ h.slab[a].used, ~ h.slab[h.slab[a].next].used
  PROVE  /\ Ring(merge(h, a), top) /\ MergeOf(h, merge(h, a), a, h.slab[a].next)
         /\ merge(h, a).pages = h.pages /\ UsedSlabs(merge(h, a)) = UsedSlabs(h)
         /\ \A x \in UsedSlabs(h) : merge(h, a).slab[x].size = h.slab[x].size
<1> DEFINE b == h.slab[a].next
           g == merge(h, a)
<1>1. /\ Shaped(h) /\ DOMAIN h.slab \subseteq Nat /\ b \in DOMAIN h.slab
      /\ h.slab[b].next \in DOMAIN h.slab
  BY DEF Ring
<1>2. MergeOf(h, g, a, b)
  BY <1>1, MergeFields
<1> HIDE DEF g
<1>3. Ring(g, top)
  <2> HIDE DEF b
  <2>1. h.slab[a].next = b /\ b # SLAB_FIRST
    BY DEF b
  <2> QED
    BY <1>1, <1>2, <2>1, MergeRing
<1>4. /\ g.pages = h.pages /\ DOMAIN g.slab = DOMAIN h.slab \ {b}
      /\ \A x \in DOMAIN h.slab \ {b} :
           /\ g.slab[x].used = h.slab[x].used
           /\ x # a => g.slab[x].size = h.slab[x].size
  BY <1>2 DEF MergeOf
<1>5. UsedSlabs(g) = UsedSlabs(h)
  BY <1>4 DEF UsedSlabs
<1>6. \A x \in UsedSlabs(h) : g.slab[x].size = h.slab[x].size
  BY <1>4 DEF UsedSlabs
<1> QED
  BY <1>2, <1>3, <1>4, <1>5, <1>6 DEF g

\* What common_free() does with u, in which the slab at a is free.
Join(u, a) ==
  LET b == u.slab[a].next
      m == IF b # SLAB_FIRST /\ ~ u.slab[b].used THEN merge(u, a) ELSE u
      p == m.slab[a].prev
  IN IF p # SLAB_LAST(m) /\ ~ m.slab[p].used THEN merge(m, p) ELSE m

\* common_free() marks the slab free and joins it with its neighbours.
LEMMA FreeSteps ==
  ASSUME NEW h, NEW a PROVE common_free(h, a) = Join(SetUsed(h, a, FALSE), a)
  BY Zenon DEF common_free, SetUsed, Join

\* Freeing a slab keeps the ring, and leaves no two free slabs side by side.
LEMMA FreeGood ==
  ASSUME NEW h, NEW top \in Nat, Ring(h, top), NEW a \in DOMAIN h.slab, Merged(h)
  PROVE  /\ Ring(common_free(h, a), top) /\ Merged(common_free(h, a))
         /\ Freed(h, common_free(h, a), a)
<1>v. PICK v \in BOOLEAN : v = FALSE
  OBVIOUS
<1> DEFINE u == SetUsed(h, a, v)
           b == u.slab[a].next
           m == IF b # SLAB_FIRST /\ ~ u.slab[b].used THEN merge(u, a) ELSE u
           p == m.slab[a].prev
           r == IF p # SLAB_LAST(m) /\ ~ m.slab[p].used THEN merge(m, p) ELSE m
<1>1. common_free(h, a) = r
  <2>1. SetUsed(h, a, FALSE) = u
    BY Zenon, <1>v
  <2>2. Join(u, a) = r
    BY Zenon DEF Join
  <2> QED
    BY Zenon, <2>1, <2>2, FreeSteps
<1>2. Ring(u, top)
  BY MarkRing
<1>3. /\ u.pages = h.pages /\ DOMAIN u.slab = DOMAIN h.slab
      /\ \A x \in DOMAIN h.slab :
           /\ u.slab[x].used = IF x = a THEN v ELSE h.slab[x].used
           /\ u.slab[x].size = h.slab[x].size
           /\ u.slab[x].next = h.slab[x].next
           /\ u.slab[x].prev = h.slab[x].prev
  BY MarkUsed
<1> HIDE DEF u
<1>4. \A x \in DOMAIN h.slab : h.slab[x].next \in DOMAIN h.slab /\ h.slab[h.slab[x].next].prev = x
  BY DEF Ring
<1>5. MergedAround(u, a)
  BY <1>v, <1>3, <1>4 DEF Merged, MergedBut, MergedAround
<1>6. UsedSlabs(u) = UsedSlabs(h) \ {a} /\ ~ u.slab[a].used
  BY <1>v, <1>3 DEF UsedSlabs
<1>7. \A x \in UsedSlabs(h) : u.slab[x].size = h.slab[x].size
  BY <1>3 DEF UsedSlabs
<1>8. /\ Ring(m, top) /\ MergedBut(m, a) /\ a \in DOMAIN m.slab /\ ~ m.slab[a].used
      /\ m.pages = u.pages /\ UsedSlabs(m) = UsedSlabs(u)
      /\ \A x \in UsedSlabs(u) : m.slab[x].size = u.slab[x].size
  <2>1. CASE b # SLAB_FIRST /\ ~ u.slab[b].used
    <3> DEFINE g == merge(u, a)
               c == u.slab[b].next
    <3>1. m = g
      BY <2>1
    <3>2. a \in DOMAIN u.slab
      BY <1>3
    <3>3. /\ Ring(g, top) /\ MergeOf(u, g, a, b) /\ g.pages = u.pages /\ UsedSlabs(g) = UsedSlabs(u)
          /\ \A x \in UsedSlabs(u) : g.slab[x].size = u.slab[x].size
      BY <1>2, <1>6, <2>1, <3>2, MergeGood
    <3> HIDE DEF g, m
    <3>4. b # a /\ b \in DOMAIN u.slab /\ c \in DOMAIN u.slab /\ u.slab[b].prev = a
      <4>1. b # a
        BY <1>2, <2>1, <3>2, NotNext
      <4> QED
        BY <1>2, <3>2, <4>1 DEF Ring
    <3>5. /\ DOMAIN g.slab = DOMAIN u.slab \ {b}
          /\ \A x \in DOMAIN u.slab \ {b} :
               /\ g.slab[x].used = u.slab[x].used
               /\ g.slab[x].next = IF x = a THEN c ELSE u.slab[x].next
      BY <3>3 DEF MergeOf
    <3>6. c # SLAB_FIRST /\ c # a => u.slab[c].used /\ c # b
      <4>1. c # SLAB_FIRST => c # b
        BY <1>2, <3>4, NotNext
      <4> QED
        BY <2>1, <3>4, <4>1, <1>5 DEF MergedAround
    <3>7. MergedBut(g, a)
      <4> SUFFICES ASSUME NEW x \in DOMAIN g.slab, g.slab[x].next # SLAB_FIRST, g.slab[x].next # a
                   PROVE  g.slab[x].used \/ g.slab[g.slab[x].next].used
        BY DEF MergedBut
      <4>1. CASE x = a
        BY <3>2, <3>4, <3>5, <3>6, <4>1
      <4>2. CASE x # a
        <5>1. x \in DOMAIN u.slab \ {b} /\ g.slab[x].next = u.slab[x].next
          BY <3>5, <4>2
        <5>2. u.slab[x].next \in DOMAIN u.slab /\ u.slab[x].next # b
          BY <1>2, <3>4, <4>2, <5>1 DEF Ring
        <5>3. u.slab[x].used \/ u.slab[u.slab[x].next].used
          BY <1>5, <4>2, <5>1 DEF MergedAround
        <5> QED
          BY <3>5, <5>1, <5>2, <5>3
      <4> QED
        BY <4>1, <4>2
    <3>8. a \in DOMAIN g.slab /\ ~ g.slab[a].used
      BY <1>6, <3>2, <3>4, <3>5
    <3> QED
      BY <3>1, <3>3, <3>7, <3>8
  <2>2. CASE ~ (b # SLAB_FIRST /\ ~ u.slab[b].used)
    <3>1. m = u
      BY <2>2
    <3> HIDE DEF m
    <3>2. MergedBut(u, a)
      BY <1>5, <2>2 DEF MergedAround, MergedBut
    <3> QED
      BY <1>2, <1>3, <1>6, <3>1, <3>2
  <2> QED
    BY <2>1, <2>2
<1> HIDE DEF m
<1>9. /\ p \in DOMAIN m.slab /\ m.slab[p].next = a /\ SLAB_FIRST \in DOMAIN m.slab
      /\ \A x \in DOMAIN m.slab : m.slab[x].next \in DOMAIN m.slab /\ m.slab[m.slab[x].next].prev = x
  BY <1>8 DEF Ring
<1>10. (p = SLAB_LAST(m)) => a = SLAB_FIRST
  <2>1. m.slab[SLAB_LAST(m)].next = SLAB_FIRST
    BY <1>8, <1>9 DEF Ring, SLAB_LAST
  <2> QED
    BY <1>9, <2>1
<1>11. /\ Ring(r, top) /\ Merged(r) /\ r.pages = m.pages /\ UsedSlabs(r) = UsedSlabs(m)
       /\ \A x \in UsedSlabs(m) : r.slab[x].size = m.slab[x].size
  <2>1. CASE p # SLAB_LAST(m) /\ ~ m.slab[p].used
    <3> DEFINE g == merge(m, p)
    <3>1. r = g
      BY <2>1
    <3>2. a # SLAB_FIRST
      BY <2>1, <1>9 DEF SLAB_LAST
    <3>3. /\ Ring(g, top) /\ MergeOf(m, g, p, m.slab[p].next)
          /\ g.pages = m.pages /\ UsedSlabs(g) = UsedSlabs(m)
          /\ \A x \in UsedSlabs(m) : g.slab[x].size = m.slab[x].size
      BY <1>8, <1>9, <2>1, <3>2, MergeGood
    <3> HIDE DEF g, r
    <3>4. /\ DOMAIN g.slab = DOMAIN m.slab \ {a}
          /\ \A x \in DOMAIN m.slab \ {a} :
               /\ g.slab[x].used = m.slab[x].used
               /\ g.slab[x].next = IF x = p THEN m.slab[a].next ELSE m.slab[x].next
      BY <1>9, <3>3 DEF MergeOf
    <3>5. p # a
      BY <1>8, <1>9, <3>2, NotNext
    <3>6. m.slab[a].next # SLAB_FIRST => m.slab[a].next # a /\ m.slab[m.slab[a].next].used
      <4>1. m.slab[a].next # SLAB_FIRST => m.slab[a].next # a
        BY <1>8, NotNext
      <4> QED
        BY <1>8, <4>1 DEF MergedBut
    <3>7. Merged(g)
      <4> SUFFICES ASSUME NEW x \in DOMAIN g.slab, g.slab[x].next # SLAB_FIRST
                   PROVE  g.slab[x].used \/ g.slab[g.slab[x].next].used
        BY DEF Merged, MergedBut
      <4>1. CASE x = p
        BY <1>8, <1>9, <3>4, <3>5, <3>6, <4>1
      <4>2. CASE x # p
        <5>1. x \in DOMAIN m.slab \ {a} /\ g.slab[x].next = m.slab[x].next
          BY <3>4, <4>2
        <5>2. m.slab[x].next \in DOMAIN m.slab /\ m.slab[x].next # a
          BY <1>9, <4>2, <5>1
        <5>3. m.slab[x].used \/ m.slab[m.slab[x].next].used
          BY <1>8, <5>1, <5>2 DEF MergedBut
        <5> QED
          BY <3>4, <5>1, <5>2, <5>3
      <4> QED
        BY <4>1, <4>2
    <3> QED
      BY <3>1, <3>3, <3>7
  <2>2. CASE ~ (p # SLAB_LAST(m) /\ ~ m.slab[p].used)
    <3>1. r = m
      BY <2>2
    <3> HIDE DEF r
    <3>2. Merged(m)
      <4> SUFFICES ASSUME NEW x \in DOMAIN m.slab, m.slab[x].next # SLAB_FIRST
                   PROVE  m.slab[x].used \/ m.slab[m.slab[x].next].used
        BY DEF Merged, MergedBut
      <4>1. CASE m.slab[x].next = a
        <5>1. x = p
          BY <1>9, <4>1
        <5>2. m.slab[p].used
          BY <1>10, <2>2, <4>1
        <5> QED
          BY <5>1, <5>2
      <4>2. CASE m.slab[x].next # a
        BY <1>8, <4>2 DEF MergedBut
      <4> QED
        BY <4>1, <4>2
    <3> QED
      BY <1>8, <3>1, <3>2
  <2> QED
    BY <2>1, <2>2
<1> HIDE DEF r
<1>12. Freed(h, r, a)
  <2>1. r.pages = h.pages /\ UsedSlabs(r) = UsedSlabs(h) \ {a}
    BY <1>3, <1>6, <1>8, <1>11
  <2>2. \A x \in UsedSlabs(h) \ {a} : r.slab[x].size = h.slab[x].size
    BY <1>6, <1>7, <1>8, <1>11
  <2> QED
    BY <2>1, <2>2 DEF Freed
<1> QED
  BY <1>1, <1>11, <1>12

-----------------------------------------------------------------------------
(* Growing the heap. *)

\* The pages of a heap without a gap.
LEMMA PagesFinite ==
  ASSUME NEW h, NEW m \in Nat, UpToPage(h, m)
  PROVE  h.pages \in FinitePages /\ NextPage(h.pages) = Behind(m) /\ KernelHeap + Cardinality(h.pages) = m
<1>1. m \in KernelHeap + 1 .. PTES + 2 /\ h.pages = KernelHeap .. m - 1
  BY DEF UpToPage
<1>2. PICK k \in Int : k = m - 1
  OBVIOUS
<1>3. PICK j \in Nat : j = KernelHeap
  BY Sizing
<1>4. IsFiniteSet(j .. k) /\ Cardinality(j .. k) = IF j > k THEN 0 ELSE k - j + 1
  BY FS_Interval
<1>5. IsFiniteSet(h.pages) /\ Cardinality(h.pages) = m - j
  BY <1>1, <1>2, <1>3, <1>4, Sizing
<1>6. h.pages \in FinitePages
  BY <1>1, <1>3, <1>5 DEF FinitePages
<1> QED
  BY <1>1, <1>3, <1>5, <1>6, NextOfPages

\* common_sbrk() adds a slab that fits, wherever it may be.
LEMMA SbrkGood ==
  ASSUME NEW h, NEW m \in Nat, UpToPage(h, m), Ring(h, m * PG_SIZE), NEW size \in Nat, size # 0
  PROVE  \E pages :
           /\ AddedPages(h, pages, PagesFor(size))
           /\ ExtendOf(h, common_sbrk(h, size), Behind(m) * PG_SIZE, PagesFor(size) * PG_SIZE - HEADER, pages)
<1>1. h.pages \in FinitePages /\ NextPage(h.pages) = Behind(m)
  BY PagesFinite
<1>2. /\ PagesFor(size) \in Nat /\ PagesFor(size) * PG_SIZE - HEADER \in Nat
  BY RoomFor
<1>3. PICK pages : /\ common_sbrk(h, size) = Extended(h, pages, PagesFor(size))
                   /\ AddedPages(h, pages, PagesFor(size))
  BY <1>1, SbrkPages
<1>4. /\ Shaped(h) /\ DOMAIN h.slab \subseteq Nat /\ SLAB_FIRST \in DOMAIN h.slab
      /\ SLAB_LAST(h) \in DOMAIN h.slab
  BY DEF Ring, SLAB_LAST
<1>5. NextPage(h.pages) \in Nat
  BY <1>1, Sizing DEF Behind
<1>6. PICK n \in Nat : n = PagesFor(size)
  BY <1>2
<1>7. ExtendOf(h, Extended(h, pages, n), NextPage(h.pages) * PG_SIZE, n * PG_SIZE - HEADER, pages)
  BY <1>2, <1>4, <1>5, <1>6, ExtendFields
<1> QED
  BY <1>1, <1>3, <1>6, <1>7

\* In the heap in which a slab is looked for there is one.
LEMMA GrowFits ==
  ASSUME NEW h, NEW m \in Nat, UpToPage(h, m), Ring(h, m * PG_SIZE), NEW size \in Nat, size # 0
  PROVE  Fits(Grow(h, size), size) # {}
<1>1. CASE Fits(h, size) # {}
  BY <1>1 DEF Grow
<1>2. CASE Fits(h, size) = {}
  <2> DEFINE g == common_sbrk(h, size)
             old == Behind(m) * PG_SIZE
             n == PagesFor(size) * PG_SIZE - HEADER
  <2>1. Grow(h, size) = g
    BY <1>2 DEF Grow
  <2>2. PICK pages : ExtendOf(h, g, old, n, pages)
    BY SbrkGood
  <2>3. n >= size
    BY RoomFor
  <2> HIDE DEF g, old, n
  <2>4. old \in DOMAIN g.slab /\ ~ g.slab[old].used /\ g.slab[old].size = n
    BY <2>2 DEF ExtendOf
  <2>5. old \in Fits(g, size)
    BY <2>3, <2>4 DEF Fits
  <2> QED
    BY <2>1, <2>5
<1> QED
  BY <1>1, <1>2

\* Two multiples of the page size.
LEMMA Multiples ==
  ASSUME NEW m \in Nat, NEW n \in Nat
  PROVE  /\ m * PG_SIZE \in Nat /\ (m + n) * PG_SIZE = m * PG_SIZE + n * PG_SIZE
  BY Sizing

\* The heap in which a slab for size is found.
GrownFor(h, g, size) ==
  /\ \E k \in Nat : UpToPage(g, k) /\ Ring(g, k * PG_SIZE)
  /\ \A a \in Fits(g, size) : MergedBut(g, a)
  /\ UsedSlabs(g) = UsedSlabs(h)
  /\ \A x \in UsedSlabs(h) : g.slab[x].size = h.slab[x].size

\* That heap is one without a gap, and only the slab to be taken may have a free neighbour.
LEMMA GrowGood ==
  ASSUME NEW h, NEW m \in Nat, UpToPage(h, m), Ring(h, m * PG_SIZE), Merged(h),
         NEW size \in Nat, size # 0, NoGap(Grow(h, size))
  PROVE  GrownFor(h, Grow(h, size), size)
<1>1. CASE Fits(h, size) # {}
  <2>1. Grow(h, size) = h
    BY <1>1 DEF Grow
  <2>2. \A a : MergedBut(h, a)
    BY DEF Merged, MergedBut
  <2> QED
    BY <2>1, <2>2 DEF GrownFor
<1>2. CASE Fits(h, size) = {}
  <2> DEFINE g == common_sbrk(h, size)
             top == m * PG_SIZE
             n == PagesFor(size)
             s == n * PG_SIZE - HEADER
  <2>1. Grow(h, size) = g
    BY <1>2 DEF Grow
  <2>2. PICK pages : AddedPages(h, pages, n) /\ ExtendOf(h, g, Behind(m) * PG_SIZE, s, pages)
    BY SbrkGood
  <2>3. n \in Nat /\ n # 0 /\ s \in Nat
    BY RoomFor
  <2>4. s = n * PG_SIZE - HEADER
    OBVIOUS
  <2>5. top \in Nat /\ (m + n) * PG_SIZE = top + n * PG_SIZE
    BY <2>3, Multiples
  <2>6. top = m * PG_SIZE
    OBVIOUS
  <2> HIDE DEF g, n, s, top
  <2>7. g.pages = pages
    BY <2>2 DEF ExtendOf
  <2>8. m + n <= PTES + 2 /\ g.pages = KernelHeap .. m + n - 1
    BY <2>1, <2>2, <2>7 DEF NoGap, AddedPages
  <2>9. UpToPage(g, m + n) /\ m + n \in Nat /\ m # PTES + 2
    BY <2>3, <2>8, Sizing DEF UpToPage
  <2>10. ExtendOf(h, g, top, s, pages)
    BY <2>2, <2>6, <2>9 DEF Behind
  <2>11. /\ Ring(g, top + HEADER + s)
         /\ top \notin DOMAIN h.slab /\ g.slab[top].next = SLAB_FIRST
         /\ \A x \in DOMAIN h.slab : g.slab[x].next = h.slab[x].next \/ g.slab[x].next = top
    <3>1. Ring(h, top)
      BY <2>6
    <3> QED
      BY <2>3, <2>5, <2>10, <3>1, ExtendRing
  <2>12. Ring(g, (m + n) * PG_SIZE)
    <3>1. top + HEADER + s = (m + n) * PG_SIZE
      <4>1. PICK q \in Nat : q = n * PG_SIZE
        BY <2>3, Sizing
      <4>2. HEADER \in Nat
        BY Sizing
      <4> QED
        BY <2>4, <2>5, <4>1, <4>2
    <3> QED
      BY <2>11, <3>1
  <2>13. /\ DOMAIN g.slab = DOMAIN h.slab \cup {top}
         /\ \A x \in DOMAIN h.slab \cup {top} :
              /\ g.slab[x].used = IF x = top THEN FALSE ELSE h.slab[x].used
              /\ g.slab[x].size = IF x = top THEN s ELSE h.slab[x].size
    BY <2>10 DEF ExtendOf
  <2>14. UsedSlabs(g) = UsedSlabs(h) /\ \A x \in UsedSlabs(h) : g.slab[x].size = h.slab[x].size
    BY <2>11, <2>13 DEF UsedSlabs
  <2>15. ASSUME NEW a \in Fits(g, size) PROVE MergedBut(g, a)
    <3>1. a = top
      BY <1>2, <2>11, <2>13 DEF Fits
    <3>2. ASSUME NEW x \in DOMAIN g.slab, g.slab[x].next # SLAB_FIRST, g.slab[x].next # top
          PROVE  g.slab[x].used \/ g.slab[g.slab[x].next].used
      <4>1. x \in DOMAIN h.slab /\ x # top /\ g.slab[x].next = h.slab[x].next
        BY <2>11, <2>13, <3>2
      <4>2. h.slab[x].next \in DOMAIN h.slab
        BY <4>1 DEF Ring
      <4>3. h.slab[x].used \/ h.slab[h.slab[x].next].used
        BY <3>2, <4>1 DEF Merged, MergedBut
      <4> QED
        BY <2>11, <2>13, <4>1, <4>2, <4>3
    <3> QED
      BY <3>1, <3>2 DEF MergedBut
  <2> QED
    BY <2>1, <2>9, <2>12, <2>14, <2>15 DEF GrownFor
<1> QED
  BY <1>1, <1>2

-----------------------------------------------------------------------------
(* The calls keep the invariant. *)

\* The least of some naturals is one of them.
LEMMA MinIn ==
  ASSUME NEW S, S \subseteq Nat, S # {}
  PROVE  Min(S) \in S
<1>1. \E x \in S : \A y \in S : x <= y
  BY Least
<1> QED
  BY <1>1 DEF Min

\* Take() takes the first slab that fits.
LEMMA TakeSteps ==
  ASSUME NEW h, NEW size
  PROVE  /\ Take(h, size).at = Min(Fits(h, size))
         /\ Take(h, size).h = Taken(h, Min(Fits(h, size)), size)
  BY DEF Take, Taken, SetUsed

\* The first heap satisfies the invariant.
LEMMA InitTiled == HeapInit => HeapInv
<1> SUFFICES ASSUME HeapInit PROVE HeapInv
  OBVIOUS
<1>z. PICK z \in BOOLEAN : z = FALSE
  OBVIOUS
<1>s. PICK s \in Nat : s = PG_SIZE - HEADER
  BY Sizing
<1>m. PICK m \in Nat : m = KernelHeap + 1
  BY Sizing
<1>1. z = FALSE /\ s = PG_SIZE - HEADER /\ m = KernelHeap + 1
  BY <1>z, <1>s, <1>m
<1> DEFINE r == [used |-> z, size |-> s, prev |-> SLAB_FIRST, next |-> SLAB_FIRST]
<1>2. heap = [pages |-> {KernelHeap}, slab |-> [a \in {SLAB_FIRST} |-> r]] /\ live = {}
  BY <1>1 DEF HeapInit
<1>3. r \in Slabs /\ r.used = z /\ r.size = s /\ r.prev = SLAB_FIRST /\ r.next = SLAB_FIRST
  BY Sizing DEF Slabs
<1> HIDE DEF r
<1>4. /\ heap.pages = {KernelHeap} /\ Shaped(heap)
      /\ DOMAIN heap.slab = {SLAB_FIRST} /\ heap.slab[SLAB_FIRST] = r
  BY <1>2, <1>3 DEF Shaped
<1>5. m * PG_SIZE = SLAB_FIRST + PG_SIZE
  BY <1>1, Sizing DEF SLAB_FIRST
<1>6. EndOf(heap, SLAB_FIRST) = m * PG_SIZE
  BY <1>1, <1>3, <1>4, <1>5, Sizing DEF EndOf
<1>7. Ring(heap, m * PG_SIZE)
  BY <1>3, <1>4, <1>5, <1>6, Sizing DEF Ring
<1>8. UpToPage(heap, m)
  BY <1>1, <1>4, Sizing DEF UpToPage
<1>9. Merged(heap)
  BY <1>3, <1>4 DEF Merged, MergedBut
<1>10. PointersKept /\ LiveType
  BY <1>1, <1>2, <1>3, <1>4 DEF PointersKept, LiveType
<1> QED
  BY <1>7, <1>8, <1>9, <1>10 DEF HeapInv, Tiled

\* kmalloc() keeps the invariant.
LEMMA MallocStep ==
  ASSUME HeapInv, NEW size \in Sizes, kmalloc(size)
  PROVE  HeapInv'
<1> DEFINE g == Grow(heap, size)
           a == Min(Fits(g, size))
<1>1. size \in Nat /\ size # 0
  BY Sizing
<1>2. PICK m \in Nat : UpToPage(heap, m) /\ Ring(heap, m * PG_SIZE)
  BY DEF HeapInv, Tiled
<1>3. Merged(heap)
  BY DEF HeapInv, Tiled
<1>4. /\ NoGap(g) /\ heap' = Take(g, size).h
      /\ live' = live \cup {<<Take(g, size).at, size>>}
  BY DEF kmalloc
<1>5. GrownFor(heap, g, size)
  BY <1>1, <1>2, <1>3, <1>4, GrowGood
<1>6. Fits(g, size) # {}
  BY <1>1, <1>2, GrowFits
<1> HIDE DEF g
<1>7. PICK k \in Nat : UpToPage(g, k) /\ Ring(g, k * PG_SIZE)
  BY <1>5 DEF GrownFor
<1>8. DOMAIN g.slab \subseteq Nat
  BY <1>7 DEF Ring
<1>9. a \in Fits(g, size)
  <2>1. Fits(g, size) \subseteq Nat
    BY <1>8 DEF Fits
  <2> QED
    BY <1>6, <2>1, MinIn
<1>10. heap' = Taken(g, a, size) /\ live' = live \cup {<<a, size>>}
  BY <1>4, TakeSteps
<1> HIDE DEF a
<1>11. a \in DOMAIN g.slab /\ ~ g.slab[a].used /\ g.slab[a].size >= size /\ MergedBut(g, a)
  BY <1>5, <1>9 DEF Fits, GrownFor
<1>12. PICK top \in Nat : top = k * PG_SIZE
  BY Sizing
<1>13. Ring(heap', top) /\ Merged(heap') /\ Took(g, heap', a, size)
  BY <1>1, <1>7, <1>10, <1>11, <1>12, TakenGood
<1>14. UpToPage(heap', k)
  BY <1>7, <1>13 DEF UpToPage, Took
<1>15. Tiled(heap)'
  BY <1>12, <1>13, <1>14 DEF Tiled
<1>16. LiveType'
  BY <1>1, <1>8, <1>10, <1>11 DEF HeapInv, LiveType
<1>17. UsedSlabs(heap) = {x[1] : x \in live} /\ UsedSlabs(g) = UsedSlabs(heap) /\ a \notin UsedSlabs(g)
  BY <1>5, <1>11 DEF HeapInv, PointersKept, UsedSlabs, GrownFor
<1>18. PointersKept'
  <2>1. UsedSlabs(heap') = {x[1] : x \in live'}
    <3>1. UsedSlabs(heap') = UsedSlabs(heap) \cup {a}
      BY <1>13, <1>17 DEF Took
    <3>2. {x[1] : x \in live \cup {<<a, size>>}} = {x[1] : x \in live} \cup {a}
      <4> DEFINE p == <<a, size>>
      <4>1. p[1] = a
        OBVIOUS
      <4> HIDE DEF p
      <4>2. {x[1] : x \in live \cup {p}} = {x[1] : x \in live} \cup {a}
        BY <4>1
      <4> QED
        BY <4>2 DEF p
    <3> QED
      BY <1>10, <1>17, <3>1, <3>2
  <2>2. ASSUME NEW x \in live' PROVE heap'.slab[x[1]].size >= x[2]
    <3>1. CASE x = <<a, size>>
      BY <1>13, <3>1 DEF Took
    <3>2. CASE x \in live
      <4>1. x[1] \in UsedSlabs(heap) /\ heap.slab[x[1]].size >= x[2]
        BY <1>17, <3>2 DEF HeapInv, PointersKept
      <4>2. heap'.slab[x[1]].size = heap.slab[x[1]].size
        BY <1>5, <1>13, <1>17, <4>1 DEF Took, GrownFor
      <4> QED
        BY <4>1, <4>2
    <3> QED
      BY <1>10, <3>1, <3>2
  <2>3. ASSUME NEW x \in live', NEW y \in live', x[1] = y[1] PROVE x = y
    <3>1. \A z \in live : z[1] # a
      BY <1>17
    <3>2. CASE x \in live /\ y \in live
      BY <2>3, <3>2 DEF HeapInv, PointersKept
    <3>3. CASE ~ (x \in live /\ y \in live)
      BY <1>10, <2>3, <3>1, <3>3
    <3> QED
      BY <3>2, <3>3
  <2> QED
    BY <2>1, <2>2, <2>3 DEF PointersKept, UsedSlabs
<1> QED
  BY <1>15, <1>16, <1>18 DEF HeapInv

\* kfree() keeps the invariant.
LEMMA FreeStep ==
  ASSUME HeapInv, NEW x \in live, kfree(x)
  PROVE  HeapInv'
<1> DEFINE a == x[1]
<1>1. PICK m \in Nat : UpToPage(heap, m) /\ Ring(heap, m * PG_SIZE)
  BY DEF HeapInv, Tiled
<1>2. Merged(heap)
  BY DEF HeapInv, Tiled
<1>3. heap' = common_free(heap, a) /\ live' = live \ {x}
  BY DEF kfree
<1>4. UsedSlabs(heap) = {y[1] : y \in live}
  BY DEF HeapInv, PointersKept, UsedSlabs
<1>5. a \in DOMAIN heap.slab
  BY <1>4 DEF UsedSlabs
<1>6. PICK top \in Nat : top = m * PG_SIZE
  BY Sizing
<1> HIDE DEF a
<1>7. Ring(heap', top) /\ Merged(heap') /\ Freed(heap, heap', a)
  BY <1>1, <1>2, <1>3, <1>5, <1>6, FreeGood
<1>8. UpToPage(heap', m)
  BY <1>1, <1>7 DEF UpToPage, Freed
<1>9. Tiled(heap)'
  BY <1>6, <1>7, <1>8 DEF Tiled
<1>10. LiveType'
  BY <1>3 DEF HeapInv, LiveType
<1>11. \A y \in live \ {x} : y[1] # a
  BY DEF HeapInv, PointersKept, a
<1>12. UsedSlabs(heap') = {y[1] : y \in live'}
  <2>1. {y[1] : y \in live \ {x}} = {y[1] : y \in live} \ {a}
    BY <1>11 DEF a
  <2> QED
    BY <1>3, <1>4, <1>7, <2>1 DEF Freed
<1>13. ASSUME NEW y \in live' PROVE heap'.slab[y[1]].size >= y[2]
  <2>1. y \in live /\ y[1] # a
    BY <1>3, <1>11, <1>13
  <2>2. y[1] \in UsedSlabs(heap) /\ heap.slab[y[1]].size >= y[2]
    BY <1>4, <2>1 DEF HeapInv, PointersKept
  <2> QED
    BY <1>7, <2>1, <2>2 DEF Freed
<1>14. \A y, z \in live' : y[1] = z[1] => y = z
  BY <1>3 DEF HeapInv, PointersKept
<1> QED
  BY <1>9, <1>10, <1>12, <1>13, <1>14 DEF HeapInv, PointersKept, UsedSlabs

\* The invariant holds in every state.
LEMMA AlwaysTiled == HeapSpec => []HeapInv
<1>1. HeapInv /\ [HeapNext]_heapVars => HeapInv'
  <2> SUFFICES ASSUME HeapInv, [HeapNext]_heapVars PROVE HeapInv'
    OBVIOUS
  <2>1. CASE \E size \in Sizes : kmalloc(size)
    BY <2>1, MallocStep
  <2>2. CASE \E x \in live : kfree(x)
    BY <2>2, FreeStep
  <2>3. CASE UNCHANGED heapVars
    BY <2>3 DEF heapVars, HeapInv, Tiled, LiveType, PointersKept
  <2> QED
    BY <2>1, <2>2, <2>3 DEF HeapNext
<1> QED
  BY <1>1, InitTiled, PTL DEF HeapSpec

\* The slabs tile the kernel heap's pages in the order of the ring, with no two free
\* ones side by side, after any kmalloc() and kfree() that leave no gap in the pages.
THEOREM HeapTiledCorrect == HeapSpec => []HeapTiled
<1>1. HeapInv => HeapTiled
  <2> SUFFICES ASSUME HeapInv, NEW a \in DOMAIN heap.slab
               PROVE  /\ heap.slab[heap.slab[a].next].prev = a
                      /\ heap.slab[a].next = IF End(a) = Break THEN SLAB_FIRST ELSE End(a)
                      /\ heap.slab[a].next # SLAB_FIRST
                           => heap.slab[a].used \/ heap.slab[heap.slab[a].next].used
    BY DEF HeapTiled
  <2>1. PICK m \in Nat : UpToPage(heap, m) /\ Ring(heap, m * PG_SIZE)
    BY DEF HeapInv, Tiled
  <2>2. Break = m * PG_SIZE
    BY <2>1, PagesFinite DEF Break
  <2>3. End(a) = EndOf(heap, a)
    BY DEF End, EndOf
  <2>4. /\ heap.slab[heap.slab[a].next].prev = a
        /\ heap.slab[a].next = IF EndOf(heap, a) = m * PG_SIZE THEN SLAB_FIRST ELSE EndOf(heap, a)
    BY <2>1 DEF Ring
  <2>5. heap.slab[a].next # SLAB_FIRST => heap.slab[a].used \/ heap.slab[heap.slab[a].next].used
    BY DEF HeapInv, Tiled, Merged, MergedBut
  <2> QED
    BY <2>2, <2>3, <2>4, <2>5
<1> QED
  BY <1>1, AlwaysTiled, PTL

\* What kmalloc() has returned stays allocated, in a slab of its own that is large
\* enough, until it is given to kfree().
THEOREM PointersCorrect == HeapSpec => []PointersKept
<1>1. HeapInv => PointersKept
  BY DEF HeapInv
<1> QED
  BY <1>1, AlwaysTiled, PTL

\* common_malloc() ends: the slab that common_sbrk() adds for a size fits it.
THEOREM MallocCorrect == HeapSpec => []MallocEnds
<1>1. HeapInv => MallocEnds
  <2> SUFFICES ASSUME HeapInv, NEW size \in Sizes PROVE Fits(Grow(heap, size), size) # {}
    BY DEF MallocEnds
  <2>1. PICK m \in Nat : UpToPage(heap, m) /\ Ring(heap, m * PG_SIZE)
    BY DEF HeapInv, Tiled
  <2>2. size \in Nat /\ size # 0
    BY Sizing
  <2> QED
    BY <2>1, <2>2, GrowFits
<1> QED
  BY <1>1, AlwaysTiled, PTL

FrameOrNull == Frames \cup {NULL}

PageState == [free : FrameOrNull, used : FrameOrNull,
              next : [Frames -> FrameOrNull], prev : [Frames -> FrameOrNull],
              mem : [Frames -> [Entries -> FrameOrNull]], cr3 : [Tasks -> FrameOrNull],
              spoiled : BOOLEAN]

-----------------------------------------------------------------------------
(* The page lists. *)

\* The free pages are F, n of them; k counts a page's place in its list.
Listing(t, F, n, k) ==
  /\ k \in [Frames -> Nat]
  /\ \A f \in Frames : k[f] < IF f \in F THEN n ELSE num_pgs - n
  /\ \A f, g \in Frames : (f \in F <=> g \in F) /\ k[f] = k[g] => f = g
  /\ \A f \in Frames : t.next[f] # NULL =>
        /\ t.next[f] \in F <=> f \in F
        /\ k[t.next[f]] = k[f] + 1
        /\ t.prev[t.next[f]] = f
  /\ \A f \in Frames : IF k[f] = 0 THEN t.prev[f] = NULL
                       ELSE t.prev[f] # NULL /\ t.next[t.prev[f]] = f
  /\ IF F = {} THEN t.free = NULL ELSE t.free \in F /\ k[t.free] = 0
  /\ IF F = Frames THEN t.used = NULL ELSE t.used \in Frames \ F /\ k[t.used] = 0

Lists(t, F) == F \subseteq Frames /\ \E k : Listing(t, F, Cardinality(F), k)

\* What PagingAssumption says of the sizes.
LEMMA Memory ==
  /\ num_pgs \in Nat /\ num_pgs >= 7 /\ sys_pgs \in 2 .. PTES - 1 /\ PTES \in Nat /\ PTES >= 3
  /\ sys_pgs + 5 <= num_pgs /\ NULL \notin Frames /\ NULL = -1
  /\ QUARTER \in Nat /\ QUARTER >= 1 /\ MaxGrow \in Nat /\ MaxGrow >= 1
  BY PagingAssumption DEF NULL, Frames

\* There are num_pgs frames, and as many in a part of them only if the part is all.
LEMMA FramesFinite ==
  /\ IsFiniteSet(Frames) /\ Cardinality(Frames) = num_pgs
  /\ \A F \in SUBSET Frames : IsFiniteSet(F) /\ Cardinality(F) \in 0 .. num_pgs
                              /\ (Cardinality(F) = 0 <=> F = {})
                              /\ (Cardinality(F) = num_pgs <=> F = Frames)
<1>1. IsFiniteSet(Frames) /\ Cardinality(Frames) = num_pgs
  BY Memory, FromZero DEF Frames
<1>2. ASSUME NEW F \in SUBSET Frames
      PROVE  IsFiniteSet(F) /\ Cardinality(F) \in 0 .. num_pgs
             /\ (Cardinality(F) = 0 <=> F = {}) /\ (Cardinality(F) = num_pgs <=> F = Frames)
  <2>1. IsFiniteSet(F) /\ Cardinality(F) <= num_pgs /\ (Cardinality(F) = num_pgs => F = Frames)
    BY <1>1, FS_Subset
  <2>2. Cardinality(F) \in Nat /\ (Cardinality(F) = 0 <=> F = {})
    BY <2>1, FS_CardinalityType, FS_EmptySet
  <2> QED
    BY <1>1, <2>1, <2>2, Memory
<1> QED
  BY <1>1, <1>2

\* pg_pop(), field by field.
LEMMA PopFields ==
  ASSUME NEW t \in PageState, t.free \in Frames
  PROVE  /\ pg_pop(t) \in PageState
         /\ pg_pop(t).free = t.next[t.free] /\ pg_pop(t).used = t.free
         /\ \A g \in Frames : pg_pop(t).next[g] = IF g = t.free THEN t.used ELSE t.next[g]
         /\ \A g \in Frames : pg_pop(t).prev[g] =
              IF g = t.next[t.free] THEN NULL ELSE IF g = t.used THEN t.free ELSE t.prev[g]
         /\ pg_pop(t).mem = t.mem /\ pg_pop(t).cr3 = t.cr3 /\ pg_pop(t).spoiled = t.spoiled
<1> DEFINE next == [t.next EXCEPT ![t.free] = t.used]
           prev == [g \in Frames |-> IF g = t.next[t.free] THEN NULL
                                     ELSE IF g = t.used THEN t.free ELSE t.prev[g]]
<1>1. pg_pop(t) = [t EXCEPT !.free = t.next[t.free], !.used = t.free, !.next = next, !.prev = prev]
  BY DEF pg_pop
<1>2. /\ next \in [Frames -> FrameOrNull] /\ prev \in [Frames -> FrameOrNull]
      /\ t.next[t.free] \in FrameOrNull /\ t.free \in FrameOrNull
  BY DEF PageState, FrameOrNull
<1>3. \A g \in Frames : next[g] = IF g = t.free THEN t.used ELSE t.next[g]
  BY DEF PageState
<1>4. \A g \in Frames : prev[g] = IF g = t.next[t.free] THEN NULL
                                  ELSE IF g = t.used THEN t.free ELSE t.prev[g]
  OBVIOUS
<1> HIDE DEF next, prev
<1>5. /\ pg_pop(t) \in PageState
      /\ pg_pop(t).free = t.next[t.free] /\ pg_pop(t).used = t.free
      /\ pg_pop(t).next = next /\ pg_pop(t).prev = prev
      /\ pg_pop(t).mem = t.mem /\ pg_pop(t).cr3 = t.cr3 /\ pg_pop(t).spoiled = t.spoiled
  <2> PICK a \in FrameOrNull, b \in FrameOrNull : a = t.next[t.free] /\ b = t.free
    BY <1>2
  <2> PICK w : w = pg_pop(t)
    OBVIOUS
  <2>1. w = [t EXCEPT !.free = a, !.used = b, !.next = next, !.prev = prev]
    BY <1>1
  <2>2. /\ w \in PageState
        /\ w.free = a /\ w.used = b /\ w.next = next /\ w.prev = prev
        /\ w.mem = t.mem /\ w.cr3 = t.cr3 /\ w.spoiled = t.spoiled
    BY <1>2, <2>1 DEF PageState
  <2> QED
    BY <2>2
<1> QED
  BY <1>3, <1>4, <1>5

\* pg_push() likewise.
LEMMA PushFields ==
  ASSUME NEW t \in PageState, NEW f \in Frames
  PROVE  /\ pg_push(t, f) \in PageState
         /\ pg_push(t, f).free = f
         /\ pg_push(t, f).used = IF t.prev[f] = NULL THEN t.next[f] ELSE t.used
         /\ \A g \in Frames : pg_push(t, f).next[g] =
              IF g = f THEN t.free ELSE IF g = t.prev[f] THEN t.next[f] ELSE t.next[g]
         /\ \A g \in Frames : pg_push(t, f).prev[g] =
              IF g = f THEN NULL ELSE IF g = t.free THEN f
              ELSE IF g = t.next[f] THEN t.prev[f] ELSE t.prev[g]
         /\ pg_push(t, f).mem = t.mem /\ pg_push(t, f).cr3 = t.cr3
         /\ pg_push(t, f).spoiled = t.spoiled
<1> DEFINE next == [g \in Frames |-> IF g = f THEN t.free
                                     ELSE IF g = t.prev[f] THEN t.next[f] ELSE t.next[g]]
           prev == [g \in Frames |-> IF g = f THEN NULL ELSE IF g = t.free THEN f
                                     ELSE IF g = t.next[f] THEN t.prev[f] ELSE t.prev[g]]
           used == IF t.prev[f] = NULL THEN t.next[f] ELSE t.used
<1>1. pg_push(t, f) = [t EXCEPT !.used = used, !.free = f, !.next = next, !.prev = prev]
  BY DEF pg_push
<1>2. /\ next \in [Frames -> FrameOrNull] /\ prev \in [Frames -> FrameOrNull]
      /\ used \in FrameOrNull /\ f \in FrameOrNull
  BY DEF PageState, FrameOrNull
<1>3. \A g \in Frames : next[g] = IF g = f THEN t.free
                                  ELSE IF g = t.prev[f] THEN t.next[f] ELSE t.next[g]
  OBVIOUS
<1>4. \A g \in Frames : prev[g] = IF g = f THEN NULL ELSE IF g = t.free THEN f
                                  ELSE IF g = t.next[f] THEN t.prev[f] ELSE t.prev[g]
  OBVIOUS
<1>5. used = IF t.prev[f] = NULL THEN t.next[f] ELSE t.used
  OBVIOUS
<1> HIDE DEF next, prev, used
<1>6. /\ pg_push(t, f) \in PageState
      /\ pg_push(t, f).free = f /\ pg_push(t, f).used = used
      /\ pg_push(t, f).next = next /\ pg_push(t, f).prev = prev
      /\ pg_push(t, f).mem = t.mem /\ pg_push(t, f).cr3 = t.cr3 /\ pg_push(t, f).spoiled = t.spoiled
  <2> PICK w : w = pg_push(t, f)
    OBVIOUS
  <2>1. w = [t EXCEPT !.used = used, !.free = f, !.next = next, !.prev = prev]
    BY <1>1
  <2>2. /\ w \in PageState
        /\ w.free = f /\ w.used = used /\ w.next = next /\ w.prev = prev
        /\ w.mem = t.mem /\ w.cr3 = t.cr3 /\ w.spoiled = t.spoiled
    BY <1>2, <2>1 DEF PageState
  <2> QED
    BY <2>2
<1> QED
  BY <1>3, <1>4, <1>5, <1>6
\* pg_pop() takes a page from the free ones,
LEMMA PopLists ==
  ASSUME NEW t \in PageState, NEW F, Lists(t, F), F # {}
  PROVE  t.free \in F /\ pg_pop(t) \in PageState /\ Lists(pg_pop(t), F \ {t.free})
<1> DEFINE f == t.free
           p == pg_pop(t)
           G == F \ {f}
<1> PICK n, k : Listing(t, F, n, k) /\ n = Cardinality(F)
  BY DEF Lists
<1> DEFINE j == [g \in Frames |-> IF g = f THEN 0 ELSE IF g \in F THEN k[g] - 1 ELSE k[g] + 1]
<1>1. F \subseteq Frames /\ f \in F /\ f \in Frames /\ k[f] = 0
  BY DEF Listing, Lists
<1>2. /\ n \in 1 .. num_pgs /\ num_pgs \in Nat /\ Cardinality(G) = n - 1
      /\ (n = num_pgs <=> F = Frames)
  <2>1. IsFiniteSet(F) /\ n \in 0 .. num_pgs /\ n # 0 /\ (n = num_pgs <=> F = Frames)
    BY <1>1, FramesFinite
  <2>2. Cardinality(G) = n - 1
    BY <1>1, <2>1, FS_RemoveElement
  <2> QED
    BY <2>1, <2>2, Memory
<1>3. /\ p \in PageState /\ p.free = t.next[f] /\ p.used = f
      /\ \A g \in Frames : p.next[g] = IF g = f THEN t.used ELSE t.next[g]
      /\ \A g \in Frames : p.prev[g] = IF g = t.next[f] THEN NULL ELSE IF g = t.used THEN f ELSE t.prev[g]
  BY <1>1, PopFields
<1> HIDE DEF p, f
<1>4. /\ \A g \in Frames : k[g] \in Nat
      /\ \A g \in Frames : t.next[g] \in Frames \cup {NULL} /\ t.prev[g] \in Frames \cup {NULL}
      /\ NULL \notin Frames
  BY Memory DEF Listing, PageState, FrameOrNull
<1>5. \A g \in F : g # f => k[g] >= 1
  <2> SUFFICES ASSUME NEW g \in F, g # f, k[g] = 0 PROVE FALSE
    BY <1>1, <1>4
  <2> QED
    BY <1>1 DEF Listing
<1>6. j \in [Frames -> Nat]
  BY <1>1, <1>4, <1>5
<1>7. /\ \A g \in Frames : j[g] = IF g = f THEN 0 ELSE IF g \in F THEN k[g] - 1 ELSE k[g] + 1
      /\ \A g \in Frames : g \in G <=> g \in F /\ g # f
      /\ G \subseteq Frames
  BY <1>1
<1> HIDE DEF j, G
<1>8. \A g \in Frames : j[g] < IF g \in G THEN n - 1 ELSE num_pgs - (n - 1)
  BY <1>1, <1>2, <1>4, <1>7 DEF Listing
<1>9. \A g, h \in Frames : (g \in G <=> h \in G) /\ j[g] = j[h] => g = h
  BY <1>1, <1>4, <1>5, <1>7 DEF Listing
<1>10. ASSUME NEW g \in Frames, p.next[g] # NULL
       PROVE  /\ p.next[g] \in G <=> g \in G
              /\ j[p.next[g]] = j[g] + 1
              /\ p.prev[p.next[g]] = g
  <2>1. CASE g = f
    <3>1. p.next[g] = t.used /\ t.used \in Frames \ F /\ k[t.used] = 0
      BY <1>3, <1>10, <2>1 DEF Listing
    <3>2. t.used # t.next[f]
      BY <1>1, <1>4, <3>1 DEF Listing
    <3> QED
      BY <1>1, <1>3, <1>4, <1>7, <2>1, <3>1, <3>2
  <2>2. CASE g # f
    <3>1. /\ p.next[g] = t.next[g] /\ t.next[g] \in Frames
          /\ t.next[g] \in F <=> g \in F
          /\ k[t.next[g]] = k[g] + 1 /\ t.prev[t.next[g]] = g
      BY <1>3, <1>4, <1>10, <2>2 DEF Listing
    <3>2. t.next[g] # f /\ t.next[g] # t.used /\ t.next[g] # t.next[f]
      BY <1>1, <1>4, <2>2, <3>1 DEF Listing
    <3> QED
      BY <1>1, <1>3, <1>4, <1>5, <1>7, <2>2, <3>1, <3>2
  <2> QED
    BY <2>1, <2>2
<1>11. ASSUME NEW g \in Frames
       PROVE  IF j[g] = 0 THEN p.prev[g] = NULL ELSE p.prev[g] # NULL /\ p.next[p.prev[g]] = g
  <2>1. CASE g = f
    <3>1. t.prev[f] = NULL /\ j[f] = 0 /\ f # t.used
      BY <1>1, <1>4, <1>7 DEF Listing
    <3> QED
      BY <1>1, <1>3, <2>1, <3>1
  <2>2. CASE g = t.next[f]
    <3>1. g \in F /\ k[g] = 1 /\ g # f
      BY <1>1, <1>4, <2>2 DEF Listing
    <3> QED
      BY <1>3, <1>7, <2>2, <3>1
  <2>3. CASE g = t.used /\ g # t.next[f] /\ g # f
    <3>1. g \notin F /\ k[g] = 0
      BY <1>4, <2>3 DEF Listing
    <3> QED
      BY <1>1, <1>3, <1>4, <1>7, <2>3, <3>1
  <2>4. CASE g # t.used /\ g # t.next[f] /\ g # f
    <3>1. k[g] # 0
      BY <1>1, <1>4, <2>4 DEF Listing
    <3>2. t.prev[g] \in Frames /\ t.next[t.prev[g]] = g
      BY <1>4, <3>1 DEF Listing
    <3>3. t.prev[g] # f
      BY <2>4, <3>2
    <3>4. j[g] # 0
      <4>1. CASE g \in F
        <5>1. k[t.prev[g]] + 1 = k[g] /\ t.prev[g] \in F
          BY <1>4, <3>2, <4>1 DEF Listing
        <5>2. k[t.prev[g]] >= 1
          BY <1>5, <3>3, <5>1
        <5> QED
          BY <1>4, <1>7, <2>4, <3>2, <4>1, <5>1, <5>2
      <4>2. CASE g \notin F
        BY <1>4, <1>7, <2>4, <4>2
      <4> QED
        BY <4>1, <4>2
    <3> QED
      BY <1>3, <1>4, <2>4, <3>2, <3>3, <3>4
  <2> QED
    BY <2>1, <2>2, <2>3, <2>4
<1>12. IF G = {} THEN p.free = NULL ELSE p.free \in G /\ j[p.free] = 0
  <2>1. CASE t.next[f] = NULL
    <3>1. ASSUME NEW g \in G PROVE FALSE
      <4> DEFINE T == {k[h] : h \in G}
      <4>1. T \subseteq Nat /\ T # {}
        BY <1>4, <1>7
      <4>2. PICK h \in G : \A x \in G : k[h] <= k[x]
        <5>1. PICK y \in T : \A x \in T : y <= x
          BY <4>1, Least
        <5> QED
          BY <5>1
      <4>3. h \in F /\ h # f /\ h \in Frames /\ k[h] >= 1
        BY <1>5, <1>7
      <4>4. t.prev[h] \in Frames /\ t.next[t.prev[h]] = h
        BY <1>4, <4>3 DEF Listing
      <4>5. t.prev[h] \in F /\ k[h] = k[t.prev[h]] + 1
        BY <1>4, <4>3, <4>4 DEF Listing
      <4>6. t.prev[h] # f
        BY <1>4, <2>1, <4>3, <4>4
      <4>7. t.prev[h] \in G
        BY <1>7, <4>4, <4>5, <4>6
      <4> QED
        BY <1>4, <4>2, <4>4, <4>5, <4>7
    <3> QED
      BY <1>3, <2>1, <3>1
  <2>2. CASE t.next[f] # NULL
    <3>1. t.next[f] \in Frames /\ t.next[f] \in F /\ k[t.next[f]] = 1
      BY <1>1, <1>4, <2>2 DEF Listing
    <3>2. t.next[f] # f
      BY <1>1, <3>1
    <3> QED
      BY <1>3, <1>7, <3>1, <3>2
  <2> QED
    BY <2>1, <2>2
<1>13. IF G = Frames THEN p.used = NULL ELSE p.used \in Frames \ G /\ j[p.used] = 0
  BY <1>1, <1>3, <1>7
<1>14. Listing(p, G, n - 1, j)
  BY <1>6, <1>8, <1>9, <1>10, <1>11, <1>12, <1>13 DEF Listing
<1> QED
  BY <1>1, <1>2, <1>3, <1>7, <1>14 DEF Lists, f, p, G

\* and pg_push() puts one there that is not, wherever in the other list it is.
LEMMA PushLists ==
  ASSUME NEW t \in PageState, NEW F, Lists(t, F), NEW f \in Frames, f \notin F
  PROVE  pg_push(t, f) \in PageState /\ Lists(pg_push(t, f), F \cup {f})
<1> DEFINE p == pg_push(t, f)
           G == F \cup {f}
<1> PICK n, k : Listing(t, F, n, k) /\ n = Cardinality(F)
  BY DEF Lists
<1> DEFINE j == [g \in Frames |-> IF g = f THEN 0 ELSE IF g \in F THEN k[g] + 1
                                 ELSE IF k[g] > k[f] THEN k[g] - 1 ELSE k[g]]
<1>1. F \subseteq Frames
  BY DEF Lists
<1>2. /\ n \in 0 .. num_pgs - 1 /\ num_pgs \in Nat /\ Cardinality(G) = n + 1
  <2>1. IsFiniteSet(F) /\ n \in 0 .. num_pgs /\ n # num_pgs
    BY <1>1, FramesFinite
  <2>2. Cardinality(G) = n + 1
    BY <2>1, FS_AddElement
  <2> QED
    BY <2>1, <2>2, Memory
<1>3. /\ p \in PageState /\ p.free = f
      /\ p.used = IF t.prev[f] = NULL THEN t.next[f] ELSE t.used
      /\ \A g \in Frames : p.next[g] = IF g = f THEN t.free
                                         ELSE IF g = t.prev[f] THEN t.next[f] ELSE t.next[g]
      /\ \A g \in Frames : p.prev[g] = IF g = f THEN NULL ELSE IF g = t.free THEN f
                                         ELSE IF g = t.next[f] THEN t.prev[f] ELSE t.prev[g]
  BY PushFields
<1> HIDE DEF p
<1>4. /\ \A g \in Frames : k[g] \in Nat
      /\ \A g \in Frames : t.next[g] \in Frames \cup {NULL} /\ t.prev[g] \in Frames \cup {NULL}
      /\ NULL \notin Frames
  BY Memory DEF Listing, PageState, FrameOrNull
<1>5. \A g \in Frames : g \notin F /\ k[g] = k[f] => g = f
  BY DEF Listing
<1>6. j \in [Frames -> Nat]
  BY <1>4
<1>7. /\ \A g \in Frames : j[g] = IF g = f THEN 0 ELSE IF g \in F THEN k[g] + 1
                                   ELSE IF k[g] > k[f] THEN k[g] - 1 ELSE k[g]
      /\ \A g \in Frames : g \in G <=> g \in F \/ g = f
      /\ G \subseteq Frames /\ G # {}
  BY <1>1
<1> HIDE DEF j, G
<1>8. \A g \in Frames : j[g] < IF g \in G THEN n + 1 ELSE num_pgs - (n + 1)
  BY <1>1, <1>2, <1>4, <1>5, <1>7 DEF Listing
<1>9. \A g, h \in Frames : (g \in G <=> h \in G) /\ j[g] = j[h] => g = h
  BY <1>1, <1>4, <1>5, <1>7 DEF Listing
\* The neighbours of f.
<1>10. /\ t.next[f] # NULL => /\ t.next[f] \in Frames \ F /\ k[t.next[f]] = k[f] + 1
                             /\ t.prev[t.next[f]] = f
       /\ t.prev[f] # NULL => /\ t.prev[f] \in Frames \ F /\ k[f] = k[t.prev[f]] + 1
                             /\ t.next[t.prev[f]] = f
       /\ t.prev[f] = NULL <=> k[f] = 0
  BY <1>4 DEF Listing
<1>11. t.free = NULL \/ (t.free \in F /\ k[t.free] = 0)
  BY DEF Listing
<1>12. ASSUME NEW g \in Frames, p.next[g] # NULL
       PROVE  /\ p.next[g] \in G <=> g \in G
              /\ j[p.next[g]] = j[g] + 1
              /\ p.prev[p.next[g]] = g
  <2>1. CASE g = f
    <3>1. p.next[g] = t.free /\ t.free \in F /\ k[t.free] = 0
      BY <1>3, <1>11, <1>12, <2>1
    <3> QED
      BY <1>1, <1>3, <1>4, <1>7, <2>1, <3>1
  <2>2. CASE g # f /\ g = t.prev[f]
    <3>1. /\ p.next[g] = t.next[f] /\ t.next[f] \in Frames \ F /\ k[t.next[f]] = k[f] + 1
          /\ g \in Frames \ F /\ k[f] = k[g] + 1
      BY <1>3, <1>4, <1>10, <1>12, <2>2
    <3>2. t.next[f] # f /\ t.next[f] # t.free /\ k[g] \in Nat /\ k[f] \in Nat
      BY <1>4, <1>11, <3>1
    <3>3. j[t.next[f]] = k[f] /\ j[g] = k[g]
      BY <1>7, <2>2, <3>1, <3>2
    <3> QED
      BY <1>3, <1>7, <2>2, <3>1, <3>2, <3>3
  <2>3. CASE g # f /\ g # t.prev[f]
    <3>1. /\ p.next[g] = t.next[g] /\ t.next[g] \in Frames
          /\ t.next[g] \in F <=> g \in F
          /\ k[t.next[g]] = k[g] + 1 /\ t.prev[t.next[g]] = g
      BY <1>3, <1>4, <1>12, <2>3 DEF Listing
    <3>2. k[g] \in Nat /\ k[f] \in Nat /\ t.next[g] # f
      BY <1>4, <2>3, <3>1
    <3>3. t.next[g] # t.free /\ t.next[g] # t.next[f]
      BY <1>4, <1>10, <1>11, <2>3, <3>1, <3>2
    <3>4. j[t.next[g]] = j[g] + 1
      <4>1. CASE g \in F
        BY <1>7, <2>3, <3>1, <3>2, <4>1
      <4>2. CASE g \notin F
        <5>1. k[g] # k[f] /\ k[t.next[g]] # k[f]
          BY <1>5, <2>3, <3>1, <3>2, <4>2
        <5> QED
          BY <1>7, <2>3, <3>1, <3>2, <4>2, <5>1
      <4> QED
        BY <4>1, <4>2
    <3> QED
      BY <1>3, <1>7, <2>3, <3>1, <3>2, <3>3, <3>4
  <2> QED
    BY <2>1, <2>2, <2>3
<1>13. ASSUME NEW g \in Frames
       PROVE  IF j[g] = 0 THEN p.prev[g] = NULL ELSE p.prev[g] # NULL /\ p.next[p.prev[g]] = g
  <2>1. CASE g = f
    BY <1>3, <1>7, <2>1
  <2>2. CASE g # f /\ g = t.free
    <3>1. g \in F /\ k[g] = 0
      BY <1>4, <1>11, <2>2
    <3> QED
      BY <1>3, <1>4, <1>7, <2>2, <3>1
  <2>3. CASE g # f /\ g # t.free /\ g = t.next[f]
    <3>1. g \in Frames \ F /\ k[g] = k[f] + 1 /\ j[g] = k[f] /\ p.prev[g] = t.prev[f]
      BY <1>3, <1>4, <1>7, <1>10, <2>3
    <3>2. CASE t.prev[f] = NULL
      BY <1>10, <3>1, <3>2
    <3>3. CASE t.prev[f] # NULL
      <4>1. t.prev[f] \in Frames /\ t.prev[f] # f /\ k[f] # 0
        BY <1>4, <1>10, <3>3
      <4> QED
        BY <1>3, <1>4, <2>3, <3>1, <3>3, <4>1
    <3> QED
      BY <3>2, <3>3
  <2>4. CASE g # f /\ g # t.free /\ g # t.next[f]
    <3>1. p.prev[g] = t.prev[g]
      BY <1>3, <2>4
    <3>2. CASE k[g] = 0
      <4>1. g \notin F
        BY <1>1, <1>4, <2>4, <3>2 DEF Listing
      <4>2. j[g] = 0
        BY <1>4, <1>7, <2>4, <3>2, <4>1
      <4>3. t.prev[g] = NULL
        BY <3>2 DEF Listing
      <4> QED
        BY <3>1, <4>2, <4>3
    <3>3. CASE k[g] # 0
      <4>1. t.prev[g] \in Frames /\ t.next[t.prev[g]] = g
        BY <1>4, <3>3 DEF Listing
      <4>2. t.prev[g] # f /\ t.prev[g] # t.prev[f]
        BY <1>4, <1>10, <2>4, <4>1
      <4>3. p.next[t.prev[g]] = g
        BY <1>3, <4>1, <4>2
      <4>4. j[g] # 0
        <5>1. CASE g \in F
          BY <1>4, <1>7, <2>4, <5>1
        <5>2. CASE g \notin F /\ k[g] > k[f]
          <6>1. k[t.prev[g]] + 1 = k[g] /\ t.prev[g] \notin F
            BY <1>1, <1>4, <4>1, <5>2 DEF Listing
          <6>2. k[t.prev[g]] # k[f]
            BY <1>5, <4>1, <4>2, <6>1
          <6>3. k[g] >= k[f] + 2 /\ k[f] \in Nat
            BY <1>4, <4>1, <5>2, <6>1, <6>2
          <6> QED
            BY <1>4, <1>7, <2>4, <5>2, <6>3
        <5>3. CASE g \notin F /\ ~(k[g] > k[f])
          BY <1>4, <1>7, <2>4, <3>3, <5>3
        <5> QED
          BY <5>1, <5>2, <5>3
      <4> QED
        BY <1>4, <3>1, <4>1, <4>3, <4>4
    <3> QED
      BY <3>2, <3>3
  <2> QED
    BY <2>1, <2>2, <2>3, <2>4
<1>14. IF G = {} THEN p.free = NULL ELSE p.free \in G /\ j[p.free] = 0
  BY <1>3, <1>7
<1>15. IF G = Frames THEN p.used = NULL ELSE p.used \in Frames \ G /\ j[p.used] = 0
  <2>1. CASE t.prev[f] # NULL
    <3>1. t.prev[f] \in Frames \ F /\ t.prev[f] # f /\ k[f] > 0
      BY <1>4, <1>10, <2>1
    <3>2. p.used = t.used /\ t.used \in Frames \ F /\ k[t.used] = 0
      BY <1>3, <2>1, <3>1 DEF Listing
    <3> QED
      BY <1>4, <1>7, <3>1, <3>2
  <2>2. CASE t.prev[f] = NULL /\ t.next[f] # NULL
    <3>1. k[f] = 0 /\ t.next[f] \in Frames \ F /\ k[t.next[f]] = 1 /\ p.used = t.next[f] /\ t.next[f] # f
      BY <1>3, <1>4, <1>10, <2>2
    <3> QED
      BY <1>7, <3>1
  <2>3. CASE t.prev[f] = NULL /\ t.next[f] = NULL
    <3>1. p.used = NULL
      BY <1>3, <2>3
    <3>2. ASSUME NEW g \in Frames, g \notin G PROVE FALSE
      <4> DEFINE T == {k[h] : h \in Frames \ G}
      <4>1. T \subseteq Nat /\ T # {}
        BY <1>4, <3>2
      <4>2. PICK h \in Frames \ G : \A x \in Frames \ G : k[h] <= k[x]
        <5>1. PICK y \in T : \A x \in T : y <= x
          BY <4>1, Least
        <5> QED
          BY <5>1
      <4>3. h \notin F /\ h # f /\ h \in Frames /\ k[f] = 0 /\ k[h] # 0
        BY <1>5, <1>7, <1>10, <2>3, <4>2
      <4>4. t.prev[h] \in Frames /\ t.next[t.prev[h]] = h
        BY <1>4, <4>3 DEF Listing
      <4>5. t.prev[h] \notin F /\ k[h] = k[t.prev[h]] + 1
        BY <1>1, <1>4, <4>3, <4>4 DEF Listing
      <4>6. t.prev[h] # f
        BY <1>4, <2>3, <4>3, <4>4
      <4>7. t.prev[h] \in Frames \ G
        BY <1>7, <4>4, <4>5, <4>6
      <4> QED
        BY <1>4, <4>2, <4>4, <4>5, <4>7
    <3> QED
      BY <1>7, <3>1, <3>2
  <2> QED
    BY <2>1, <2>2, <2>3
<1>16. Listing(p, G, n + 1, j)
  BY <1>6, <1>8, <1>9, <1>12, <1>13, <1>14, <1>15 DEF Listing
<1> QED
  BY <1>2, <1>3, <1>7, <1>16 DEF Lists, p, G

\* What Listed() finds: the free pages in one list and the others in the other.
LEMMA ListedFrom ==
  ASSUME NEW t \in PageState, NEW S, S \subseteq Frames, NEW k \in [Frames -> Nat],
         NEW head \in FrameOrNull,
         head # NULL => head \in S,
         \A f \in S : k[f] < num_pgs,
         \A f \in S : t.next[f] # NULL => t.next[f] \in S,
         \A f \in S : IF k[f] = 0 THEN f = head
                      ELSE \E g \in S : t.next[g] = f /\ k[f] = k[g] + 1
  PROVE  Listed(t, head) = S
<1> DEFINE n == [f \in Frames \cup {NULL} |-> IF f = NULL THEN NULL ELSE t.next[f]]
           l[i \in 0 .. num_pgs] == IF i = 0 THEN head ELSE n[l[i - 1]]
           P == [x \in (1 .. num_pgs) \X FrameOrNull |-> n[x[2]]]
<1>1. Listed(t, head) = {l[i] : i \in 0 .. num_pgs} \ {NULL}
  BY DEF Listed
<1>2. /\ n \in [FrameOrNull -> FrameOrNull] /\ NULL \notin Frames /\ num_pgs \in Nat
      /\ n[NULL] = NULL /\ \A f \in Frames : n[f] = t.next[f]
  BY Memory DEF FrameOrNull, PageState
<1> HIDE DEF n
<1>3. l = [i \in 0 .. num_pgs |-> IF i = 0 THEN head ELSE n[l[i - 1]]]
  <2>1. P \in [(1 .. num_pgs) \X FrameOrNull -> FrameOrNull]
    BY <1>2
  <2> HIDE DEF P
  <2>2. PICK f \in [0 .. num_pgs -> FrameOrNull] : Turns(num_pgs, head, P, f)
    BY <1>2, <2>1, LoopExists
  <2>3. f = [i \in 0 .. num_pgs |-> IF i = 0 THEN head ELSE n[f[i - 1]]]
    <3>1. \A i \in 0 .. num_pgs : i # 0 => P[<<i, f[i - 1]>>] = n[f[i - 1]]
      BY <1>2 DEF P
    <3>2. \A i \in 0 .. num_pgs : f[i] = IF i = 0 THEN head ELSE n[f[i - 1]]
      BY <2>2, <3>1 DEF Turns
    <3> QED
      BY <3>2
  <2> QED
    BY <2>3 DEF l
<1> HIDE DEF l, P
<1>4. l[0] = head /\ \A i \in 1 .. num_pgs : l[i] = n[l[i - 1]]
  BY <1>2, <1>3
<1>5. \A i \in 0 .. num_pgs : l[i] \in S \cup {NULL}
  <2> DEFINE A == {i \in 0 .. num_pgs : l[i] \in S \cup {NULL}}
  <2>1. 0 \in A
    BY <1>2, <1>4
  <2>2. ASSUME NEW i \in 0 .. num_pgs - 1, i \in A PROVE i + 1 \in A
    <3>1. i + 1 \in 1 .. num_pgs /\ l[i + 1] = n[l[i]] /\ l[i] \in S \cup {NULL}
      BY <1>2, <1>4, <2>2
    <3>2. CASE l[i] = NULL
      BY <1>2, <3>1, <3>2
    <3>3. CASE l[i] # NULL
      BY <1>2, <3>1, <3>3
    <3> QED
      BY <3>2, <3>3
  <2> HIDE DEF A
  <2>3. \A i \in 0 .. num_pgs : i \in A
    BY <1>2, <2>1, <2>2, UpTo
  <2> QED
    BY <2>3 DEF A
<1>6. \A f \in S : l[k[f]] = f
  <2> DEFINE A == {i \in 0 .. num_pgs : \A f \in S : k[f] = i => l[i] = f}
  <2>1. 0 \in A
    BY <1>2, <1>4
  <2>2. ASSUME NEW i \in 0 .. num_pgs - 1, i \in A PROVE i + 1 \in A
    <3>1. i + 1 \in 1 .. num_pgs /\ l[i + 1] = n[l[i]]
      BY <1>2, <1>4
    <3>2. ASSUME NEW f \in S, k[f] = i + 1 PROVE l[i + 1] = f
      <4>1. PICK g \in S : t.next[g] = f /\ k[f] = k[g] + 1
        BY <3>1, <3>2
      <4>2. k[g] = i /\ g \in Frames
        BY <3>2, <4>1
      <4>3. l[i] = g
        BY <2>2, <4>2
      <4> QED
        BY <1>2, <3>1, <4>1, <4>2, <4>3
    <3> QED
      BY <3>1, <3>2
  <2> HIDE DEF A
  <2>3. \A i \in 0 .. num_pgs : i \in A
    BY <1>2, <2>1, <2>2, UpTo
  <2>4. \A f \in S : k[f] \in 0 .. num_pgs
    BY <1>2
  <2> QED
    BY <2>3, <2>4 DEF A
<1>7. \A f \in S : k[f] \in 0 .. num_pgs /\ f # NULL
  BY <1>2
<1>8. {l[i] : i \in 0 .. num_pgs} \ {NULL} \subseteq S
  BY <1>5
<1>9. S \subseteq {l[i] : i \in 0 .. num_pgs} \ {NULL}
  BY <1>6, <1>7
<1> QED
  BY <1>1, <1>8, <1>9

\* In two lists, pg_push() and pg_pop() find the free pages in one, all others in the other.
LEMMA ListedBoth ==
  ASSUME NEW t \in PageState, NEW F, Lists(t, F)
  PROVE  Listed(t, t.free) = F /\ Listed(t, t.used) = Frames \ F
<1> PICK n, k : Listing(t, F, n, k) /\ n = Cardinality(F) /\ F \subseteq Frames
  BY DEF Lists
<1>1. n \in 0 .. num_pgs /\ num_pgs \in Nat /\ (n = 0 <=> F = {}) /\ (n = num_pgs <=> F = Frames)
  BY FramesFinite, Memory
<1>2. /\ k \in [Frames -> Nat] /\ NULL \notin Frames
      /\ t.free \in FrameOrNull /\ t.used \in FrameOrNull
      /\ \A g \in Frames : t.next[g] \in Frames \cup {NULL} /\ t.prev[g] \in Frames \cup {NULL}
  BY Memory DEF Listing, PageState, FrameOrNull
<1>3. /\ \A f \in Frames : k[f] < num_pgs
      /\ \A f \in Frames : t.next[f] # NULL => t.next[f] \in Frames /\ (t.next[f] \in F <=> f \in F)
      /\ \A f \in Frames : k[f] # 0 => /\ t.prev[f] \in Frames /\ t.next[t.prev[f]] = f
                                       /\ k[f] = k[t.prev[f]] + 1 /\ (t.prev[f] \in F <=> f \in F)
  BY <1>1, <1>2 DEF Listing
<1>4. /\ \A f \in F : k[f] = 0 => f = t.free
      /\ \A f \in Frames \ F : k[f] = 0 => f = t.used
      /\ t.free # NULL => t.free \in F
      /\ t.used # NULL => t.used \in Frames \ F
  BY <1>1, <1>2 DEF Listing
<1>5. Listed(t, t.free) = F
  BY <1>2, <1>3, <1>4, ListedFrom
<1>6. Listed(t, t.used) = Frames \ F
  <2> DEFINE S == Frames \ F
  <2>1. /\ S \subseteq Frames /\ (t.used # NULL => t.used \in S)
        /\ \A f \in S : k[f] < num_pgs
        /\ \A f \in S : t.next[f] # NULL => t.next[f] \in S
        /\ \A f \in S : IF k[f] = 0 THEN f = t.used
                         ELSE \E g \in S : t.next[g] = f /\ k[f] = k[g] + 1
    BY <1>3, <1>4
  <2> HIDE DEF S
  <2>2. Listed(t, t.used) = S
    BY <1>2, <2>1, ListedFrom
  <2> QED
    BY <2>2 DEF S
<1> QED
  BY <1>5, <1>6

\* ListsPartition, then.
LEMMA ListsGiveParts ==
  ASSUME mm \in PageState, NEW F, Lists(mm, F)
  PROVE  ListsPartition
<1>1. Listed(mm, mm.free) = F /\ Listed(mm, mm.used) = Frames \ F /\ F \subseteq Frames
  BY ListedBoth DEF Lists
<1> PICK n, k : Listing(mm, F, n, k)
  BY DEF Lists
<1>2. /\ \A f \in Frames : k[f] \in Nat
      /\ NULL \notin Frames
      /\ \A g \in Frames : mm.next[g] \in Frames \cup {NULL} /\ mm.prev[g] \in Frames \cup {NULL}
  BY Memory DEF Listing, PageState, FrameOrNull
<1>3. ASSUME NEW f \in Frames
      PROVE  /\ mm.next[f] # NULL => mm.prev[mm.next[f]] = f
             /\ mm.prev[f] = NULL <=> f \in {mm.free, mm.used}
  <2>1. mm.prev[f] = NULL <=> k[f] = 0
    BY DEF Listing
  <2>2. k[f] = 0 <=> f \in {mm.free, mm.used}
    BY <1>1, <1>2 DEF Listing
  <2> QED
    BY <2>1, <2>2 DEF Listing
<1> QED
  BY <1>1, <1>3 DEF ListsPartition

-----------------------------------------------------------------------------
(* Where a page goes. *)

\* As many numbers as there are different values in a set.
LEMMA CountedBy ==
  ASSUME NEW n \in Nat, NEW S, IsFiniteSet(S), NEW P \in [0 .. n - 1 -> S],
         \A i, j \in 0 .. n - 1 : P[i] = P[j] => i = j
  PROVE  n <= Cardinality(S)
<1>1. P \in Injection(0 .. n - 1, S)
  BY DEF Injection, IsInjective
<1>2. Cardinality(0 .. n - 1) <= Cardinality(S)
  BY <1>1, FS_Injection
<1> QED
  BY <1>2, FromZero

\* The next address that pg_next_addr() tries is a number.
LEMMA StepInt ==
  ASSUME NEW x \in Int, NEW up \in BOOLEAN
  PROVE  NextLin(x, up) \in Int
<1>1. x \div PTES \in Int /\ x % PTES \in Int
  BY Memory
<1> PICK d \in Int, e \in Int : d = x \div PTES /\ e = x % PTES
  BY <1>1
<1>2. /\ d * PTES \in Int /\ (d + 1) * PTES \in Int /\ (d - 1) * PTES \in Int
      /\ (e + 1) % PTES \in Int /\ (e - 1) % PTES \in Int
  BY Memory
<1> QED
  BY <1>2, Memory DEF NextLin

\* pg_next_addr() as a loop over a function, one turn for each address taken.
LEMMA AddrLoop ==
  ASSUME NEW S, IsFiniteSet(S), NEW start \in Int, NEW up \in BOOLEAN
  PROVE  \E l : /\ l[0] = start
                /\ \A i \in 1 .. Cardinality(S) :
                     l[i] = IF l[i - 1] \in S THEN NextLin(l[i - 1], up) ELSE l[i - 1]
                /\ pg_next_addr(S, start, up) = l[Cardinality(S)]
<1> DEFINE n == Cardinality(S)
           Look(x) == IF x \in S THEN NextLin(x, up) ELSE x
           G == [t \in (1 .. n) \X Int |-> Look(t[2])]
           l[k \in 0 .. n] ==
             IF k = 0 THEN start
             ELSE LET lin == l[k - 1] IN IF lin \in S THEN NextLin(lin, up) ELSE lin
<1>1. pg_next_addr(S, start, up) = l[n]
  BY DEF pg_next_addr
<1>2. n \in Nat
  BY FS_CardinalityType
<1> HIDE DEF n
<1>3. G \in [(1 .. n) \X Int -> Int]
  BY StepInt
<1>4. PICK f \in [0 .. n -> Int] : Turns(n, start, G, f)
  <2> HIDE DEF G
  <2> QED
    BY <1>2, <1>3, LoopExists
<1>5. f = [k \in 0 .. n |-> IF k = 0 THEN start ELSE Look(f[k - 1])]
  <2>1. \A k \in 0 .. n : k # 0 => G[<<k, f[k - 1]>>] = Look(f[k - 1])
    BY <1>2
  <2> HIDE DEF G
  <2>2. \A k \in 0 .. n : f[k] = IF k = 0 THEN start ELSE Look(f[k - 1])
    BY <1>4, <2>1 DEF Turns
  <2> HIDE DEF Look
  <2> QED
    BY <2>2
<1>6. l = [k \in 0 .. n |-> IF k = 0 THEN start ELSE Look(l[k - 1])]
  BY <1>5 DEF l, Look
<1> HIDE DEF l, G
<1>7. l[0] = start /\ \A k \in 1 .. n : l[k] = Look(l[k - 1])
  BY <1>2, <1>6
<1> QED
  BY <1>1, <1>7 DEF n, Look

\* The steps from P[0] lead through different addresses.
Course(P, n, up) ==
  /\ P \in [0 .. n -> Int]
  /\ \A i, j \in 0 .. n : P[i] = P[j] => i = j
  /\ \A i \in 0 .. n - 1 : NextLin(P[i], up) = P[i + 1]

\* pg_next_addr() takes the first of them that is not mapped.
LEMMA NextFree ==
  ASSUME NEW S, IsFiniteSet(S), NEW up \in BOOLEAN, NEW n \in Nat, NEW P,
         Course(P, n, up), \E i \in 0 .. n : P[i] \notin S
  PROVE  \E i \in 0 .. n : P[i] \notin S /\ pg_next_addr(S, P[0], up) = P[i]
<1> DEFINE start == P[0]
<1>p. /\ P \in [0 .. n -> Int]
      /\ \A i, j \in 0 .. n : P[i] = P[j] => i = j
      /\ \A i \in 0 .. n - 1 : NextLin(P[i], up) = P[i + 1]
  BY DEF Course
<1> USE <1>p
<1> DEFINE T == {i \in 0 .. n : P[i] \notin S}
<1>1. PICK i \in T : \A j \in T : i <= j
  <2>1. T \subseteq Nat
    OBVIOUS
  <2>2. T # {}
    OBVIOUS
  <2> HIDE DEF T
  <2> QED
    BY <2>1, <2>2, Least
<1>2. i \in 0 .. n /\ P[i] \notin S /\ \A j \in 0 .. i - 1 : P[j] \in S
  <2>1. ASSUME NEW j \in 0 .. i - 1, P[j] \notin S PROVE FALSE
    <3>1. j \in T /\ j < i
      BY <1>1, <2>1
    <3> QED
      BY <1>1, <3>1
  <2> QED
    BY <1>1, <2>1
<1> DEFINE c == Cardinality(S)
<1>c. c \in Nat
  BY FS_CardinalityType
<1>3. i <= c
  <2> DEFINE Q == [j \in 0 .. i - 1 |-> P[j]]
  <2>1. Q \in [0 .. i - 1 -> S] /\ \A j, k \in 0 .. i - 1 : Q[j] = Q[k] => j = k
    BY <1>2
  <2>2. i \in Nat
    BY <1>2
  <2> HIDE DEF Q
  <2>3. i <= Cardinality(S)
    BY <2>1, <2>2, CountedBy
  <2> QED
    BY <2>3
<1>4. start \in Int /\ start = P[0]
  OBVIOUS
<1> HIDE DEF T, start
<1>5. PICK l : /\ l[0] = start
               /\ \A k \in 1 .. c : l[k] = IF l[k - 1] \in S THEN NextLin(l[k - 1], up) ELSE l[k - 1]
               /\ pg_next_addr(S, start, up) = l[c]
  BY <1>4, AddrLoop
<1> HIDE DEF c
<1> USE <1>c, <1>4
<1> DEFINE A == {k \in 0 .. c : l[k] = P[IF k <= i THEN k ELSE i]}
<1>6. 0 \in A
  BY <1>2, <1>5
<1>7. ASSUME NEW k \in 0 .. c - 1, k \in A PROVE k + 1 \in A
  <2>1. k + 1 \in 1 .. c /\ l[k + 1] = IF l[k] \in S THEN NextLin(l[k], up) ELSE l[k]
    BY <1>5
  <2>2. CASE k < i
    <3>1. l[k] = P[k] /\ P[k] \in S /\ k \in 0 .. n - 1
      BY <1>2, <1>7, <2>2
    <3> QED
      BY <1>2, <2>1, <2>2, <3>1
  <2>3. CASE ~(k < i)
    <3>1. l[k] = P[i]
      BY <1>2, <1>7, <2>3
    <3> QED
      BY <1>2, <2>1, <2>3, <3>1
  <2> QED
    BY <2>2, <2>3
<1> HIDE DEF A
<1>8. \A k \in 0 .. c : k \in A
  BY <1>6, <1>7, UpTo
<1>9. l[c] = P[i]
  <2>1. c \in 0 .. c
    OBVIOUS
  <2>2. l[c] = P[IF c <= i THEN c ELSE i]
    BY <1>8, <2>1 DEF A
  <2>3. c = i \/ ~(c <= i)
    BY <1>2, <1>3
  <2> QED
    BY <2>2, <2>3
<1> QED
  BY <1>2, <1>5, <1>9

\* An address that is not taken is the one that pg_next_addr() returns.
LEMMA FirstAddr ==
  ASSUME NEW S, IsFiniteSet(S), NEW up \in BOOLEAN, NEW start \in Int, start \notin S
  PROVE  pg_next_addr(S, start, up) = start
<1> DEFINE P == [i \in 0 .. 0 |-> start]
<1>1. P[0] = start /\ \E i \in 0 .. 0 : P[i] \notin S
  OBVIOUS
<1>2. Course(P, 0, up)
  BY DEF Course
<1> HIDE DEF P
<1>3. \A i \in 0 .. 0 : P[i] = start
  BY <1>1
<1> PICK n \in Nat : n = 0
  OBVIOUS
<1>4. Course(P, n, up) /\ \E i \in 0 .. n : P[i] \notin S
  BY <1>1, <1>2
<1>5. \E i \in 0 .. n : P[i] \notin S /\ pg_next_addr(S, P[0], up) = P[i]
  BY <1>4, NextFree
<1> QED
  BY <1>1, <1>3, <1>5

\* The tables of a region have QUARTER * PTES pages.
LEMMA TablesApart ==
  ASSUME NEW d \in Int, NEW b \in Int, NEW e \in 0 .. PTES - 1, NEW c \in 0 .. PTES - 1
  PROVE  /\ d * PTES + e \in Int
         /\ d < b => d * PTES + e < b * PTES
         /\ d * PTES + e = b * PTES + c => d = b /\ e = c
<1> PICK p \in Nat : p = PTES /\ p >= 3
  BY Memory
<1>1. d * p \in Int /\ b * p \in Int
  OBVIOUS
<1>2. \A x, y \in Int : x < y => x * p + p <= y * p
  <2> SUFFICES ASSUME NEW x \in Int, NEW y \in Int, x < y PROVE x * p + p <= y * p
    OBVIOUS
  <2>1. PICK z \in Nat : y = x + 1 + z
    <3>1. y - x - 1 \in Nat /\ y = x + 1 + (y - x - 1)
      OBVIOUS
    <3> QED
      BY <3>1
  <2>2. y * p = x * p + p + z * p
    BY <2>1
  <2>3. z * p \in Nat /\ x * p \in Int
    OBVIOUS
  <2> HIDE <2>1
  <2> QED
    BY <2>2, <2>3
<1>3. d < b => d * p + p <= b * p
  BY <1>2
<1>4. b < d => b * p + p <= d * p
  BY <1>2
<1>5. e \in 0 .. p - 1 /\ c \in 0 .. p - 1
  OBVIOUS
<1>6. d * p + e \in Int /\ (d < b => d * p + e < b * p)
  BY <1>1, <1>3, <1>5
<1>7. d * p + e = b * p + c => d = b /\ e = c
  <2>1. d < b => d * p + e # b * p + c
    BY <1>1, <1>3, <1>5
  <2>2. b < d => d * p + e # b * p + c
    BY <1>1, <1>4, <1>5
  <2>3. d = b => d * p = b * p
    OBVIOUS
  <2> QED
    BY <1>1, <1>5, <2>1, <2>2, <2>3
<1> QED
  BY <1>6, <1>7

\* The step from page x, in entry e of table d, downwards.
LEMMA StackStep ==
  ASSUME NEW x \in Nat
  PROVE  NextLin(x, FALSE) = x - 1
<1>1. PICK d \in Nat, e \in 0 .. PTES - 1 : x = d * PTES + e
  BY Sizing, TableAndEntry
<1>2. x \div PTES = d /\ x % PTES = e
  BY <1>1, Sizing, InTable
<1>3. (d - 1) * PTES = d * PTES - PTES /\ d * PTES \in Nat
  BY Memory
<1>4. CASE e = 0
  BY <1>1, <1>2, <1>3, <1>4, Memory DEF NextLin
<1>5. CASE e # 0
  <2>1. (e - 1) % PTES = e - 1
    BY <1>5, Memory
  <2> QED
    BY <1>1, <1>2, <1>3, <1>5, <2>1, Memory DEF NextLin
<1> QED
  BY <1>4, <1>5

\* A stack, downwards from the end of the tables before q.
LEMMA StackAddr ==
  ASSUME NEW S, IsFiniteSet(S), NEW q \in Nat, q >= QUARTER,
         Cardinality(S \cap Pages(q - QUARTER .. q - 1)) < MaxGrow
  PROVE  \E d \in q - QUARTER .. q - 1, e \in Ptes :
           pg_next_addr(S, q * PTES - 1, FALSE) = d * PTES + e /\ d * PTES + e \notin S
<1> PICK n \in Nat : n = QUARTER * PTES - 1 /\ n + 1 = QUARTER * PTES /\ n + 1 >= MaxGrow
  <2>1. QUARTER * PTES \in Nat /\ QUARTER * PTES >= 1 /\ MaxGrow <= QUARTER * PTES
    BY Memory, PagingAssumption
  <2> QED
    BY <2>1
<1> DEFINE top == q * PTES - 1
           P == [i \in 0 .. n |-> top - i]
           D == q - QUARTER .. q - 1
           R == S \cap Pages(D)
<1>1. q * PTES \in Nat /\ n + 1 <= q * PTES /\ (q - QUARTER) * PTES = q * PTES - (n + 1)
  <2>1. PICK r \in Nat : q = QUARTER + r
    <3>1. q - QUARTER \in Nat /\ q = QUARTER + (q - QUARTER)
      BY Memory
    <3> QED
      BY <3>1
  <2>2. q * PTES = QUARTER * PTES + r * PTES /\ r * PTES \in Nat /\ q - QUARTER = r
    BY <2>1, Memory
  <2> HIDE <2>1
  <2> QED
    BY <2>2, Memory
<1>2. top \in Nat /\ top - n \in Nat /\ top - n = (q - QUARTER) * PTES
  BY <1>1
<1> HIDE DEF top
<1>3. \A i \in 0 .. n : top - i \in Nat /\ (i < n => NextLin(top - i, FALSE) = top - (i + 1))
  <2> SUFFICES ASSUME NEW i \in 0 .. n
               PROVE  top - i \in Nat /\ (i < n => NextLin(top - i, FALSE) = top - (i + 1))
    OBVIOUS
  <2>1. top - i \in Nat
    BY <1>2
  <2> PICK y \in Nat : y = top - i
    BY <2>1
  <2>2. NextLin(y, FALSE) = y - 1
    BY StackStep
  <2>3. y - 1 = top - (i + 1)
    BY <1>2
  <2> QED
    BY <2>1, <2>2, <2>3
<1>4. \A i \in 0 .. n : \E d \in D, e \in Ptes : top - i = d * PTES + e
  <2> SUFFICES ASSUME NEW i \in 0 .. n PROVE \E d \in D, e \in Ptes : top - i = d * PTES + e
    OBVIOUS
  <2>1. PICK d \in Nat, e \in 0 .. PTES - 1 : top - i = d * PTES + e
    BY <1>3, Sizing, TableAndEntry
  <2>2. 0 \in 0 .. PTES - 1
    BY Memory
  <2>3. d < q
    <3>1. CASE q <= d
      <4>1. q = d \/ q * PTES + 0 < d * PTES
        BY <2>2, <3>1, TablesApart
      <4>2. q * PTES <= d * PTES
        BY <1>1, <4>1, Memory
      <4>3. d * PTES \in Nat
        BY Memory
      <4> QED
        BY <1>1, <2>1, <4>2, <4>3 DEF top
    <3> QED
      BY <3>1
  <2>4. q - QUARTER <= d
    <3>1. CASE d < q - QUARTER
      <4>1. q - QUARTER \in Int
        BY Memory
      <4>2. d * PTES + e < (q - QUARTER) * PTES
        BY <2>2, <3>1, <4>1, TablesApart
      <4> QED
        BY <1>2, <2>1, <4>2
    <3> QED
      BY <3>1, Memory
  <2> QED
    <3>1. d \in D /\ e \in Ptes
      BY <2>3, <2>4, Memory DEF Ptes
    <3> QED
      BY <2>1, <3>1
<1>5. \E i \in 0 .. n : top - i \notin S
  <2>1. SUFFICES ASSUME \A i \in 0 .. n : top - i \in S PROVE FALSE
    OBVIOUS
  <2> DEFINE Q == [i \in 0 .. (n + 1) - 1 |-> top - i]
  <2>2. \A i \in 0 .. n : top - i \in R
    BY <1>4, <2>1 DEF Pages
  <2>3. Q \in [0 .. (n + 1) - 1 -> R] /\ \A i, j \in 0 .. (n + 1) - 1 : Q[i] = Q[j] => i = j
    BY <1>2, <2>2
  <2>4. IsFiniteSet(R)
    BY FS_Subset
  <2> HIDE DEF Q, R
  <2>5. n + 1 <= Cardinality(R)
    BY <2>3, <2>4, CountedBy
  <2>6. Cardinality(R) \in Nat
    BY <2>4, FS_CardinalityType
  <2> QED
    BY <2>5, <2>6, Memory DEF R
<1>6. P \in [0 .. n -> Int] /\ P[0] = top /\ (\A i \in 0 .. n : P[i] = top - i)
      /\ (\A i, j \in 0 .. n : P[i] = P[j] => i = j)
  BY <1>2
<1>7. \A i \in 0 .. n - 1 : NextLin(P[i], FALSE) = P[i + 1]
  <2> SUFFICES ASSUME NEW i \in 0 .. n - 1 PROVE NextLin(P[i], FALSE) = P[i + 1]
    OBVIOUS
  <2>1. i \in 0 .. n /\ i + 1 \in 0 .. n /\ i < n
    OBVIOUS
  <2>2. P[i] = top - i /\ P[i + 1] = top - (i + 1)
    BY <1>6, <2>1
  <2> QED
    BY <1>3, <2>1, <2>2
<1>8. \E i \in 0 .. n : P[i] \notin S
  BY <1>5, <1>6
<1>c. Course(P, n, FALSE)
  BY <1>6, <1>7, Zenon DEF Course
<1> HIDE DEF P
<1> PICK up \in BOOLEAN : up = FALSE
  OBVIOUS
<1>d. Course(P, n, up)
  BY <1>c
<1>e. \E i \in 0 .. n : P[i] \notin S /\ pg_next_addr(S, P[0], up) = P[i]
  BY <1>d, <1>8, NextFree
<1>9. PICK i \in 0 .. n : P[i] \notin S /\ pg_next_addr(S, top, FALSE) = P[i]
  BY <1>e, <1>6
<1>10. PICK d \in D, e \in Ptes : top - i = d * PTES + e
  BY <1>4
<1> QED
  BY <1>6, <1>9, <1>10, ZenonT(60) DEF top

\* The j-th page after the first table's, where the kernel heap goes on: two of each table.
Pair(j) == (j \div 2) * PTES + (j % 2)

\* A number is twice another, or one more.
LEMMA TwoByTwo ==
  ASSUME NEW j \in Nat
  PROVE  \E d \in Nat, b \in 0 .. 1 : j = 2 * d + b /\ j \div 2 = d /\ j % 2 = b
<1>1. j \div 2 \in Nat /\ j % 2 \in 0 .. 1 /\ j = 2 * (j \div 2) + (j % 2)
  OBVIOUS
<1> QED
  BY <1>1

\* The addresses that pg_next_addr() tries going up: two in each table, then the next table.
LEMMA Pairs ==
  /\ \A d \in Nat, b \in 0 .. 1 : Pair(2 * d + b) = d * PTES + b
  /\ \A j \in Nat : \E d \in Nat, b \in 0 .. 1 : j = 2 * d + b /\ Pair(j) = d * PTES + b
  /\ \A j \in Nat : Pair(j) \in Nat /\ Step(Pair(j)) = Pair(j + 1)
  /\ \A i, j \in Nat : Pair(i) = Pair(j) => i = j
  /\ \A j \in Nat : j >= 2 => Pair(j) >= PTES
  /\ Pair(0) = 0 /\ Pair(1) = 1
<1>1. ASSUME NEW d \in Nat, NEW b \in 0 .. 1 PROVE Pair(2 * d + b) = d * PTES + b
  <2>1. (2 * d + b) \div 2 = d /\ (2 * d + b) % 2 = b
    OBVIOUS
  <2> QED
    BY <2>1 DEF Pair
<1>2. ASSUME NEW j \in Nat
      PROVE  \E d \in Nat, b \in 0 .. 1 : j = 2 * d + b /\ Pair(j) = d * PTES + b
  BY TwoByTwo DEF Pair
<1>3. ASSUME NEW j \in Nat PROVE Pair(j) \in Nat /\ Step(Pair(j)) = Pair(j + 1)
  <2>1. PICK d \in Nat, b \in 0 .. 1 : j = 2 * d + b /\ Pair(j) = d * PTES + b
    BY <1>2
  <2>2. d * PTES + b \in Nat /\ b \in 0 .. PTES - 1
    BY Sizing
  <2> PICK x \in Nat : x = d * PTES + b
    BY <2>2
  <2>3. Step(x) = IF b = 1 THEN (d + 1) * PTES ELSE d * PTES + ((b + 1) % PTES)
    BY <2>2, HeapStep
  <2>4. CASE b = 1
    <3>1. j + 1 = 2 * (d + 1) + 0 /\ d + 1 \in Nat
      BY <2>1, <2>4
    <3>2. Pair(2 * (d + 1) + 0) = (d + 1) * PTES + 0
      <4> PICK c \in Nat, z \in 0 .. 1 : c = d + 1 /\ z = 0
        OBVIOUS
      <4>1. Pair(2 * c + z) = c * PTES + z
        BY <1>1
      <4> QED
        BY <4>1
    <3>3. (d + 1) * PTES \in Nat
      BY Sizing
    <3> QED
      BY <2>1, <2>2, <2>3, <2>4, <3>1, <3>2, <3>3
  <2>5. CASE b = 0
    <3>1. j + 1 = 2 * d + 1
      BY <2>1, <2>5
    <3>2. Pair(2 * d + 1) = d * PTES + 1
      <4> PICK z \in 0 .. 1 : z = 1
        OBVIOUS
      <4>1. Pair(2 * d + z) = d * PTES + z
        BY <1>1
      <4> QED
        BY <4>1
    <3>3. (b + 1) % PTES = 1 /\ b # 1
      BY <2>5, Sizing
    <3> QED
      BY <2>1, <2>2, <2>3, <2>5, <3>1, <3>2, <3>3
  <2> QED
    BY <2>4, <2>5
<1>4. ASSUME NEW i \in Nat, NEW j \in Nat, Pair(i) = Pair(j) PROVE i = j
  <2>1. PICK d \in Nat, b \in 0 .. 1 : i = 2 * d + b /\ Pair(i) = d * PTES + b
    BY <1>2
  <2>2. PICK e \in Nat, c \in 0 .. 1 : j = 2 * e + c /\ Pair(j) = e * PTES + c
    BY <1>2
  <2>3. b \in 0 .. PTES - 1 /\ c \in 0 .. PTES - 1
    BY Sizing
  <2>4. d = e /\ b = c
    BY <1>4, <2>1, <2>2, <2>3, TablesApart
  <2> QED
    BY <2>1, <2>2, <2>4
<1>5. ASSUME NEW j \in Nat, j >= 2 PROVE Pair(j) >= PTES
  <2>1. PICK d \in Nat, b \in 0 .. 1 : j = 2 * d + b /\ Pair(j) = d * PTES + b
    BY <1>2
  <2>2. PICK z \in Nat : d = 1 + z
    <3>1. d - 1 \in Nat /\ d = 1 + (d - 1)
      BY <1>5, <2>1
    <3> QED
      BY <3>1
  <2>3. d * PTES = PTES + z * PTES /\ z * PTES \in Nat
    BY <2>2, Sizing
  <2> QED
    BY <2>1, <2>3, Sizing
<1>6. Pair(0) = 0 /\ Pair(1) = 1
  <2> PICK d \in Nat, z \in 0 .. 1, o \in 0 .. 1 : d = 0 /\ z = 0 /\ o = 1
    OBVIOUS
  <2>1. Pair(2 * d + z) = d * PTES + z /\ Pair(2 * d + o) = d * PTES + o
    BY <1>1
  <2>2. d * PTES = 0
    BY Sizing
  <2> QED
    BY <2>1, <2>2
<1> QED
  BY <1>1, <1>2, <1>3, <1>4, <1>5, <1>6

\* The kernel heap: the rest of the first table, then two pages of every table.
LEMMA HeapCourse ==
  ASSUME NEW S, IsFiniteSet(S), 0 .. sys_pgs - 1 \subseteq S,
         Cardinality(S \cap Pages(0 .. QUARTER - 1)) < sys_pgs + MaxGrow
  PROVE  \E n \in Nat : \E P \in [0 .. n -> Int] :
           /\ Course(P, n, TRUE) /\ P[0] = KernelHeap
           /\ \E i \in 0 .. n : P[i] \notin S
           /\ \A i \in 0 .. n : \E d \in 0 .. QUARTER - 1, e \in Ptes : P[i] = d * PTES + e
<1>0. KernelHeap = sys_pgs
  BY DEF KernelHeap
<1> PICK a \in Nat, q \in Nat, n \in Nat :
      /\ a = PTES - sys_pgs /\ a >= 1 /\ q = 2 * QUARTER /\ q >= 2 /\ n = a + q - 1
  BY Memory
<1> DEFINE P == [i \in 0 .. n |-> IF i < a THEN sys_pgs + i ELSE Pair(i - a)]
           D == 0 .. QUARTER - 1
           R == S \cap Pages(D)
<1>1. /\ \A i \in 0 .. n : i < a => P[i] = sys_pgs + i /\ P[i] \in 2 .. PTES - 1
      /\ \A i \in 0 .. n : ~(i < a) => P[i] = Pair(i - a) /\ i - a \in Nat
      /\ P[0] = sys_pgs
  BY Memory
<1>2. \A j \in 0 .. q - 1 : \E d \in D, b \in 0 .. 1 : Pair(j) = d * PTES + b
  <2> SUFFICES ASSUME NEW j \in 0 .. q - 1 PROVE \E d \in D, b \in 0 .. 1 : Pair(j) = d * PTES + b
    OBVIOUS
  <2>0. j \in Nat
    OBVIOUS
  <2>1. PICK d \in Nat, b \in 0 .. 1 : j = 2 * d + b /\ Pair(j) = d * PTES + b
    BY <2>0, Pairs
  <2>2. d \in D
    BY <2>1, Memory
  <2> QED
    BY <2>1, <2>2
<1>3. \A x \in 0 .. PTES - 1 : \E d \in D, e \in Ptes : x = d * PTES + e
  <2> SUFFICES ASSUME NEW x \in 0 .. PTES - 1 PROVE \E d \in D, e \in Ptes : x = d * PTES + e
    OBVIOUS
  <2>1. PICK d \in D : d = 0
    BY Memory
  <2>2. x = d * PTES + x
    BY <2>1, Memory
  <2>3. x \in Ptes
    BY DEF Ptes
  <2> QED
    BY <2>2, <2>3
<1>4. \A j \in 0 .. q - 1 : \E d \in D, e \in Ptes : Pair(j) = d * PTES + e
  <2>1. 0 .. 1 \subseteq Ptes
    BY Memory DEF Ptes
  <2> QED
    BY <1>2, <2>1
<1>5. \A i \in 0 .. n : \E d \in D, e \in Ptes : P[i] = d * PTES + e
  <2> SUFFICES ASSUME NEW i \in 0 .. n PROVE \E d \in D, e \in Ptes : P[i] = d * PTES + e
    OBVIOUS
  <2>1. CASE i < a
    <3>1. P[i] \in 0 .. PTES - 1
      BY <1>1, <2>1
    <3> QED
      BY <1>3, <3>1
  <2>2. CASE ~(i < a)
    <3>1. i - a \in 0 .. q - 1
      BY <2>2
    <3> QED
      BY <1>1, <1>4, <2>2, <3>1
  <2> QED
    BY <2>1, <2>2
<1>6. ASSUME NEW i \in 0 .. n, NEW j \in 0 .. n, P[i] = P[j] PROVE i = j
  <2>1. ASSUME NEW x \in 0 .. n, NEW y \in 0 .. n, x < a, ~(y < a) PROVE P[x] # P[y]
    <3>1. P[x] \in 2 .. PTES - 1 /\ P[y] = Pair(y - a) /\ y - a \in Nat
      BY <1>1, <2>1
    <3>2. y - a = 0 \/ y - a = 1 \/ y - a >= 2
      BY <3>1, SMTT(30)
    <3>3. P[y] = 0 \/ P[y] = 1 \/ (P[y] >= PTES /\ P[y] \in Nat)
      BY <3>1, <3>2, Pairs, ZenonT(60)
    <3> QED
      BY <3>1, <3>3, Memory
  <2>2. CASE i < a /\ j < a
    BY <1>1, <1>6, <2>2, Memory
  <2>3. CASE ~(i < a) /\ ~(j < a)
    <3>1. i - a = j - a
      BY <1>1, <1>6, <2>3, Pairs
    <3> QED
      BY <3>1
  <2> QED
    BY <1>6, <2>1, <2>2, <2>3
<1>7. ASSUME NEW i \in 0 .. n - 1 PROVE Step(P[i]) = P[i + 1]
  <2>1. CASE i + 1 < a
    <3>1. P[i] = sys_pgs + i /\ P[i + 1] = sys_pgs + (i + 1) /\ P[i] \in 2 .. PTES - 2
      BY <1>1, <2>1, Memory
    <3>2. Step(P[i]) = P[i] + 1
      BY <3>1, FirstSteps
    <3> QED
      BY <3>1, <3>2, Memory
  <2>2. CASE i + 1 = a
    <3>1. P[i] = PTES - 1 /\ P[i + 1] = Pair(0)
      <4>1. i < a /\ ~(i + 1 < a) /\ i + 1 - a = 0 /\ i + 1 \in 0 .. n
        BY <2>2, SMTT(30)
      <4> HIDE DEF P
      <4> QED
        BY <1>1, <2>2, <4>1, Memory
    <3> QED
      BY <3>1, FirstSteps, Pairs
  <2>3. CASE i >= a
    <3>1. P[i] = Pair(i - a) /\ P[i + 1] = Pair(i + 1 - a) /\ i - a \in Nat /\ i + 1 - a = (i - a) + 1
      BY <1>1, <2>3, SMTT(30)
    <3> PICK x \in Nat : x = i - a
      BY <3>1
    <3>2. Step(Pair(x)) = Pair(x + 1)
      BY Pairs
    <3> QED
      BY <3>1, <3>2
  <2> QED
    BY <2>1, <2>2, <2>3, SMTT(30)
<1>8. \E i \in 0 .. n : P[i] \notin S
  <2> SUFFICES ASSUME \A i \in 0 .. n : P[i] \in S PROVE FALSE
    OBVIOUS
  <2> PICK m \in Nat : m = PTES - 2 + q
    BY Memory
  <2> DEFINE Q == [j \in 0 .. m - 1 |-> IF j < PTES - 2 THEN j + 2 ELSE Pair(j - (PTES - 2))]
  <2>1. \A x \in 2 .. PTES - 1 : x \in S
    <3> SUFFICES ASSUME NEW x \in 2 .. PTES - 1 PROVE x \in S
      OBVIOUS
    <3>1. CASE x < sys_pgs
      BY <3>1, Memory
    <3>2. CASE sys_pgs <= x
      <4>1. x - sys_pgs \in 0 .. n /\ x - sys_pgs < a /\ sys_pgs + (x - sys_pgs) = x
        BY <3>2, Memory
      <4> QED
        BY <1>1, <4>1
    <3> QED
      BY <3>1, <3>2, Memory
  <2>2. \A j \in 0 .. q - 1 : Pair(j) \in S
    <3> SUFFICES ASSUME NEW j \in 0 .. q - 1 PROVE Pair(j) \in S
      OBVIOUS
    <3>1. a + j \in 0 .. n /\ ~(a + j < a) /\ a + j - a = j
      OBVIOUS
    <3> QED
      BY <1>1, <3>1, SMTT(30)
  <2>3. /\ \A x \in 2 .. PTES - 1 : x \in R
        /\ \A j \in 0 .. q - 1 : Pair(j) \in R
    <3>1. \A x \in 2 .. PTES - 1 : x \in Pages(D)
      <4> SUFFICES ASSUME NEW x \in 2 .. PTES - 1 PROVE x \in Pages(D)
        OBVIOUS
      <4>1. x \in 0 .. PTES - 1
        OBVIOUS
      <4> HIDE DEF D
      <4>2. \E d \in D, e \in Ptes : x = d * PTES + e
        BY <1>3, <4>1
      <4> QED
        BY <4>2 DEF Pages
    <3>2. \A j \in 0 .. q - 1 : Pair(j) \in Pages(D)
      <4> HIDE DEF D
      <4> QED
        BY <1>4 DEF Pages
    <3> QED
      BY <2>1, <2>2, <3>1, <3>2
  <2>4. /\ \A j \in 0 .. m - 1 : j < PTES - 2 => Q[j] = j + 2 /\ Q[j] \in 2 .. PTES - 1
        /\ \A j \in 0 .. m - 1 : ~(j < PTES - 2) => /\ Q[j] = Pair(j - (PTES - 2))
                                                    /\ j - (PTES - 2) \in 0 .. q - 1
    BY Memory
  <2>5. Q \in [0 .. m - 1 -> R]
    <3>1. \A j \in 0 .. m - 1 : Q[j] \in R
      <4> HIDE DEF Q, R
      <4> QED
        BY <2>3, <2>4
    <3> QED
      BY <3>1
  <2>6. ASSUME NEW i \in 0 .. m - 1, NEW j \in 0 .. m - 1, Q[i] = Q[j] PROVE i = j
    <3>1. ASSUME NEW x \in 0 .. m - 1, NEW y \in 0 .. m - 1, x < PTES - 2, ~(y < PTES - 2)
          PROVE  Q[x] # Q[y]
      <4>1. Q[x] \in 2 .. PTES - 1 /\ Q[y] = Pair(y - (PTES - 2)) /\ y - (PTES - 2) \in Nat
        BY <2>4, <3>1, Memory
      <4>2. y - (PTES - 2) = 0 \/ y - (PTES - 2) = 1 \/ y - (PTES - 2) >= 2
        BY <4>1, SMTT(30)
      <4>3. Q[y] = 0 \/ Q[y] = 1 \/ (Q[y] >= PTES /\ Q[y] \in Nat)
        BY <4>1, <4>2, Pairs, ZenonT(60)
      <4> QED
        BY <4>1, <4>3, Memory
    <3>2. CASE i < PTES - 2 /\ j < PTES - 2
      BY <2>4, <2>6, <3>2, Memory
    <3>3. CASE ~(i < PTES - 2) /\ ~(j < PTES - 2)
      <4> PICK x \in Nat, y \in Nat : x = i - (PTES - 2) /\ y = j - (PTES - 2)
        BY <2>4, <3>3, SMTT(30)
      <4>1. Pair(x) = Pair(y)
        BY <2>4, <2>6, <3>3
      <4>2. x = y
        BY <4>1, Pairs
      <4> QED
        BY <4>2, Memory
    <3> QED
      BY <2>6, <3>1, <3>2, <3>3
  <2>7. IsFiniteSet(R)
    BY FS_Subset
  <2> HIDE DEF Q, R
  <2>8. m <= Cardinality(R)
    BY <2>5, <2>6, <2>7, CountedBy
  <2>9. Cardinality(R) \in Nat /\ sys_pgs + MaxGrow <= m /\ Cardinality(R) < sys_pgs + MaxGrow
    BY <2>7, FS_CardinalityType, PagingAssumption DEF R
  <2> QED
    BY <2>8, <2>9, Memory
<1>9. Course(P, n, TRUE)
  <2>1. P \in [0 .. n -> Int]
    BY <1>1, Pairs, Memory
  <2>2. \A i \in 0 .. n - 1 : NextLin(P[i], TRUE) = P[i + 1]
    BY <1>7 DEF Step
  <2> HIDE DEF P
  <2> QED
    BY <1>6, <2>1, <2>2, Zenon DEF Course
<1>10. P \in [0 .. n -> Int]
  BY <1>9 DEF Course
<1>11. P[0] = KernelHeap
  BY <1>0, <1>1
<1> HIDE DEF P
<1> QED
  BY <1>5, <1>8, <1>9, <1>10, <1>11

\* While the kernel heap is below its bound, pg_next_addr() finds a page for it under the quarter.
LEMMA HeapAddr ==
  ASSUME NEW S, IsFiniteSet(S), 0 .. sys_pgs - 1 \subseteq S,
         Cardinality(S \cap Pages(0 .. QUARTER - 1)) < sys_pgs + MaxGrow
  PROVE  \E d \in 0 .. QUARTER - 1, e \in Ptes :
           pg_next_addr(S, KernelHeap, TRUE) = d * PTES + e /\ d * PTES + e \notin S
<1>1. PICK n \in Nat : \E P \in [0 .. n -> Int] :
        /\ Course(P, n, TRUE) /\ P[0] = KernelHeap
        /\ \E i \in 0 .. n : P[i] \notin S
        /\ \A i \in 0 .. n : \E d \in 0 .. QUARTER - 1, e \in Ptes : P[i] = d * PTES + e
  BY HeapCourse
<1>p. PICK P \in [0 .. n -> Int] :
        /\ Course(P, n, TRUE) /\ P[0] = KernelHeap
        /\ \E i \in 0 .. n : P[i] \notin S
        /\ \A i \in 0 .. n : \E d \in 0 .. QUARTER - 1, e \in Ptes : P[i] = d * PTES + e
  BY <1>1
<1>2. ASSUME NEW up \in BOOLEAN, Course(P, n, up)
      PROVE  \E i \in 0 .. n : P[i] \notin S /\ pg_next_addr(S, P[0], up) = P[i]
  <2>1. \E i \in 0 .. n : P[i] \notin S
    BY <1>p
  <2> QED
    BY <1>2, <2>1, NextFree
<1>3. \E i \in 0 .. n : P[i] \notin S /\ pg_next_addr(S, P[0], TRUE) = P[i]
  BY <1>p, <1>2
<1> QED
  BY <1>p, <1>3

-----------------------------------------------------------------------------
(* pg_map(), field by field.                                                 *)

\* An address as the entry of a table.
LEMMA AtEntry ==
  ASSUME NEW d \in Pdes, NEW e \in Ptes
  PROVE  /\ d * PTES + e \in Nat
         /\ (d * PTES + e) \div PTES = d /\ (d * PTES + e) % PTES = e
<1>1. d \in Nat /\ e \in 0 .. PTES - 1 /\ PTES \in Nat /\ PTES >= 3
  BY Memory DEF Pdes, Ptes
<1>2. (d * PTES + e) \div PTES = d /\ (d * PTES + e) % PTES = e
  BY <1>1, InTable
<1> QED
  BY <1>1, <1>2

\* An address has one table entry.
LEMMA SameAddress ==
  ASSUME NEW d \in Pdes, NEW e \in Ptes, NEW b \in Pdes, NEW c \in Ptes,
         d * PTES + e = b * PTES + c
  PROVE  d = b /\ e = c
BY AtEntry

\* The lists are in four of the fields.
LEMMA SameLists ==
  ASSUME NEW t, NEW u, u.free = t.free, u.used = t.used, u.next = t.next, u.prev = t.prev,
         NEW F, Lists(t, F)
  PROVE  Lists(u, F)
BY DEF Lists, Listing

\* A cleared page has no entry.
LEMMA BlankType == Blank \in [Entries -> FrameOrNull] /\ \A e \in Entries : Blank[e] = NULL
BY DEF Blank, FrameOrNull

SetEntry(t, g, e, f) == [t EXCEPT !.mem[g][e] = f]
SetTable(t, g, d, f) == [t EXCEPT !.mem = [@ EXCEPT ![g][d] = f, ![f] = Blank]]

\* u is t with other contents of the pages.
SameButMem(t, u) ==
  /\ u \in PageState
  /\ u.free = t.free /\ u.used = t.used /\ u.next = t.next /\ u.prev = t.prev
  /\ u.cr3 = t.cr3 /\ u.spoiled = t.spoiled

EntrySet(t, u, g, e, f) ==
  \A h \in Frames, x \in Entries : u.mem[h][x] = IF h = g /\ x = e THEN f ELSE t.mem[h][x]

TableSet(t, u, g, d, f) ==
  \A h \in Frames, x \in Entries :
    u.mem[h][x] = IF h = f THEN NULL ELSE IF h = g /\ x = d THEN f ELSE t.mem[h][x]

\* An entry of a page.
LEMMA SetFields ==
  ASSUME NEW t \in PageState, NEW g \in Frames, NEW e \in Entries, NEW f \in FrameOrNull
  PROVE  SameButMem(t, SetEntry(t, g, e, f)) /\ EntrySet(t, SetEntry(t, g, e, f), g, e, f)
<1> DEFINE m == [t.mem EXCEPT ![g][e] = f]
<1> PICK u : u = SetEntry(t, g, e, f)
  OBVIOUS
<1>1. u = [t EXCEPT !.mem = m]
  BY DEF SetEntry
<1>2. m \in [Frames -> [Entries -> FrameOrNull]]
  BY DEF PageState
<1>3. \A h \in Frames, x \in Entries : m[h][x] = IF h = g /\ x = e THEN f ELSE t.mem[h][x]
  BY DEF PageState
<1> HIDE DEF m
<1>4. SameButMem(t, u) /\ u.mem = m
  BY <1>1, <1>2 DEF PageState, SameButMem
<1> QED
  BY <1>3, <1>4 DEF EntrySet

\* A new table, in page f.
LEMMA TableFields ==
  ASSUME NEW t \in PageState, NEW g \in Frames, NEW d \in Entries, NEW f \in Frames, f # g
  PROVE  SameButMem(t, SetTable(t, g, d, f)) /\ TableSet(t, SetTable(t, g, d, f), g, d, f)
<1> DEFINE m == [t.mem EXCEPT ![g][d] = f, ![f] = Blank]
<1> PICK u : u = SetTable(t, g, d, f)
  OBVIOUS
<1>1. u = [t EXCEPT !.mem = m]
  BY DEF SetTable
<1>2. m \in [Frames -> [Entries -> FrameOrNull]]
  BY BlankType DEF PageState, FrameOrNull
<1>3. \A h \in Frames, x \in Entries :
        m[h][x] = IF h = f THEN NULL ELSE IF h = g /\ x = d THEN f ELSE t.mem[h][x]
  BY BlankType DEF PageState
<1> HIDE DEF m
<1>4. SameButMem(t, u) /\ u.mem = m
  BY <1>1, <1>2, SMTT(30) DEF PageState, SameButMem
<1> QED
  BY <1>3, <1>4 DEF TableSet

\* A page has an entry for each of the two indices of an address.
LEMMA EntriesOf == Pdes \subseteq Entries /\ Ptes \subseteq Entries
BY DEF Entries

\* Where pg_map() puts the entry: in dir's table d, or in a new one.
TableFor(t, dir, d) == IF t.mem[dir][d] = NULL THEN t.free ELSE t.mem[dir][d]

MapSet(t, u, dir, d, e, f) ==
  \A h \in Frames, x \in Entries :
    u.mem[h][x] = IF h = TableFor(t, dir, d)
                  THEN IF x = e THEN f ELSE IF t.mem[dir][d] = NULL THEN NULL ELSE t.mem[h][x]
                  ELSE IF h = dir /\ x = d THEN TableFor(t, dir, d) ELSE t.mem[h][x]

\* What pg_map() leaves of the free pages F.
LeftOf(t, F, dir, d) == IF t.mem[dir][d] = NULL THEN F \ {t.free} ELSE F

Mapping(t, F, u, dir, d, e, f) ==
  /\ u \in PageState /\ u.cr3 = t.cr3 /\ u.spoiled = t.spoiled
  /\ Lists(u, LeftOf(t, F, dir, d)) /\ MapSet(t, u, dir, d, e, f)
  /\ TableFor(t, dir, d) \in Frames /\ (t.mem[dir][d] = NULL => t.free \in F)

\* pg_map() sets one entry, and takes a page for the table if there is none.
LEMMA MapFields ==
  ASSUME NEW t \in PageState, NEW F, Lists(t, F), NEW dir \in Frames,
         NEW d \in Pdes, NEW e \in Ptes, NEW f \in FrameOrNull,
         t.mem[dir][d] = NULL => F # {},
         TableFor(t, dir, d) # dir
  PROVE  Mapping(t, F, pg_map(t, dir, f, d * PTES + e), dir, d, e, f)
<1> PICK u : u = pg_map(t, dir, f, d * PTES + e)
  OBVIOUS
<1>1. d \in Entries /\ e \in Entries /\ t.mem[dir][d] \in FrameOrNull
  BY EntriesOf DEF PageState
<1> PICK w : w = IF t.mem[dir][d] # NULL THEN t
                 ELSE [pg_pop(t) EXCEPT !.mem = [@ EXCEPT ![dir][d] = pg_pop(t).used,
                                                          ![pg_pop(t).used] = Blank]]
  BY Zenon
<1>2. u = [w EXCEPT !.mem[w.mem[dir][d]][e] = f]
  <2>1. (d * PTES + e) \div PTES = d /\ (d * PTES + e) % PTES = e
    BY AtEntry
  <2> QED
    BY <2>1, Zenon DEF pg_map
<1>3. CASE t.mem[dir][d] # NULL
  <2>1. w = t /\ TableFor(t, dir, d) = t.mem[dir][d] /\ t.mem[dir][d] \in Frames
    BY <1>1, <1>3, SMTT(30) DEF TableFor, FrameOrNull
  <2> PICK g \in Frames : g = t.mem[dir][d]
    BY <2>1, SMTT(30)
  <2>2. u = SetEntry(t, g, e, f)
    BY <1>2, <2>1, Zenon DEF SetEntry
  <2>3. SameButMem(t, SetEntry(t, g, e, f)) /\ EntrySet(t, SetEntry(t, g, e, f), g, e, f)
    BY <1>1, SetFields
  <2>4. SameButMem(t, u) /\ EntrySet(t, u, g, e, f)
    BY <2>2, <2>3
  <2>5. Lists(u, F)
    BY <2>4, SameLists DEF SameButMem
  <2>6. MapSet(t, u, dir, d, e, f)
    BY <1>3, <2>1, <2>4 DEF MapSet, EntrySet
  <2> QED
    BY <1>3, <2>1, <2>4, <2>5, <2>6, SMTT(30) DEF Mapping, SameButMem, LeftOf
<1>4. CASE t.mem[dir][d] = NULL
  <2>1. t.free \in F /\ pg_pop(t) \in PageState /\ Lists(pg_pop(t), F \ {t.free}) /\ F \subseteq Frames
    BY <1>4, PopLists DEF Lists
  <2>2. t.free \in Frames /\ TableFor(t, dir, d) = t.free /\ t.free # dir
    BY <1>4, <2>1 DEF TableFor
  <2>3. /\ pg_pop(t).used = t.free /\ pg_pop(t).mem = t.mem
        /\ pg_pop(t).cr3 = t.cr3 /\ pg_pop(t).spoiled = t.spoiled
    BY <2>2, PopFields
  <2> PICK p \in PageState, g \in Frames : p = pg_pop(t) /\ g = t.free
    BY <2>1, <2>2
  <2>4. w = SetTable(p, dir, d, g)
    BY <1>4, <2>3 DEF SetTable
  <2>5. SameButMem(p, SetTable(p, dir, d, g)) /\ TableSet(p, SetTable(p, dir, d, g), dir, d, g)
    BY <1>1, <2>2, TableFields
  <2>6. SameButMem(p, w) /\ TableSet(p, w, dir, d, g) /\ w \in PageState
    BY <2>4, <2>5, SMTT(30) DEF SameButMem
  <2>7. w.mem[dir][d] = g
    BY <1>1, <2>2, <2>6, SMTT(30) DEF TableSet
  <2>8. u = SetEntry(w, g, e, f)
    BY <1>2, <2>7, Zenon DEF SetEntry
  <2>9. SameButMem(w, SetEntry(w, g, e, f)) /\ EntrySet(w, SetEntry(w, g, e, f), g, e, f)
    BY <1>1, <2>6, SetFields
  <2>10. SameButMem(w, u) /\ EntrySet(w, u, g, e, f)
    BY <2>8, <2>9
  <2>11. Lists(u, F \ {t.free})
    <3>1. /\ u.free = p.free /\ u.used = p.used /\ u.next = p.next /\ u.prev = p.prev
          /\ Lists(p, F \ {t.free})
      BY <2>1, <2>6, <2>10 DEF SameButMem
    <3> QED
      BY <3>1, SameLists
  <2>12. MapSet(t, u, dir, d, e, f)
    BY <1>4, <2>2, <2>3, <2>6, <2>10 DEF TableSet, EntrySet, MapSet
  <2> QED
    BY <1>4, <2>1, <2>2, <2>3, <2>6, <2>10, <2>11, <2>12 DEF Mapping, SameButMem, LeftOf
<1> QED
  BY <1>3, <1>4

-----------------------------------------------------------------------------
(* What each page is used for.                                               *)

AsFree         == <<0, IDLE_PID, 0, 0>>
AsSystem       == <<1, IDLE_PID, 0, 0>>
AsDir(p)       == <<2, p, 0, 0>>
AsTable(p, d)  == <<3, p, d, 0>>
AsPage(p, d, e) == <<4, p, d, e>>
AsHeap(d, e)   == <<5, IDLE_PID, d, e>>
AsTaken        == <<6, IDLE_PID, 0, 0>>   \* between pg_pop() and pg_map()

\* The entries of the kernel heap: not the system's in the first table.
HeapEntry(d, e) == d \in Pdes \ Private /\ e \in Ptes /\ ~(d = 0 /\ e < sys_pgs)

\* Process p has page f for table d, and in its entry e.
TableAt(t, p, d, f)   == t.cr3[p] # NULL /\ t.mem[t.cr3[p]][d] = f
PageAt(t, p, d, e, f) == /\ t.cr3[p] # NULL /\ t.mem[t.cr3[p]][d] # NULL
                         /\ t.mem[t.mem[t.cr3[p]][d]][e] = f

IsRole(r) ==
  \/ r = AsFree \/ r = AsSystem \/ r = AsTaken
  \/ \E p \in Tasks : r = AsDir(p)
  \/ \E p \in Tasks, d \in Pdes : r = AsTable(p, d)
  \/ \E p \in Tasks, d \in Private, e \in Ptes : r = AsPage(p, d, e)
  \/ \E d \in Pdes, e \in Ptes : HeapEntry(d, e) /\ r = AsHeap(d, e)

\* own[f] is the one use of page f.
OwnRoles(t, own)   == \A f \in Frames : IsRole(own[f])
OwnFree(F, own)    == \A f \in Frames : (own[f] = AsFree <=> f \in F)
OwnSystem(own)     == \A f \in Frames : (own[f] = AsSystem <=> f < sys_pgs)
OwnDirs(t, own)    == \A f \in Frames, p \in Tasks : (own[f] = AsDir(p) <=> t.cr3[p] = f)
OwnTables(t, own)  == \A f \in Frames, p \in Tasks, d \in Pdes :
                        (own[f] = AsTable(p, d) <=> TableAt(t, p, d, f))
OwnPages(t, own)   == \A f \in Frames, p \in Tasks, d \in Private, e \in Ptes :
                        (own[f] = AsPage(p, d, e) <=> PageAt(t, p, d, e, f))
OwnHeap(t, own)    == \A f \in Frames, d \in Pdes, e \in Ptes : HeapEntry(d, e) =>
                        (own[f] = AsHeap(d, e) <=> PageAt(t, IDLE_PID, d, e, f))
SharedHeap(t, own) == \A f \in Frames, p \in Tasks, d \in Pdes, e \in Ptes :
                        HeapEntry(d, e) /\ PageAt(t, p, d, e, f) => own[f] = AsHeap(d, e)
SystemAt(t)        == \A f \in Frames, p \in Tasks, e \in Ptes :
                        e < sys_pgs /\ PageAt(t, p, 0, e, f) => f = e

Owns(t, F, own) ==
  /\ OwnRoles(t, own) /\ OwnFree(F, own) /\ OwnSystem(own) /\ OwnDirs(t, own)
  /\ OwnTables(t, own) /\ OwnPages(t, own) /\ OwnHeap(t, own) /\ SharedHeap(t, own)
  /\ SystemAt(t)

Kind(r) == r[1]

\* Two uses are the same only for the same process, directory and table entry.
LEMMA RolesApart ==
  /\ Kind(AsFree) = 0 /\ Kind(AsSystem) = 1 /\ Kind(AsTaken) = 6
  /\ \A p : Kind(AsDir(p)) = 2
  /\ \A p, d : Kind(AsTable(p, d)) = 3
  /\ \A p, d, e : Kind(AsPage(p, d, e)) = 4
  /\ \A d, e : Kind(AsHeap(d, e)) = 5
  /\ \A p, q : AsDir(p) = AsDir(q) => p = q
  /\ \A p, d, q, b : AsTable(p, d) = AsTable(q, b) => p = q /\ d = b
  /\ \A p, d, e, q, b, c : AsPage(p, d, e) = AsPage(q, b, c) => p = q /\ d = b /\ e = c
  /\ \A d, e, b, c : AsHeap(d, e) = AsHeap(b, c) => d = b /\ e = c
BY DEF Kind, AsFree, AsSystem, AsTaken, AsDir, AsTable, AsPage, AsHeap

\* The private tables are tables, and the first one is shared.
LEMMA Regions == Private \subseteq Pdes /\ 0 \in Pdes \ Private
BY Memory DEF Private, Pdes

\* pg_map() changes one table and one entry, as the processes see them.
TableSeen(t, u, p, d, tbl) ==
  \A q \in Tasks, b \in Pdes, g \in Frames :
    TableAt(u, q, b, g) <=> TableAt(t, q, b, g) \/ (q = p /\ b = d /\ g = tbl)

PageSeen(t, u, p, d, e, f) ==
  \A q \in Tasks, b \in Pdes, c \in Ptes, g \in Frames :
    PageAt(u, q, b, c, g) <=> IF q = p /\ b = d /\ c = e THEN g = f ELSE PageAt(t, q, b, c, g)

\* pg_map() adds one page to one space, and a table to hold it if there was none.
LEMMA MapViews ==
  ASSUME NEW t \in PageState, NEW F, NEW own, Owns(t, F, own), NEW p \in Tasks, t.cr3[p] # NULL,
         NEW d \in Pdes, NEW e \in Ptes, NEW f \in Frames,
         NEW u, Mapping(t, F, u, t.cr3[p], d, e, f)
  PROVE  TableSeen(t, u, p, d, TableFor(t, t.cr3[p], d)) /\ PageSeen(t, u, p, d, e, f)
<1> SUFFICES ASSUME NEW q \in Tasks, NEW b \in Pdes, NEW g \in Frames
             PROVE  /\ TableAt(u, q, b, g) <=>
                         TableAt(t, q, b, g) \/ (q = p /\ b = d /\ g = TableFor(t, t.cr3[p], d))
                    /\ \A c \in Ptes : PageAt(u, q, b, c, g) <=>
                         IF q = p /\ b = d /\ c = e THEN g = f ELSE PageAt(t, q, b, c, g)
  BY DEF TableSeen, PageSeen
<1> DEFINE dir == t.cr3[p]
           tbl == TableFor(t, t.cr3[p], d)
           h   == t.cr3[q]
<1>1. /\ dir \in Frames /\ tbl \in Frames /\ u.cr3 = t.cr3 /\ MapSet(t, u, dir, d, e, f)
      /\ NULL \notin Frames /\ Pdes \subseteq Entries /\ Ptes \subseteq Entries
      /\ \A x \in Frames, y \in Entries : t.mem[x][y] \in Frames \cup {NULL}
      /\ h \in Frames \cup {NULL}
  BY Memory, EntriesOf DEF Mapping, PageState, FrameOrNull
<1>2. CASE h = NULL
  <2>1. ~TableAt(u, q, b, g) /\ ~TableAt(t, q, b, g) /\ q # p
    BY <1>1, <1>2 DEF TableAt
  <2>2. \A c \in Ptes : ~PageAt(u, q, b, c, g) /\ ~PageAt(t, q, b, c, g)
    BY <1>1, <1>2 DEF PageAt
  <2> QED
    BY <2>1, <2>2
<1>3. CASE h # NULL
  <2>1. h \in Frames /\ own[h] = AsDir(q) /\ own[dir] = AsDir(p) /\ (h = dir => q = p)
    BY <1>1, <1>3 DEF Owns, OwnDirs, AsDir
  <2>2. own[tbl] = AsFree \/ own[tbl] = AsTable(p, d)
    BY <1>1 DEF Owns, OwnFree, OwnTables, TableAt, Mapping, TableFor
  <2>3. tbl # h /\ tbl # dir
    BY <2>1, <2>2 DEF AsFree, AsTable, AsDir
  <2>4. \A y \in Entries : u.mem[h][y] = IF q = p /\ y = d THEN tbl ELSE t.mem[h][y]
    BY <1>1, <2>1, <2>3 DEF MapSet
  <2>5. TableAt(u, q, b, g) <=> (IF q = p /\ b = d THEN g = tbl ELSE TableAt(t, q, b, g))
    BY <1>1, <1>3, <2>4 DEF TableAt
  <2>6. TableAt(t, p, d, g) => g = tbl
    BY <1>1 DEF TableAt, TableFor
  <2>7. ASSUME NEW c \in Ptes
        PROVE  PageAt(u, q, b, c, g) <=>
                 IF q = p /\ b = d /\ c = e THEN g = f ELSE PageAt(t, q, b, c, g)
    <3>1. CASE q = p /\ b = d
      <4>1. PageAt(u, q, b, c, g) <=> u.mem[tbl][c] = g
        BY <1>1, <1>3, <2>4, <3>1 DEF PageAt
      <4>2. u.mem[tbl][c] = IF c = e THEN f ELSE IF t.mem[dir][d] = NULL THEN NULL ELSE t.mem[tbl][c]
        BY <1>1 DEF MapSet
      <4>3. PageAt(t, q, b, c, g) <=> t.mem[dir][d] # NULL /\ t.mem[tbl][c] = g
        BY <1>1, <1>3, <3>1 DEF PageAt, TableFor
      <4> QED
        BY <1>1, <3>1, <4>1, <4>2, <4>3
    <3>2. CASE ~(q = p /\ b = d)
      <4>1. u.mem[h][b] = t.mem[h][b]
        BY <1>1, <2>4, <3>2
      <4>2. CASE t.mem[h][b] = NULL
        BY <1>1, <3>2, <4>1, <4>2 DEF PageAt
      <4>3. CASE t.mem[h][b] # NULL
        <5> PICK x \in Frames : x = t.mem[h][b]
          BY <1>1, <2>1, <4>3
        <5>1. own[x] = AsTable(q, b)
          BY <1>3 DEF Owns, OwnTables, TableAt
        <5>2. x # tbl /\ x # dir
          BY <2>1, <2>2, <3>2, <5>1 DEF AsFree, AsTable, AsDir
        <5>3. u.mem[x][c] = t.mem[x][c]
          BY <1>1, <5>2 DEF MapSet
        <5> QED
          BY <1>1, <1>3, <3>2, <4>1, <4>3, <5>3 DEF PageAt
      <4> QED
        BY <4>2, <4>3
    <3> QED
      BY <3>1, <3>2
  <2> QED
    BY <2>5, <2>6, <2>7
<1> QED
  BY <1>2, <1>3

\* What the new entry's page is used for: it has just been taken, is the kernel heap's
\* in the reference directory, or the system's.
FitsRole(own, p, d, e, f, r) ==
  \/ d \in Private /\ own[f] = AsTaken /\ r = AsPage(p, d, e)
  \/ HeapEntry(d, e) /\ own[f] = AsTaken /\ p = IDLE_PID /\ r = AsHeap(d, e)
  \/ HeapEntry(d, e) /\ own[f] = AsHeap(d, e) /\ r = own[f]
  \/ d = 0 /\ e < sys_pgs /\ f = e /\ r = own[f]

MapOwn(t, own, p, d, f, r) ==
  [g \in Frames |-> IF g = f THEN r
                    ELSE IF g = TableFor(t, t.cr3[p], d) THEN AsTable(p, d) ELSE own[g]]

\* pg_map() of a taken page into an entry that was empty keeps one use for each page.
LEMMA MapOwns ==
  ASSUME NEW t \in PageState, NEW F, NEW own, Owns(t, F, own), NEW p \in Tasks, t.cr3[p] # NULL,
         NEW d \in Pdes, NEW e \in Ptes, NEW f \in Frames,
         NEW u, Mapping(t, F, u, t.cr3[p], d, e, f),
         \A g \in Frames : ~PageAt(t, p, d, e, g),
         NEW r, FitsRole(own, p, d, e, f, r)
  PROVE  Owns(u, LeftOf(t, F, t.cr3[p], d), MapOwn(t, own, p, d, f, r))
<1> DEFINE dir == t.cr3[p]
<1> PICK tbl \in Frames : tbl = TableFor(t, t.cr3[p], d)
  BY DEF Mapping
<1> PICK G, o : G = LeftOf(t, F, t.cr3[p], d) /\ o = MapOwn(t, own, p, d, f, r)
  OBVIOUS
<1>0. \A g \in Frames : o[g] = IF g = f THEN r ELSE IF g = tbl THEN AsTable(p, d) ELSE own[g]
  BY DEF MapOwn
<1>1. /\ dir \in Frames /\ NULL \notin Frames /\ u.cr3 = t.cr3
      /\ IDLE_PID \in Tasks /\ Private \subseteq Pdes /\ 0 \in Pdes \ Private
      /\ sys_pgs \in Nat /\ Frames \subseteq Nat
  BY Memory, Regions, PagingAssumption DEF PageState, FrameOrNull, Mapping, Frames
<1>2. /\ \A q \in Tasks, b \in Pdes, g \in Frames :
           TableAt(u, q, b, g) <=> TableAt(t, q, b, g) \/ (q = p /\ b = d /\ g = tbl)
      /\ \A q \in Tasks, b \in Pdes, c \in Ptes, g \in Frames :
           PageAt(u, q, b, c, g) <=> IF q = p /\ b = d /\ c = e THEN g = f ELSE PageAt(t, q, b, c, g)
  <2>1. TableSeen(t, u, p, d, tbl) /\ PageSeen(t, u, p, d, e, f)
    BY MapViews
  <2> QED
    BY <2>1 DEF TableSeen, PageSeen
<1>3. \/ own[tbl] = AsFree /\ G = F \ {tbl} /\ tbl \in F
      \/ own[tbl] = AsTable(p, d) /\ G = F /\ tbl \notin F
  <2>1. CASE t.mem[dir][d] = NULL
    BY <2>1 DEF Owns, OwnFree, Mapping, TableFor, LeftOf
  <2>2. CASE t.mem[dir][d] # NULL
    <3>1. own[tbl] = AsTable(p, d)
      BY <2>2 DEF Owns, OwnTables, TableAt, TableFor
    <3> QED
      BY <2>2, <3>1, RolesApart DEF Owns, OwnFree, LeftOf
  <2> QED
    BY <2>1, <2>2
<1>4. \/ d \in Private /\ own[f] = AsTaken /\ r = AsPage(p, d, e)
      \/ HeapEntry(d, e) /\ d \notin Private /\ ~(d = 0 /\ e < sys_pgs)
         /\ r = AsHeap(d, e) /\ ((own[f] = AsTaken /\ p = IDLE_PID) \/ own[f] = AsHeap(d, e))
      \/ d = 0 /\ d \notin Private /\ e < sys_pgs /\ f = e /\ r = AsSystem /\ own[f] = AsSystem
  BY <1>1 DEF FitsRole, HeapEntry, Owns, OwnSystem
<1>5. f # tbl
  BY <1>3, <1>4, RolesApart
<1>6. OwnRoles(u, o)
  <2> SUFFICES ASSUME NEW g \in Frames PROVE IsRole(o[g])
    BY DEF OwnRoles
  <2>1. CASE g = f
    BY <1>0, <1>4, <2>1 DEF IsRole
  <2>2. CASE g # f /\ g = tbl
    BY <1>0, <2>2 DEF IsRole
  <2>3. CASE g # f /\ g # tbl
    BY <1>0, <2>3 DEF Owns, OwnRoles
  <2> QED
    BY <2>1, <2>2, <2>3
<1>7. OwnFree(G, o)
  BY <1>0, <1>3, <1>4, <1>5, RolesApart DEF Owns, OwnFree
<1>8. OwnSystem(o)
  BY <1>0, <1>1, <1>3, <1>4, <1>5, RolesApart DEF Owns, OwnSystem
<1>9. OwnDirs(u, o)
  BY <1>0, <1>1, <1>3, <1>4, <1>5, RolesApart DEF Owns, OwnDirs
<1>10. OwnTables(u, o)
  BY <1>0, <1>1, <1>2, <1>3, <1>4, <1>5, RolesApart DEF Owns, OwnTables
<1>11. OwnPages(u, o)
  <2> SUFFICES ASSUME NEW g \in Frames, NEW q \in Tasks, NEW b \in Private, NEW c \in Ptes
               PROVE  o[g] = AsPage(q, b, c) <=> PageAt(u, q, b, c, g)
    BY DEF OwnPages
  <2>1. own[g] = AsPage(q, b, c) <=> PageAt(t, q, b, c, g)
    BY DEF Owns, OwnPages
  <2>2. PageAt(u, q, b, c, g) <=> IF q = p /\ b = d /\ c = e THEN g = f ELSE PageAt(t, q, b, c, g)
    BY <1>1, <1>2
  <2>3. ~PageAt(t, p, d, e, g)
    OBVIOUS
  <2>4. CASE g = f
    <3>1. o[g] = r /\ own[g] # AsPage(q, b, c)
      BY <1>0, <1>4, <2>4, RolesApart
    <3> QED
      BY <1>4, <2>1, <2>2, <2>4, <3>1, RolesApart
  <2>5. CASE g = tbl
    BY <1>0, <1>3, <1>5, <2>1, <2>2, <2>5, RolesApart
  <2>6. CASE g # f /\ g # tbl
    BY <1>0, <2>1, <2>2, <2>3, <2>6
  <2> QED
    BY <2>4, <2>5, <2>6
<1>12. OwnHeap(u, o)
  <2> SUFFICES ASSUME NEW g \in Frames, NEW b \in Pdes, NEW c \in Ptes, HeapEntry(b, c)
               PROVE  o[g] = AsHeap(b, c) <=> PageAt(u, IDLE_PID, b, c, g)
    BY DEF OwnHeap
  <2>1. own[g] = AsHeap(b, c) <=> PageAt(t, IDLE_PID, b, c, g)
    BY DEF Owns, OwnHeap
  <2>2. PageAt(u, IDLE_PID, b, c, g) <=>
          IF IDLE_PID = p /\ b = d /\ c = e THEN g = f ELSE PageAt(t, IDLE_PID, b, c, g)
    BY <1>1, <1>2
  <2>3. ~PageAt(t, p, d, e, g) /\ b \notin Private /\ ~(b = 0 /\ c < sys_pgs)
    BY DEF HeapEntry
  <2>4. CASE g = f
    <3>1. o[g] = r
      BY <1>0, <2>4
    <3> QED
      BY <1>4, <2>1, <2>2, <2>3, <2>4, <3>1, RolesApart
  <2>5. CASE g = tbl
    BY <1>0, <1>3, <1>5, <2>1, <2>2, <2>5, RolesApart
  <2>6. CASE g # f /\ g # tbl
    BY <1>0, <2>1, <2>2, <2>3, <2>6
  <2> QED
    BY <2>4, <2>5, <2>6
<1>13. SharedHeap(u, o)
  <2> SUFFICES ASSUME NEW g \in Frames, NEW q \in Tasks, NEW b \in Pdes, NEW c \in Ptes,
                      HeapEntry(b, c), PageAt(u, q, b, c, g)
               PROVE  o[g] = AsHeap(b, c)
    BY DEF SharedHeap
  <2>1. PageAt(t, q, b, c, g) => own[g] = AsHeap(b, c)
    BY DEF Owns, SharedHeap
  <2>2. IF q = p /\ b = d /\ c = e THEN g = f ELSE PageAt(t, q, b, c, g)
    BY <1>1, <1>2
  <2>3. b \notin Private /\ ~(b = 0 /\ c < sys_pgs)
    BY DEF HeapEntry
  <2>4. CASE q = p /\ b = d /\ c = e
    BY <1>0, <1>4, <2>2, <2>3, <2>4
  <2>5. CASE ~(q = p /\ b = d /\ c = e)
    BY <1>0, <1>3, <1>4, <2>1, <2>2, <2>5, RolesApart
  <2> QED
    BY <2>4, <2>5
<1>14. SystemAt(u)
  BY <1>0, <1>1, <1>2, <1>3, <1>4, <1>5, RolesApart DEF Owns, SystemAt
<1>15. Owns(u, G, o)
  BY <1>6, <1>7, <1>8, <1>9, <1>10, <1>11, <1>12, <1>13, <1>14 DEF Owns
<1> QED
  BY <1>15

Books(t, F, own) == t \in PageState /\ Lists(t, F) /\ Owns(t, F, own)
Settled(own)     == \A f \in Frames : own[f] # AsTaken

\* A process's mapped addresses, and what they point to.
LEMMA MappedAt ==
  ASSUME NEW t \in PageState, NEW p \in Tasks, t.cr3[p] # NULL, NEW d \in Pdes, NEW e \in Ptes
  PROVE  /\ pg_mapped(t, t.cr3[p], d * PTES + e) <=> \E f \in Frames : PageAt(t, p, d, e, f)
         /\ \A f \in Frames : PageAt(t, p, d, e, f) => Target(t, t.cr3[p], d * PTES + e) = f
         /\ \A D \in SUBSET Pdes : d * PTES + e \in Mapped(t, t.cr3[p], D) <=>
              d \in D /\ \E f \in Frames : PageAt(t, p, d, e, f)
<1> DEFINE lin == d * PTES + e
           dir == t.cr3[p]
<1>1. lin \div PTES = d /\ lin % PTES = e
  BY AtEntry
<1>2. /\ dir \in Frames /\ d \in Entries /\ e \in Entries /\ NULL \notin Frames
      /\ \A x \in Frames, y \in Entries : t.mem[x][y] \in Frames \cup {NULL}
  BY EntriesOf, Memory DEF PageState, FrameOrNull
<1> HIDE DEF lin
<1>3. Table(t, dir, lin) = t.mem[dir][d] /\ Target(t, dir, lin) = t.mem[t.mem[dir][d]][e]
  BY <1>1 DEF Table, Target
<1>4. pg_mapped(t, dir, lin) <=> t.mem[dir][d] # NULL /\ t.mem[t.mem[dir][d]][e] # NULL
  BY <1>1, <1>3 DEF pg_mapped
<1>5. t.mem[dir][d] # NULL => t.mem[t.mem[dir][d]][e] \in Frames \cup {NULL}
  <2>1. t.mem[dir][d] \in Frames \cup {NULL}
    BY <1>2
  <2> QED
    BY <1>2, <2>1
<1>6. pg_mapped(t, dir, lin) <=> \E f \in Frames : PageAt(t, p, d, e, f)
  BY <1>2, <1>4, <1>5 DEF PageAt
<1>7. \A f \in Frames : PageAt(t, p, d, e, f) => Target(t, dir, lin) = f
  BY <1>3 DEF PageAt
<1>8. ASSUME NEW D \in SUBSET Pdes
      PROVE  lin \in Mapped(t, dir, D) <=> d \in D /\ pg_mapped(t, dir, lin)
  <2>1. lin \in Pages(D) <=> d \in D
    <3>1. d \in D => lin \in Pages(D)
      BY DEF lin, Pages
    <3>2. ASSUME lin \in Pages(D) PROVE d \in D
      <4>1. PICK b \in D, c \in Ptes : lin = b * PTES + c
        BY <3>2 DEF Pages
      <4>2. b \in Pdes
        OBVIOUS
      <4> QED
        BY <4>1, <4>2, SameAddress DEF lin
    <3> QED
      BY <3>1, <3>2
  <2> QED
    BY <2>1 DEF Mapped
<1> QED
  BY <1>6, <1>7, <1>8 DEF lin

\* All pages of a region are finitely many.
LEMMA MappedFinite ==
  ASSUME NEW t, NEW dir, NEW D \in SUBSET Pdes
  PROVE  IsFiniteSet(Mapped(t, dir, D)) /\ Mapped(t, dir, D) \subseteq Nat
         /\ Mapped(t, dir, D) = Mapped(t, dir, Pdes) \cap Pages(D)
<1> PICK n \in Nat : n = 4 * QUARTER * PTES
  BY Memory
<1>1. Mapped(t, dir, D) \subseteq 0 .. n - 1
  <2> SUFFICES ASSUME NEW d \in Pdes, NEW e \in Ptes PROVE d * PTES + e \in 0 .. n - 1
    BY DEF Mapped, Pages
  <2>1. PICK q \in Nat : q = 4 * QUARTER /\ d < q /\ d \in Nat
    BY Memory DEF Pdes
  <2>2. d * PTES + e < q * PTES
    <3>1. e \in 0 .. PTES - 1 /\ 0 \in 0 .. PTES - 1
      BY Memory DEF Ptes
    <3> QED
      BY <2>1, <3>1, TablesApart
  <2>3. q * PTES = n
    BY <2>1
  <2> QED
    BY <2>2, <2>3, AtEntry
<1>2. IsFiniteSet(0 .. n - 1)
  BY FromZero
<1> QED
  BY <1>1, <1>2, FS_Subset DEF Mapped, Pages

\* Taking one page away.
LEMMA OneLess ==
  ASSUME NEW F \in SUBSET Frames, NEW f \in F
  PROVE  /\ IsFiniteSet(F) /\ Cardinality(F) \in Nat \ {0}
         /\ Cardinality(F \ {f}) \in Nat /\ Cardinality(F \ {f}) = Cardinality(F) - 1
<1>1. IsFiniteSet(F) /\ Cardinality(F) \in Nat /\ Cardinality(F) # 0
  BY FramesFinite
<1>2. Cardinality(F \ {f}) = Cardinality(F) - 1
  BY <1>1, FS_RemoveElement
<1> QED
  BY <1>1, <1>2

Marked(own, f, r) == [g \in Frames |-> IF g = f THEN r ELSE own[g]]

\* Where two memories have the same directories and tables.
SameViews(t, u) ==
  \A q \in Tasks, b \in Pdes, g \in Frames :
    /\ TableAt(u, q, b, g) <=> TableAt(t, q, b, g)
    /\ \A c \in Ptes : PageAt(u, q, b, c, g) <=> PageAt(t, q, b, c, g)

\* A space is the same while nothing is written to its tables.
LEMMA SameMemViews ==
  ASSUME NEW t, NEW u, u.mem = t.mem, u.cr3 = t.cr3
  PROVE  SameViews(t, u)
BY DEF SameViews, TableAt, PageAt

\* pg_pop() takes a page in hand.
TookPage(t, F, own, u, f) ==
  /\ f \in F /\ f \in Frames /\ u.used = f /\ Books(u, F \ {f}, Marked(own, f, AsTaken))
  /\ u.cr3 = t.cr3 /\ u.spoiled = t.spoiled /\ u.mem = t.mem /\ SameViews(t, u)

\* pg_pop() takes the first free page, and changes no space.
LEMMA TakeBooks ==
  ASSUME NEW t, NEW F, NEW own, Books(t, F, own), F # {}
  PROVE  TookPage(t, F, own, pg_pop(t), t.free)
<1> PICK f, u : f = t.free /\ u = pg_pop(t)
  OBVIOUS
<1>1. f \in F /\ u \in PageState /\ Lists(u, F \ {f}) /\ f \in Frames
  BY PopLists DEF Books, Lists
<1>2. u.used = f /\ u.mem = t.mem /\ u.cr3 = t.cr3 /\ u.spoiled = t.spoiled
  BY <1>1, PopFields DEF Books
<1>3. SameViews(t, u)
  BY <1>2, SameMemViews
<1> PICK o : o = Marked(own, f, AsTaken)
  OBVIOUS
<1>4. /\ o[f] = AsTaken /\ own[f] = AsFree /\ \A g \in Frames : g # f => o[g] = own[g]
  BY <1>1 DEF Marked, Books, Owns, OwnFree
<1>5. IDLE_PID \in Tasks /\ Private \subseteq Pdes /\ 0 \in Pdes
  BY Regions, PagingAssumption
<1>6. Owns(t, F, own)
  BY DEF Books
<1>7. OwnRoles(u, o)
  BY <1>4, <1>6 DEF Owns, OwnRoles, IsRole
<1>8. OwnFree(F \ {f}, o) /\ OwnSystem(o)
  BY <1>4, <1>6, RolesApart DEF Owns, OwnFree, OwnSystem
<1>9. OwnDirs(u, o)
  BY <1>2, <1>4, <1>6, RolesApart DEF Owns, OwnDirs
<1>10. OwnTables(u, o)
  BY <1>3, <1>4, <1>6, RolesApart DEF Owns, OwnTables, SameViews
<1>11. OwnPages(u, o)
  BY <1>3, <1>4, <1>5, <1>6, RolesApart DEF Owns, OwnPages, SameViews
<1>12. OwnHeap(u, o) /\ SharedHeap(u, o)
  BY <1>3, <1>4, <1>5, <1>6, RolesApart DEF Owns, OwnHeap, SharedHeap, SameViews
<1>13. SystemAt(u)
  BY <1>3, <1>5, <1>6 DEF Owns, SystemAt, SameViews
<1>14. Books(u, F \ {f}, o)
  BY <1>1, <1>7, <1>8, <1>9, <1>10, <1>11, <1>12, <1>13 DEF Books, Owns
<1> QED
  BY <1>1, <1>2, <1>3, <1>14 DEF TookPage

\* pg_map() of a page in hand, or of one that is shared.
NewlyMapped(t, F, own, u, p, d, e, f) ==
  \E G, o :
    /\ Books(u, G, o) /\ G \subseteq F /\ Cardinality(G) \in Nat
    /\ Cardinality(G) >= Cardinality(F) - 1
    /\ t.mem[t.cr3[p]][d] # NULL => G = F
    /\ \A g \in Frames : o[g] = AsTaken => own[g] = AsTaken /\ g # f
    /\ u.cr3 = t.cr3 /\ u.spoiled = t.spoiled /\ u.mem[t.cr3[p]][d] # NULL
    /\ PageSeen(t, u, p, d, e, f)

\* pg_map() keeps the lists, and one use for each page.
LEMMA MapBooks ==
  ASSUME NEW t, NEW F, NEW own, Books(t, F, own), NEW p \in Tasks, t.cr3[p] # NULL,
         NEW d \in Pdes, NEW e \in Ptes, NEW f \in Frames,
         t.mem[t.cr3[p]][d] = NULL => F # {},
         \A g \in Frames : ~PageAt(t, p, d, e, g),
         NEW r, FitsRole(own, p, d, e, f, r)
  PROVE  NewlyMapped(t, F, own, pg_map(t, t.cr3[p], f, d * PTES + e), p, d, e, f)
<1> DEFINE dir == t.cr3[p]
           tbl == TableFor(t, t.cr3[p], d)
<1>1. t \in PageState /\ Lists(t, F) /\ Owns(t, F, own) /\ F \in SUBSET Frames
  BY DEF Books, Lists
<1>2. dir \in Frames /\ f \in FrameOrNull /\ d \in Entries /\ NULL \notin Frames
      /\ t.mem[dir][d] \in FrameOrNull
  BY <1>1, EntriesOf, Memory DEF PageState, FrameOrNull
<1>3. tbl # dir
  <2>1. own[dir] = AsDir(p)
    BY <1>1, <1>2 DEF Owns, OwnDirs
  <2>2. CASE t.mem[dir][d] = NULL
    <3>1. t.free \in F
      BY <1>1, <2>2, PopLists
    <3>2. own[t.free] = AsFree
      BY <1>1, <3>1 DEF Owns, OwnFree
    <3> QED
      BY <2>1, <2>2, <3>2, RolesApart DEF TableFor
  <2>3. CASE t.mem[dir][d] # NULL
    <3>1. own[tbl] = AsTable(p, d)
      BY <1>1, <1>2, <2>3 DEF Owns, OwnTables, TableAt, TableFor, FrameOrNull
    <3> QED
      BY <2>1, <3>1, RolesApart
  <2> QED
    BY <2>2, <2>3
<1> PICK u : u = pg_map(t, t.cr3[p], f, d * PTES + e)
  OBVIOUS
<1>4. Mapping(t, F, u, t.cr3[p], d, e, f)
  BY <1>1, <1>2, <1>3, MapFields
<1>5. Owns(u, LeftOf(t, F, t.cr3[p], d), MapOwn(t, own, p, d, f, r))
  BY <1>1, <1>4, MapOwns
<1>6. PageSeen(t, u, p, d, e, f)
  BY <1>1, <1>4, MapViews
<1> DEFINE G == LeftOf(t, F, t.cr3[p], d)
           o == MapOwn(t, own, p, d, f, r)
<1>7. Books(u, G, o)
  BY <1>4, <1>5 DEF Books, Mapping
<1>8. /\ G \subseteq F /\ Cardinality(G) \in Nat /\ Cardinality(G) >= Cardinality(F) - 1
      /\ (t.mem[t.cr3[p]][d] # NULL => G = F)
  <2>0. Cardinality(F) \in Nat
    BY <1>1, FramesFinite
  <2>1. CASE t.mem[t.cr3[p]][d] # NULL
    BY <2>0, <2>1 DEF LeftOf
  <2>2. CASE t.mem[t.cr3[p]][d] = NULL
    <3>1. t.free \in F /\ G = F \ {t.free}
      BY <1>4, <2>2 DEF Mapping, LeftOf
    <3> HIDE DEF G
    <3> QED
      BY <1>1, <2>0, <2>2, <3>1, OneLess
  <2> QED
    BY <2>1, <2>2
<1>9. \A g \in Frames : o[g] = AsTaken => own[g] = AsTaken /\ g # f
  <2>1. r # AsTaken
    <3>1. own[f] = AsSystem => own[f] # AsTaken
      BY RolesApart
    <3>2. d = 0 /\ e < sys_pgs /\ f = e => own[f] = AsSystem
      BY <1>1 DEF Owns, OwnSystem
    <3> QED
      BY <3>1, <3>2, RolesApart DEF FitsRole
  <2> QED
    BY <2>1, RolesApart DEF MapOwn
<1>10. u.cr3 = t.cr3 /\ u.spoiled = t.spoiled
  BY <1>4 DEF Mapping
<1>11. u.mem[t.cr3[p]][d] # NULL
  <2>1. u.mem[dir][d] = tbl
    BY <1>2, <1>3, <1>4 DEF Mapping, MapSet
  <2>2. tbl \in Frames
    BY <1>4 DEF Mapping
  <2> QED
    BY <1>2, <2>1, <2>2
<1> HIDE DEF G, o
<1> QED
  BY <1>6, <1>7, <1>8, <1>9, <1>10, <1>11 DEF NewlyMapped

\* A loop whose values are in the sets A[i], and that any such loop's are.
LEMMA LoopIn ==
  ASSUME NEW n \in Nat, NEW S, NEW x, NEW A \in [0 .. n -> SUBSET S], x \in A[0],
         NEW G \in [(1 .. n) \X S -> S],
         \A i \in 1 .. n : \A s \in A[i - 1] : G[<<i, s>>] \in A[i]
  PROVE  \E f \in [0 .. n -> S] : Turns(n, x, G, f) /\ \A i \in 0 .. n : f[i] \in A[i]
<1>1. x \in S /\ 0 \in 0 .. n
  OBVIOUS
<1>2. PICK f \in [0 .. n -> S] : Turns(n, x, G, f)
  BY <1>1, LoopExists
<1>3. f[0] = x /\ \A i \in 1 .. n : f[i] = G[<<i, f[i - 1]>>]
  BY <1>2 DEF Turns
<1> DEFINE B == {i \in 0 .. n : f[i] \in A[i]}
<1>4. 0 \in B
  BY <1>1, <1>3
<1>5. ASSUME NEW i \in 0 .. n - 1, i \in B PROVE i + 1 \in B
  <2>1. i + 1 \in 1 .. n /\ (i + 1) - 1 = i /\ f[i] \in A[i]
    BY <1>5
  <2>2. f[i + 1] = G[<<i + 1, f[i]>>] /\ G[<<i + 1, f[i]>>] \in A[i + 1]
    BY <1>3, <2>1
  <2> QED
    BY <2>1, <2>2
<1> HIDE DEF B
<1>6. \A i \in 0 .. n : i \in B
  BY <1>4, <1>5, UpTo
<1> QED
  BY <1>2, <1>6 DEF B

\* What holds first, and is kept by each of n turns, holds after all of them.
LEMMA AllIn ==
  ASSUME NEW n \in Nat, NEW f, NEW A, f[0] \in A[0],
         \A i \in 1 .. n : f[i - 1] \in A[i - 1] => f[i] \in A[i]
  PROVE  \A i \in 0 .. n : f[i] \in A[i]
<1> DEFINE B == {i \in 0 .. n : f[i] \in A[i]}
<1>1. 0 \in B
  OBVIOUS
<1>2. ASSUME NEW i \in 0 .. n - 1, i \in B PROVE i + 1 \in B
  <2>1. i + 1 \in 1 .. n /\ (i + 1) - 1 = i /\ f[i] \in A[i]
    BY <1>2
  <2> QED
    BY <2>1
<1> HIDE DEF B
<1>3. \A i \in 0 .. n : i \in B
  BY <1>1, <1>2, UpTo
<1> QED
  BY <1>3 DEF B

-----------------------------------------------------------------------------
(* A new page.                                                               *)

\* A page of its own, or one of the kernel heap's in the reference directory.
MayPlace(p, d, e) == d \in Private \/ (p = IDLE_PID /\ HeapEntry(d, e))

Allocated(t, F, u, p, d, e) ==
  \E G, o : \E f \in Frames :
    /\ Books(u, G, o) /\ Settled(o) /\ Cardinality(G) \in Nat
    /\ Cardinality(G) >= Cardinality(F) - 2
    /\ t.mem[t.cr3[p]][d] # NULL => Cardinality(G) >= Cardinality(F) - 1
    /\ u.cr3 = t.cr3 /\ u.spoiled = t.spoiled /\ PageSeen(t, u, p, d, e, f)

\* pg_pop() and pg_map() give a process a page at an address that was empty.
LEMMA NewPage ==
  ASSUME NEW t, NEW F, NEW own, Books(t, F, own), Settled(own), NEW p \in Tasks, t.cr3[p] # NULL,
         Cardinality(F) >= 2, NEW d \in Pdes, NEW e \in Ptes, MayPlace(p, d, e),
         \A g \in Frames : ~PageAt(t, p, d, e, g)
  PROVE  Allocated(t, F, pg_map(pg_pop(t), t.cr3[p], pg_pop(t).used, d * PTES + e), p, d, e)
<1>1. F \in SUBSET Frames /\ F # {}
  BY FramesFinite, FS_EmptySet DEF Books, Lists
<1> PICK w, f : w = pg_pop(t) /\ f = t.free
  OBVIOUS
<1>2. TookPage(t, F, own, w, f)
  BY <1>1, TakeBooks
<1>3. /\ f \in F /\ f \in Frames /\ w.used = f /\ w.cr3 = t.cr3 /\ w.spoiled = t.spoiled
      /\ SameViews(t, w) /\ w.mem = t.mem
  BY <1>2 DEF TookPage
<1> DEFINE H == F \ {f}
           mk == Marked(own, f, AsTaken)
<1>4. Books(w, H, mk)
  BY <1>2 DEF TookPage
<1>5. Cardinality(H) \in Nat /\ Cardinality(H) = Cardinality(F) - 1 /\ Cardinality(F) \in Nat
  BY <1>1, <1>3, OneLess
<1>6. H # {}
  <2>1. H \in SUBSET Frames
    BY <1>1
  <2> HIDE DEF H
  <2> QED
    BY <1>5, <2>1, FramesFinite
<1>7. /\ mk[f] = AsTaken
      /\ \A g \in Frames : mk[g] = AsTaken => g = f
  BY <1>3 DEF Marked, Settled
<1> DEFINE r == IF d \in Private THEN AsPage(p, d, e) ELSE AsHeap(d, e)
<1>8. FitsRole(mk, p, d, e, f, r)
  BY <1>7 DEF FitsRole, MayPlace
<1>9. \A g \in Frames : ~PageAt(w, p, d, e, g)
  BY <1>3 DEF SameViews
<1> PICK u : u = pg_map(w, t.cr3[p], f, d * PTES + e)
  OBVIOUS
<1> HIDE DEF H, mk, r
<1>10. NewlyMapped(w, H, mk, u, p, d, e, f)
  BY <1>3, <1>4, <1>6, <1>8, <1>9, MapBooks
<1>11. PICK G, o :
         /\ Books(u, G, o) /\ Cardinality(G) \in Nat /\ Cardinality(G) >= Cardinality(H) - 1
         /\ \A g \in Frames : o[g] = AsTaken => mk[g] = AsTaken /\ g # f
         /\ w.mem[w.cr3[p]][d] # NULL => G = H
         /\ u.cr3 = w.cr3 /\ u.spoiled = w.spoiled /\ PageSeen(w, u, p, d, e, f)
  BY <1>10 DEF NewlyMapped
<1>12. PageSeen(t, u, p, d, e, f)
  BY <1>3, <1>11 DEF PageSeen, SameViews
<1>13. Settled(o)
  BY <1>7, <1>11 DEF Settled
<1>14. /\ Cardinality(G) >= Cardinality(F) - 2
       /\ t.mem[t.cr3[p]][d] # NULL => Cardinality(G) >= Cardinality(F) - 1
  BY <1>3, <1>5, <1>11
<1> QED
  BY <1>3, <1>11, <1>12, <1>13, <1>14 DEF Allocated

\* pg_alloc() gives a process a page where pg_next_addr() says.
LEMMA AllocBooks ==
  ASSUME NEW t, NEW F, NEW own, Books(t, F, own), Settled(own), NEW p \in Tasks, t.cr3[p] # NULL,
         Cardinality(F) >= 2, NEW start, NEW up \in BOOLEAN,
         NEW d \in Pdes, NEW e \in Ptes, MayPlace(p, d, e),
         pg_next_addr(Mapped(t, t.cr3[p], Pdes), start, up) = d * PTES + e,
         d * PTES + e \notin Mapped(t, t.cr3[p], Pdes)
  PROVE  Allocated(t, F, pg_alloc(t, t.cr3[p], start, up), p, d, e)
<1>1. \A g \in Frames : ~PageAt(t, p, d, e, g)
  BY MappedAt DEF Books
<1>2. Allocated(t, F, pg_map(pg_pop(t), t.cr3[p], pg_pop(t).used, d * PTES + e), p, d, e)
  BY <1>1, NewPage
<1> QED
  BY <1>2 DEF pg_alloc

-----------------------------------------------------------------------------
(* A new space.                                                              *)

NewDir(t, f, p) == [t EXCEPT !.mem[f] = Blank, !.cr3[p] = f]

DirSet(t, u, f, p) ==
  /\ u \in PageState
  /\ u.free = t.free /\ u.used = t.used /\ u.next = t.next /\ u.prev = t.prev
  /\ u.spoiled = t.spoiled
  /\ \A q \in Tasks : u.cr3[q] = IF q = p THEN f ELSE t.cr3[q]
  /\ \A h \in Frames, x \in Entries : u.mem[h][x] = IF h = f THEN NULL ELSE t.mem[h][x]

\* A new directory clears its page, and is that of the process.
LEMMA DirFields ==
  ASSUME NEW t \in PageState, NEW f \in Frames, NEW p \in Tasks
  PROVE  DirSet(t, NewDir(t, f, p), f, p)
<1> DEFINE m == [t.mem EXCEPT ![f] = Blank]
           c == [t.cr3 EXCEPT ![p] = f]
<1> PICK u : u = NewDir(t, f, p)
  OBVIOUS
<1>1. u = [t EXCEPT !.mem = m, !.cr3 = c]
  BY DEF NewDir
<1>2. m \in [Frames -> [Entries -> FrameOrNull]] /\ c \in [Tasks -> FrameOrNull]
  BY BlankType DEF PageState, FrameOrNull
<1>3. /\ \A h \in Frames, x \in Entries : m[h][x] = IF h = f THEN NULL ELSE t.mem[h][x]
      /\ \A q \in Tasks : c[q] = IF q = p THEN f ELSE t.cr3[q]
  BY BlankType DEF PageState
<1> HIDE DEF m, c
<1>4. /\ u \in PageState /\ u.mem = m /\ u.cr3 = c
      /\ u.free = t.free /\ u.used = t.used /\ u.next = t.next /\ u.prev = t.prev
      /\ u.spoiled = t.spoiled
  BY <1>1, <1>2 DEF PageState
<1> QED
  BY <1>3, <1>4 DEF DirSet

\* p has no tables yet; the others have what they had.
NewSeen(t, u, p) ==
  \A q \in Tasks, b \in Pdes, g \in Frames :
    /\ TableAt(u, q, b, g) <=> q # p /\ TableAt(t, q, b, g)
    /\ \A c \in Ptes : PageAt(u, q, b, c, g) <=> q # p /\ PageAt(t, q, b, c, g)

\* A process that gets a directory keeps one use for each page.
LEMMA DirBooks ==
  ASSUME NEW t, NEW F, NEW own, Books(t, F, own), NEW f \in Frames, own[f] = AsTaken,
         NEW p \in Tasks, t.cr3[p] = NULL, NEW u, DirSet(t, u, f, p)
  PROVE  NewSeen(t, u, p) /\ Books(u, F, Marked(own, f, AsDir(p)))
<1>1. /\ Owns(t, F, own) /\ Lists(u, F) /\ u \in PageState /\ t \in PageState
      /\ NULL \notin Frames /\ Pdes \subseteq Entries /\ Ptes \subseteq Entries
      /\ \A x \in Frames, y \in Entries : t.mem[x][y] \in Frames \cup {NULL}
      /\ \A q \in Tasks : t.cr3[q] \in Frames \cup {NULL}
      /\ IDLE_PID \in Tasks /\ Private \subseteq Pdes /\ 0 \in Pdes
  BY Regions, PagingAssumption, EntriesOf, Memory, SameLists
     DEF DirSet, Books, PageState, FrameOrNull
<1>2. NewSeen(t, u, p)
  <2> SUFFICES ASSUME NEW q \in Tasks, NEW b \in Pdes, NEW g \in Frames
               PROVE  /\ TableAt(u, q, b, g) <=> q # p /\ TableAt(t, q, b, g)
                      /\ \A c \in Ptes : PageAt(u, q, b, c, g) <=> q # p /\ PageAt(t, q, b, c, g)
    BY DEF NewSeen
  <2>1. CASE q = p
    <3>1. u.cr3[q] = f /\ u.mem[f][b] = NULL
      BY <1>1, <2>1 DEF DirSet
    <3> QED
      BY <1>1, <2>1, <3>1 DEF TableAt, PageAt
  <2>2. CASE q # p /\ t.cr3[q] = NULL
    <3>1. u.cr3[q] = NULL
      BY <2>2 DEF DirSet
    <3> QED
      BY <2>2, <3>1 DEF TableAt, PageAt
  <2>3. CASE q # p /\ t.cr3[q] # NULL
    <3> PICK h \in Frames : h = t.cr3[q]
      BY <1>1, <2>3
    <3>1. own[h] = AsDir(q)
      BY <1>1 DEF Owns, OwnDirs
    <3>2. h # f /\ u.cr3[q] = h /\ u.mem[h][b] = t.mem[h][b]
      BY <1>1, <2>3, <3>1, RolesApart, SMTT(30) DEF DirSet
    <3>3. CASE t.mem[h][b] = NULL
      BY <1>1, <2>3, <3>2, <3>3, SMTT(30) DEF TableAt, PageAt
    <3>4. CASE t.mem[h][b] # NULL
      <4> PICK x \in Frames : x = t.mem[h][b]
        BY <1>1, <3>4
      <4>1. own[x] = AsTable(q, b)
        BY <1>1, <2>3 DEF Owns, OwnTables, TableAt
      <4>2. x # f /\ \A c \in Ptes : u.mem[x][c] = t.mem[x][c]
        BY <1>1, <4>1, RolesApart DEF DirSet
      <4> QED
        BY <2>3, <3>2, <4>2 DEF TableAt, PageAt
    <3> QED
      BY <3>3, <3>4
  <2> QED
    BY <2>1, <2>2, <2>3
<1>3. /\ \A b \in Pdes, g \in Frames : ~TableAt(t, p, b, g)
      /\ \A b \in Pdes, c \in Ptes, g \in Frames : ~PageAt(t, p, b, c, g)
  BY DEF TableAt, PageAt
<1>4. /\ \A q \in Tasks, b \in Pdes, g \in Frames : TableAt(u, q, b, g) <=> TableAt(t, q, b, g)
      /\ \A q \in Tasks, b \in Pdes, c \in Ptes, g \in Frames :
           PageAt(u, q, b, c, g) <=> PageAt(t, q, b, c, g)
  <2> SUFFICES ASSUME NEW q \in Tasks, NEW b \in Pdes, NEW g \in Frames
               PROVE  /\ TableAt(u, q, b, g) <=> TableAt(t, q, b, g)
                      /\ \A c \in Ptes : PageAt(u, q, b, c, g) <=> PageAt(t, q, b, c, g)
    BY Zenon
  <2>1. CASE q = p
    BY <1>2, <1>3, <2>1 DEF NewSeen
  <2>2. CASE q # p
    BY <1>2, <2>2 DEF NewSeen
  <2> QED
    BY <2>1, <2>2
<1> PICK o : o = Marked(own, f, AsDir(p))
  OBVIOUS
<1>5. o[f] = AsDir(p) /\ \A g \in Frames : g # f => o[g] = own[g]
  BY DEF Marked
<1>6. OwnRoles(u, o)
  BY <1>1, <1>5 DEF Owns, OwnRoles, IsRole
<1>7. OwnFree(F, o) /\ OwnSystem(o)
  BY <1>1, <1>5, RolesApart DEF Owns, OwnFree, OwnSystem
<1>8. OwnDirs(u, o)
  <2>1. \A q \in Tasks : u.cr3[q] = IF q = p THEN f ELSE t.cr3[q]
    BY DEF DirSet
  <2>2. \A g \in Frames : own[g] # AsDir(p)
    BY <1>1 DEF Owns, OwnDirs
  <2> QED
    BY <1>1, <1>5, <2>1, <2>2, RolesApart DEF Owns, OwnDirs
<1>9. OwnTables(u, o)
  BY <1>1, <1>4, <1>5, RolesApart DEF Owns, OwnTables
<1>10. OwnPages(u, o)
  BY <1>1, <1>4, <1>5, RolesApart DEF Owns, OwnPages
<1>11. OwnHeap(u, o) /\ SharedHeap(u, o)
  BY <1>1, <1>4, <1>5, RolesApart DEF Owns, OwnHeap, SharedHeap
<1>12. SystemAt(u)
  BY <1>1, <1>4 DEF Owns, SystemAt
<1>13. Books(u, F, o)
  BY <1>1, <1>6, <1>7, <1>8, <1>9, <1>10, <1>11, <1>12 DEF Books, Owns
<1> QED
  BY <1>2, <1>13

\* pg_space_create() has mapped the system's first j pages: s has come from t, of whose
\* free pages there were F.
SpaceAt(t, F, s, p, dir, j) ==
  \E G, o :
    /\ Books(s, G, o) /\ Settled(o) /\ Cardinality(G) \in Nat
    /\ Cardinality(G) >= Cardinality(F) - (IF j = 0 THEN 1 ELSE 2)
    /\ dir \in Frames /\ s.spoiled = t.spoiled
    /\ \A q \in Tasks : s.cr3[q] = IF q = p THEN dir ELSE t.cr3[q]
    /\ j > 0 => s.mem[dir][0] # NULL
    /\ \A q \in Tasks, b \in Pdes, c \in Ptes, g \in Frames :
         PageAt(s, q, b, c, g) <=> IF q = p THEN b = 0 /\ c < j /\ g = c ELSE PageAt(t, q, b, c, g)

\* pg_space_create() starts with an empty directory.
LEMMA SpaceStart ==
  ASSUME NEW t, NEW F, NEW own, Books(t, F, own), Settled(own), NEW p \in Tasks, t.cr3[p] = NULL,
         Cardinality(F) >= 1
  PROVE  SpaceAt(t, F, NewDir(pg_pop(t), pg_pop(t).used, p), p, pg_pop(t).used, 0)
<1>1. F \in SUBSET Frames /\ F # {}
  BY FramesFinite, FS_EmptySet DEF Books, Lists
<1> PICK w, f : w = pg_pop(t) /\ f = t.free
  OBVIOUS
<1>2. TookPage(t, F, own, w, f)
  BY <1>1, TakeBooks
<1>3. /\ f \in F /\ f \in Frames /\ w.used = f /\ w.cr3 = t.cr3 /\ w.spoiled = t.spoiled
      /\ SameViews(t, w)
  BY <1>2 DEF TookPage
<1> PICK H, mk : H = F \ {f} /\ mk = Marked(own, f, AsTaken)
  OBVIOUS
<1>4. Books(w, H, mk)
  BY <1>2 DEF TookPage
<1>5. Cardinality(H) \in Nat /\ Cardinality(H) = Cardinality(F) - 1 /\ Cardinality(F) \in Nat
  BY <1>1, <1>3, OneLess
<1>6. mk[f] = AsTaken /\ \A g \in Frames : mk[g] = AsTaken => g = f
  BY <1>3 DEF Marked, Settled
<1> PICK u : u = NewDir(w, f, p)
  OBVIOUS
<1>7. DirSet(w, u, f, p)
  BY <1>3, <1>4, DirFields DEF Books
<1>8. NewSeen(w, u, p) /\ Books(u, H, Marked(mk, f, AsDir(p)))
  BY <1>3, <1>4, <1>6, <1>7, DirBooks
<1>9. Settled(Marked(mk, f, AsDir(p)))
  BY <1>6, RolesApart DEF Settled, Marked
<1>10. \A q \in Tasks : u.cr3[q] = IF q = p THEN f ELSE t.cr3[q]
  BY <1>3, <1>7 DEF DirSet
<1>11. ASSUME NEW q \in Tasks, NEW b \in Pdes, NEW c \in Ptes, NEW g \in Frames
       PROVE  PageAt(u, q, b, c, g) <=> IF q = p THEN b = 0 /\ c < 0 /\ g = c ELSE PageAt(t, q, b, c, g)
  <2>1. PageAt(u, q, b, c, g) <=> q # p /\ PageAt(w, q, b, c, g)
    BY <1>8 DEF NewSeen
  <2>2. PageAt(w, q, b, c, g) <=> PageAt(t, q, b, c, g)
    BY <1>3 DEF SameViews
  <2>3. ~(c < 0)
    BY Memory DEF Ptes
  <2> QED
    BY <2>1, <2>2, <2>3
<1>12. u.spoiled = t.spoiled
  BY <1>3, <1>7 DEF DirSet
<1>13. SpaceAt(t, F, u, p, f, 0)
  BY <1>3, <1>5, <1>8, <1>9, <1>10, <1>11, <1>12 DEF SpaceAt
<1> QED
  BY <1>3, <1>13

\* Each turn of pg_space_create() maps one more page of the system.
LEMMA SpaceStep ==
  ASSUME NEW t, NEW F, Cardinality(F) \in Nat, Cardinality(F) >= 2, NEW p \in Tasks, NEW dir,
         NEW j \in 1 .. sys_pgs, NEW s, SpaceAt(t, F, s, p, dir, j - 1)
  PROVE  SpaceAt(t, F, pg_map(s, dir, j - 1, j - 1), p, dir, j)
<1> PICK d \in Pdes, e \in Ptes, f \in Frames : d = 0 /\ e = j - 1 /\ f = j - 1
  <2>1. 0 \in Pdes /\ j - 1 \in Ptes /\ j - 1 \in Frames
    BY Memory, Regions DEF Ptes, Frames
  <2> QED
    BY <2>1
<1>0. e < sys_pgs /\ f = e /\ d * PTES + e = j - 1
  BY Memory
<1>1. PICK G, o :
    /\ Books(s, G, o) /\ Settled(o) /\ Cardinality(G) \in Nat
    /\ Cardinality(G) >= Cardinality(F) - (IF j - 1 = 0 THEN 1 ELSE 2)
    /\ dir \in Frames /\ s.spoiled = t.spoiled
    /\ \A q \in Tasks : s.cr3[q] = IF q = p THEN dir ELSE t.cr3[q]
    /\ j - 1 > 0 => s.mem[dir][0] # NULL
    /\ \A q \in Tasks, b \in Pdes, c \in Ptes, g \in Frames :
         PageAt(s, q, b, c, g) <=> IF q = p THEN b = 0 /\ c < j - 1 /\ g = c ELSE PageAt(t, q, b, c, g)
  BY DEF SpaceAt
<1>2. s.cr3[p] = dir /\ s.cr3[p] # NULL
  BY <1>1, Memory
<1>3. s.mem[s.cr3[p]][d] = NULL => G # {}
  <2>1. CASE j - 1 > 0
    BY <1>1, <1>2, <2>1
  <2>2. CASE j - 1 = 0
    <3>1. Cardinality(G) # 0
      BY <1>1, <2>2
    <3> QED
      BY <3>1, FS_EmptySet
  <2> QED
    BY <2>1, <2>2
<1>4. \A g \in Frames : ~PageAt(s, p, d, e, g)
  BY <1>0, <1>1, Memory DEF Frames
<1>5. FitsRole(o, p, d, e, f, o[f])
  BY <1>0 DEF FitsRole
<1> PICK r : r = o[f]
  OBVIOUS
<1> PICK u : u = pg_map(s, dir, f, d * PTES + e)
  OBVIOUS
<1>6. NewlyMapped(s, G, o, u, p, d, e, f)
  BY <1>1, <1>2, <1>3, <1>4, <1>5, MapBooks
<1>7. PICK H, mk :
    /\ Books(u, H, mk) /\ Cardinality(H) \in Nat
    /\ Cardinality(H) >= Cardinality(G) - 1
    /\ s.mem[s.cr3[p]][d] # NULL => H = G
    /\ \A g \in Frames : mk[g] = AsTaken => o[g] = AsTaken /\ g # f
    /\ u.cr3 = s.cr3 /\ u.spoiled = s.spoiled /\ u.mem[s.cr3[p]][d] # NULL
    /\ PageSeen(s, u, p, d, e, f)
  BY <1>6 DEF NewlyMapped
<1>8. Settled(mk)
  BY <1>1, <1>7 DEF Settled
<1>9. Cardinality(H) >= Cardinality(F) - 2
  <2>1. CASE j - 1 > 0
    BY <1>1, <1>2, <1>7, <2>1
  <2>2. CASE j - 1 = 0
    BY <1>1, <1>7, <2>2
  <2> QED
    BY <2>1, <2>2
<1>10. ASSUME NEW q \in Tasks, NEW b \in Pdes, NEW c \in Ptes, NEW g \in Frames
       PROVE  PageAt(u, q, b, c, g) <=> IF q = p THEN b = 0 /\ c < j /\ g = c ELSE PageAt(t, q, b, c, g)
  <2>1. PageAt(u, q, b, c, g) <=>
          IF q = p /\ b = d /\ c = e THEN g = f ELSE PageAt(s, q, b, c, g)
    BY <1>7 DEF PageSeen
  <2>2. PageAt(s, q, b, c, g) <=>
          IF q = p THEN b = 0 /\ c < j - 1 /\ g = c ELSE PageAt(t, q, b, c, g)
    BY <1>1
  <2>3. c < j <=> c = e \/ c < j - 1
    BY Memory DEF Ptes
  <2> QED
    BY <1>0, <2>1, <2>2, <2>3
<1>11. j # 0 /\ u.mem[dir][0] # NULL
  BY <1>2, <1>7
<1>12. SpaceAt(t, F, u, p, dir, j)
  BY <1>1, <1>7, <1>8, <1>9, <1>10, <1>11 DEF SpaceAt
<1> QED
  BY <1>0, <1>12

\* pg_space_create(), of a process that has no space.
SpaceMade(t, F, u, p) ==
  \E G, o :
    /\ Books(u, G, o) /\ Settled(o) /\ Cardinality(G) \in Nat
    /\ Cardinality(G) >= Cardinality(F) - 2
    /\ u.spoiled = t.spoiled /\ u.cr3[p] # NULL /\ u.mem[u.cr3[p]][0] # NULL
    /\ \A q \in Tasks : q # p => u.cr3[q] = t.cr3[q]
    /\ \A q \in Tasks, b \in Pdes, c \in Ptes, g \in Frames :
         PageAt(u, q, b, c, g) <=>
           IF q = p THEN b = 0 /\ c < sys_pgs /\ g = c ELSE PageAt(t, q, b, c, g)

\* pg_space_create() makes a space that has the system's pages and no other.
LEMMA SpaceBooks ==
  ASSUME NEW t, NEW F, NEW own, Books(t, F, own), Settled(own), NEW p \in Tasks, t.cr3[p] = NULL,
         Cardinality(F) >= 2
  PROVE  SpaceMade(t, F, pg_space_create(t, p), p)
<1> PICK w, dir, x : w = pg_pop(t) /\ dir = pg_pop(t).used /\ x = NewDir(w, dir, p)
  OBVIOUS
<1>0. Cardinality(F) \in Nat /\ sys_pgs \in Nat
  BY FramesFinite, Memory DEF Books, Lists
<1>1. SpaceAt(t, F, x, p, dir, 0)
  BY <1>0, SpaceStart
<1> DEFINE Step1(j, s) == pg_map(s, dir, j - 1, j - 1)
           A == [j \in 0 .. sys_pgs |-> {s \in PageState : SpaceAt(t, F, s, p, dir, j)}]
           L == [y \in (1 .. sys_pgs) \X PageState |->
                   IF Step1(y[1], y[2]) \in PageState THEN Step1(y[1], y[2]) ELSE y[2]]
           m[j \in 0 .. sys_pgs] == IF j = 0 THEN x ELSE pg_map(m[j - 1], dir, j - 1, j - 1)
<1>2. pg_space_create(t, p) = m[sys_pgs]
  BY DEF pg_space_create, NewDir
<1>3. ASSUME NEW j \in 1 .. sys_pgs, NEW s \in A[j - 1]
      PROVE  Step1(j, s) \in A[j] /\ Step1(j, s) \in PageState /\ s \in PageState
  <2>1. SpaceAt(t, F, s, p, dir, j - 1) /\ s \in PageState
    <3>1. j - 1 \in 0 .. sys_pgs
      BY <1>0
    <3> QED
      BY <1>3, <3>1
  <2>2. SpaceAt(t, F, Step1(j, s), p, dir, j)
    BY <1>0, <2>1, SpaceStep
  <2>3. Step1(j, s) \in PageState
    BY <2>2 DEF SpaceAt, Books
  <2> HIDE DEF Step1
  <2>4. Step1(j, s) \in A[j]
    BY <1>0, <2>2, <2>3
  <2> QED
    BY <2>1, <2>3, <2>4
<1>4. x \in A[0]
  <2>1. x \in PageState
    BY <1>1 DEF SpaceAt, Books
  <2> QED
    BY <1>0, <1>1, <2>1
<1>5. A \in [0 .. sys_pgs -> SUBSET PageState] /\ L \in [(1 .. sys_pgs) \X PageState -> PageState]
  <2> HIDE DEF Step1
  <2> QED
    OBVIOUS
<1>6. \A j \in 1 .. sys_pgs : \A s \in A[j - 1] : L[<<j, s>>] = Step1(j, s) /\ L[<<j, s>>] \in A[j]
  <2> HIDE DEF Step1, A
  <2> QED
    BY <1>3
<1> HIDE DEF A, L
<1>7. PICK f \in [0 .. sys_pgs -> PageState] :
        Turns(sys_pgs, x, L, f) /\ \A j \in 0 .. sys_pgs : f[j] \in A[j]
  BY <1>0, <1>4, <1>5, <1>6, LoopIn
<1>8. f = [j \in 0 .. sys_pgs |-> IF j = 0 THEN x ELSE Step1(j, f[j - 1])]
  <2>1. \A j \in 0 .. sys_pgs : f[j] = IF j = 0 THEN x ELSE Step1(j, f[j - 1])
    <3> SUFFICES ASSUME NEW j \in 0 .. sys_pgs, j # 0 PROVE f[j] = Step1(j, f[j - 1])
      BY <1>7 DEF Turns
    <3>1. j \in 1 .. sys_pgs /\ j - 1 \in 0 .. sys_pgs
      BY <1>0
    <3>2. f[j] = L[<<j, f[j - 1]>>]
      BY <1>7, <3>1 DEF Turns
    <3> HIDE DEF Step1
    <3> QED
      BY <1>6, <1>7, <3>1, <3>2
  <2> HIDE DEF Step1
  <2> QED
    BY <1>7, <2>1
<1>9. m = [j \in 0 .. sys_pgs |-> IF j = 0 THEN x ELSE Step1(j, m[j - 1])]
  BY <1>8 DEF m
<1> HIDE DEF m
<1>10. m[0] \in A[0] /\ \A j \in 1 .. sys_pgs : m[j - 1] \in A[j - 1] => m[j] \in A[j]
  <2>1. m[0] = x /\ \A j \in 1 .. sys_pgs : m[j] = Step1(j, m[j - 1])
    <3> HIDE DEF Step1
    <3> QED
      BY <1>0, <1>9
  <2> HIDE DEF Step1
  <2> QED
    BY <1>3, <1>4, <2>1
<1>11. m[sys_pgs] \in A[sys_pgs]
  <2>1. \A j \in 0 .. sys_pgs : m[j] \in A[j]
    BY <1>0, <1>10, AllIn
  <2> QED
    BY <1>0, <2>1
<1> PICK u : u = m[sys_pgs]
  OBVIOUS
<1>12. SpaceAt(t, F, u, p, dir, sys_pgs)
  BY <1>0, <1>11 DEF A
<1>13. SpaceMade(t, F, u, p)
  <2>1. sys_pgs # 0 /\ sys_pgs > 0 /\ NULL \notin Frames
    BY Memory
  <2>2. PICK G, o :
    /\ Books(u, G, o) /\ Settled(o) /\ Cardinality(G) \in Nat
    /\ Cardinality(G) >= Cardinality(F) - (IF sys_pgs = 0 THEN 1 ELSE 2)
    /\ dir \in Frames /\ u.spoiled = t.spoiled /\ (sys_pgs > 0 => u.mem[dir][0] # NULL)
    /\ \A q \in Tasks : u.cr3[q] = IF q = p THEN dir ELSE t.cr3[q]
    /\ \A q \in Tasks, b \in Pdes, c \in Ptes, g \in Frames :
         PageAt(u, q, b, c, g) <=>
           IF q = p THEN b = 0 /\ c < sys_pgs /\ g = c ELSE PageAt(t, q, b, c, g)
    BY <1>12 DEF SpaceAt
  <2>3. u.cr3[p] # NULL /\ u.mem[u.cr3[p]][0] # NULL /\ Cardinality(G) >= Cardinality(F) - 2
    BY <2>1, <2>2
  <2> QED
    BY <2>2, <2>3 DEF SpaceMade
<1> QED
  BY <1>2, <1>13

-----------------------------------------------------------------------------
(* A new process.                                                            *)

\* Where the start of a region is not mapped, that is where pg_alloc() maps the page.
LEMMA AllocFirst ==
  ASSUME NEW t, NEW F, NEW own, Books(t, F, own), Settled(own), NEW p \in Tasks, t.cr3[p] # NULL,
         Cardinality(F) >= 2, NEW up \in BOOLEAN,
         NEW d \in Pdes, NEW e \in Ptes, MayPlace(p, d, e), NEW start, start = d * PTES + e,
         \A g \in Frames : ~PageAt(t, p, d, e, g)
  PROVE  Allocated(t, F, pg_alloc(t, t.cr3[p], start, up), p, d, e)
<1> PICK S : S = Mapped(t, t.cr3[p], Pdes)
  OBVIOUS
<1>1. start \in Int /\ IsFiniteSet(S)
  BY AtEntry, MappedFinite
<1>2. start \notin S
  BY MappedAt DEF Books
<1>3. pg_next_addr(S, start, up) = start
  BY <1>1, <1>2, FirstAddr
<1> QED
  BY <1>2, <1>3, AllocBooks

UserHeaps == 2 * QUARTER .. 3 * QUARTER - 1

\* What every space has: the system's pages, and one page for its user heap.
Complete(t, p) ==
  /\ \A e \in Ptes : e < sys_pgs => \E f \in Frames : PageAt(t, p, 0, e, f)
  /\ \A d \in UserHeaps, e \in Ptes :
       (\E f \in Frames : PageAt(t, p, d, e, f)) <=> d = 2 * QUARTER /\ e = 0

\* Where the regions of an address space begin.
LEMMA Starts ==
  /\ 2 * QUARTER - 1 \in Private /\ 2 * QUARTER \in Private /\ 4 * QUARTER - 1 \in Private
  /\ PTES - 1 \in Ptes /\ 0 \in Ptes /\ sys_pgs \in Ptes
  /\ 2 * QUARTER - 1 \notin UserHeaps /\ 4 * QUARTER - 1 \notin UserHeaps
  /\ 2 * QUARTER \in UserHeaps /\ UserHeaps \subseteq Private
  /\ 0 \notin UserHeaps
  /\ KernelStack = (2 * QUARTER - 1) * PTES + (PTES - 1)
  /\ UserHeap = (2 * QUARTER) * PTES + 0
  /\ UserStack = (4 * QUARTER - 1) * PTES + (PTES - 1)
  /\ KernelHeap = 0 * PTES + sys_pgs
<1>1. /\ QUARTER \in Nat /\ QUARTER >= 1 /\ PTES \in Nat /\ PTES >= 3 /\ sys_pgs \in 2 .. PTES - 1
  BY Memory
<1>2. /\ (2 * QUARTER - 1) * PTES = 2 * QUARTER * PTES - PTES
      /\ (4 * QUARTER - 1) * PTES = 4 * QUARTER * PTES - PTES
      /\ 2 * QUARTER * PTES \in Nat /\ 4 * QUARTER * PTES \in Nat
  BY <1>1
<1>3. /\ KernelStack = (2 * QUARTER - 1) * PTES + (PTES - 1)
      /\ UserHeap = (2 * QUARTER) * PTES + 0
      /\ UserStack = (4 * QUARTER - 1) * PTES + (PTES - 1)
  BY <1>1, <1>2 DEF KernelStack, UserHeap, UserStack
<1>4. KernelHeap = 0 * PTES + sys_pgs
  BY <1>1, SMTT(30) DEF KernelHeap
<1> QED
  BY <1>1, <1>3, <1>4 DEF Private, Ptes, UserHeaps

TaskMade(t, F, u, p) ==
  \E G, o :
    /\ Books(u, G, o) /\ Settled(o) /\ Cardinality(G) \in Nat
    /\ Cardinality(G) >= Cardinality(F) - 8
    /\ u.spoiled = t.spoiled /\ u.cr3[p] # NULL
    /\ \A q \in Tasks : q # p => u.cr3[q] = t.cr3[q]
    /\ \A q \in Tasks, b \in Pdes, c \in Ptes, g \in Frames :
         q # p => (PageAt(u, q, b, c, g) <=> PageAt(t, q, b, c, g))
    /\ Complete(u, p)

\* task_create() gives a process the system's pages, two stacks and a page of heap.
LEMMA TaskBooks ==
  ASSUME NEW t, NEW F, NEW own, Books(t, F, own), Settled(own), NEW p \in Tasks, t.cr3[p] = NULL,
         Cardinality(F) >= TaskPages
  PROVE  TaskMade(t, F, task_create(t, p), p)
<1>0. Cardinality(F) \in Nat /\ Cardinality(F) >= 8
  BY FramesFinite DEF Books, Lists, TaskPages
<1> PICK a \in Private, b \in Private, c \in Private, x \in Ptes, z \in Ptes :
      /\ a = 2 * QUARTER - 1 /\ b = 2 * QUARTER /\ c = 4 * QUARTER - 1 /\ x = PTES - 1 /\ z = 0
  BY Starts
<1>1. /\ a \in Pdes /\ b \in Pdes /\ c \in Pdes /\ a # 0 /\ b # 0 /\ c # 0 /\ a # b /\ b # c /\ a # c
      /\ KernelStack = a * PTES + x /\ UserHeap = b * PTES + z /\ UserStack = c * PTES + x
      /\ a \notin UserHeaps /\ c \notin UserHeaps /\ 0 \notin UserHeaps
  BY Starts, Regions, Memory
<1> PICK dn \in BOOLEAN, up \in BOOLEAN : dn = FALSE /\ up = TRUE
  OBVIOUS
<1> PICK s : s = pg_space_create(t, p)
  OBVIOUS
<1>2. SpaceMade(t, F, s, p)
  BY <1>0, SpaceBooks
<1>3. PICK G, o :
    /\ Books(s, G, o) /\ Settled(o) /\ Cardinality(G) \in Nat
    /\ Cardinality(G) >= Cardinality(F) - 2
    /\ s.spoiled = t.spoiled /\ s.cr3[p] # NULL
    /\ \A q \in Tasks : q # p => s.cr3[q] = t.cr3[q]
    /\ \A q \in Tasks, y \in Pdes, e \in Ptes, g \in Frames :
         PageAt(s, q, y, e, g) <=>
           IF q = p THEN y = 0 /\ e < sys_pgs /\ g = e ELSE PageAt(t, q, y, e, g)
  BY <1>2 DEF SpaceMade
<1> PICK k : k = pg_alloc(s, s.cr3[p], KernelStack, dn)
  OBVIOUS
<1>4. Allocated(s, G, k, p, a, x)
  <2>1. \A g \in Frames : ~PageAt(s, p, a, x, g)
    BY <1>1, <1>3
  <2>2. Cardinality(G) >= 2 /\ MayPlace(p, a, x)
    BY <1>0, <1>3 DEF MayPlace
  <2> QED
    BY <1>1, <1>3, <2>1, <2>2, AllocFirst
<1>5. PICK H, m, f :
    /\ f \in Frames /\ Books(k, H, m) /\ Settled(m) /\ Cardinality(H) \in Nat
    /\ Cardinality(H) >= Cardinality(G) - 2
    /\ k.cr3 = s.cr3 /\ k.spoiled = s.spoiled /\ PageSeen(s, k, p, a, x, f)
  BY <1>4 DEF Allocated
<1> PICK h : h = pg_alloc(k, k.cr3[p], UserHeap, up)
  OBVIOUS
<1>6. Allocated(k, H, h, p, b, z)
  <2>1. \A g \in Frames : ~PageAt(k, p, b, z, g)
    BY <1>1, <1>3, <1>5 DEF PageSeen
  <2>2. Cardinality(H) >= 2 /\ MayPlace(p, b, z) /\ k.cr3[p] # NULL
    BY <1>0, <1>3, <1>5, SMTT(30) DEF MayPlace
  <2> QED
    BY <1>1, <1>5, <2>1, <2>2, AllocFirst
<1>7. PICK I, n, g :
    /\ g \in Frames /\ Books(h, I, n) /\ Settled(n) /\ Cardinality(I) \in Nat
    /\ Cardinality(I) >= Cardinality(H) - 2
    /\ h.cr3 = k.cr3 /\ h.spoiled = k.spoiled /\ PageSeen(k, h, p, b, z, g)
  BY <1>6, ZenonT(60) DEF Allocated
<1> PICK u : u = pg_alloc(h, h.cr3[p], UserStack, dn)
  BY ZenonT(60)
<1>8. Allocated(h, I, u, p, c, x)
  <2>1. \A y \in Frames : ~PageAt(h, p, c, x, y)
    BY <1>1, <1>3, <1>5, <1>7, ZenonT(60) DEF PageSeen
  <2>2. MayPlace(p, c, x) /\ h.cr3[p] # NULL
    BY <1>3, <1>5, <1>7 DEF MayPlace
  <2>3. Cardinality(I) >= 2
    BY <1>0, <1>3, <1>5, <1>7
  <2> QED
    BY <1>1, <1>7, <2>1, <2>2, <2>3, AllocFirst, ZenonT(60)
<1>9. PICK J, l, v :
    /\ v \in Frames /\ Books(u, J, l) /\ Settled(l) /\ Cardinality(J) \in Nat
    /\ Cardinality(J) >= Cardinality(I) - 2
    /\ u.cr3 = h.cr3 /\ u.spoiled = h.spoiled /\ PageSeen(h, u, p, c, x, v)
  BY <1>8, ZenonT(60) DEF Allocated
<1>10. u = task_create(t, p)
  BY <1>5, <1>7 DEF task_create
<1>11. Cardinality(J) >= Cardinality(F) - 8
  BY <1>0, <1>3, <1>5, <1>7, <1>9, SMTT(30)
<1>12. \A q \in Tasks, y \in Pdes, e \in Ptes, w \in Frames :
         q # p => (PageAt(u, q, y, e, w) <=> PageAt(t, q, y, e, w))
  BY <1>3, <1>5, <1>7, <1>9, ZenonT(60) DEF PageSeen
<1>13. \A y \in Pdes, e \in Ptes, w \in Frames :
         PageAt(u, p, y, e, w) <=>
           IF y = c /\ e = x THEN w = v ELSE IF y = b /\ e = z THEN w = g
           ELSE IF y = a /\ e = x THEN w = f ELSE y = 0 /\ e < sys_pgs /\ w = e
  <2> SUFFICES ASSUME NEW y \in Pdes, NEW e \in Ptes, NEW w \in Frames
               PROVE  PageAt(u, p, y, e, w) <=>
                        IF y = c /\ e = x THEN w = v ELSE IF y = b /\ e = z THEN w = g
                        ELSE IF y = a /\ e = x THEN w = f ELSE y = 0 /\ e < sys_pgs /\ w = e
    BY Zenon
  <2>1. PageAt(u, p, y, e, w) <=> IF y = c /\ e = x THEN w = v ELSE PageAt(h, p, y, e, w)
    BY <1>9, ZenonT(60) DEF PageSeen
  <2>2. PageAt(h, p, y, e, w) <=> IF y = b /\ e = z THEN w = g ELSE PageAt(k, p, y, e, w)
    BY <1>7, ZenonT(60) DEF PageSeen
  <2>3. PageAt(k, p, y, e, w) <=> IF y = a /\ e = x THEN w = f ELSE PageAt(s, p, y, e, w)
    BY <1>5 DEF PageSeen
  <2>4. PageAt(s, p, y, e, w) <=> y = 0 /\ e < sys_pgs /\ w = e
    BY <1>3, SMTT(30)
  <2> QED
    BY <2>1, <2>2, <2>3, <2>4, Zenon
<1>14. Complete(u, p)
  <2>1. ASSUME NEW e \in Ptes, e < sys_pgs PROVE \E w \in Frames : PageAt(u, p, 0, e, w)
    <3>1. e \in Frames /\ 0 \in Pdes
      BY <2>1, Regions, Memory, SMTT(30) DEF Ptes, Frames
    <3>2. PageAt(u, p, 0, e, e)
      BY <1>1, <1>13, <2>1, <3>1, ZenonT(60)
    <3> QED
      BY <3>1, <3>2, ZenonT(60)
  <2>2. ASSUME NEW d \in UserHeaps, NEW e \in Ptes
        PROVE  (\E w \in Frames : PageAt(u, p, d, e, w)) <=> d = 2 * QUARTER /\ e = 0
    <3>1. d \in Pdes /\ d # a /\ d # c /\ d # 0
      BY <1>1, Starts, Regions, SMTT(30)
    <3>2. \A w \in Frames : PageAt(u, p, d, e, w) <=> d = b /\ e = z /\ w = g
      BY <1>13, <3>1, ZenonT(60)
    <3> QED
      BY <1>7, <3>2, ZenonT(60)
  <2> QED
    BY <2>1, <2>2, ZenonT(60) DEF Complete
<1>15. u.spoiled = t.spoiled /\ u.cr3[p] # NULL /\ \A q \in Tasks : q # p => u.cr3[q] = t.cr3[q]
  <2>1. u.spoiled = t.spoiled /\ u.cr3 = s.cr3
    BY <1>3, <1>5, <1>7, <1>9, ZenonT(60)
  <2> QED
    BY <1>3, <2>1, ZenonT(60)
<1> QED
  BY <1>9, <1>10, <1>11, <1>12, <1>14, <1>15 DEF TaskMade

-----------------------------------------------------------------------------
(* The beginning.                                                            *)

\* The inductive invariant: every page in one list, and with one use, until a fork or an
\* exec.
Sound(t) ==
  \E F, own :
    /\ Books(t, F, own) /\ Settled(own) /\ t.cr3[IDLE_PID] # NULL
    /\ \A p \in Tasks : t.cr3[p] # NULL => Complete(t, p)

PagingInv ==
  /\ mm \in PageState /\ \E F : Lists(mm, F)
  /\ ~mm.spoiled => Sound(mm)

\* paging_init() has taken the first j pages.
FirstTaken(t, j) ==
  /\ t \in PageState /\ Lists(t, j .. num_pgs - 1) /\ t.free = j
  /\ \A f \in j .. num_pgs - 1 : t.next[f] = IF f = num_pgs - 1 THEN NULL ELSE f + 1
  /\ \A p \in Tasks : t.cr3[p] = NULL
  /\ t.spoiled = FALSE

AllFree == [free |-> 0, used |-> NULL,
            next |-> [f \in Frames |-> IF f = num_pgs - 1 THEN NULL ELSE f + 1],
            prev |-> [f \in Frames |-> IF f = 0 THEN NULL ELSE f - 1],
            mem  |-> [f \in Frames |-> Blank],
            cr3  |-> [p \in Tasks |-> NULL],
            spoiled |-> FALSE]

\* At boot every page is free, in the order of the addresses.
LEMMA FirstLists == FirstTaken(AllFree, 0)
<1>1. num_pgs \in Nat /\ num_pgs >= 7 /\ NULL \notin Frames /\ Frames = 0 .. num_pgs - 1
      /\ FrameOrNull = Frames \cup {NULL}
  BY Memory DEF Frames, FrameOrNull
<1>2. /\ AllFree.free = 0 /\ AllFree.used = NULL /\ AllFree.spoiled = FALSE
      /\ \A f \in Frames : AllFree.next[f] = IF f = num_pgs - 1 THEN NULL ELSE f + 1
      /\ \A f \in Frames : AllFree.prev[f] = IF f = 0 THEN NULL ELSE f - 1
      /\ \A p \in Tasks : AllFree.cr3[p] = NULL
  BY DEF AllFree
<1>3. AllFree \in PageState
  <2>1. /\ 0 \in FrameOrNull /\ NULL \in FrameOrNull
        /\ [f \in Frames |-> IF f = num_pgs - 1 THEN NULL ELSE f + 1] \in [Frames -> FrameOrNull]
        /\ [f \in Frames |-> IF f = 0 THEN NULL ELSE f - 1] \in [Frames -> FrameOrNull]
    BY <1>1
  <2>2. /\ [f \in Frames |-> Blank] \in [Frames -> [Entries -> FrameOrNull]]
        /\ [p \in Tasks |-> NULL] \in [Tasks -> FrameOrNull] /\ FALSE \in BOOLEAN
    BY <2>1, BlankType
  <2> QED
    BY <2>1, <2>2 DEF AllFree, PageState
<1> DEFINE k == [f \in Frames |-> f]
<1> PICK t : t = AllFree
  OBVIOUS
<1>4. Listing(t, Frames, num_pgs, k)
  <2>1. k \in [Frames -> Nat] /\ \A f \in Frames : k[f] = f
    BY <1>1
  <2> HIDE DEF k
  <2>2. /\ \A f \in Frames : k[f] < IF f \in Frames THEN num_pgs ELSE num_pgs - num_pgs
        /\ \A f, g \in Frames : (f \in Frames <=> g \in Frames) /\ k[f] = k[g] => f = g
    BY <1>1, <2>1
  <2>3. ASSUME NEW f \in Frames, t.next[f] # NULL
        PROVE  /\ t.next[f] \in Frames <=> f \in Frames
               /\ k[t.next[f]] = k[f] + 1
               /\ t.prev[t.next[f]] = f
    <3>1. f + 1 \in Frames /\ t.next[f] = f + 1
      BY <1>1, <1>2, <2>3
    <3> PICK g \in Frames : g = f + 1 /\ g # 0 /\ g - 1 = f
      BY <1>1, <3>1
    <3>2. t.prev[g] = f /\ k[g] = g
      BY <1>2, <2>1
    <3> QED
      BY <2>1, <3>1, <3>2
  <2>4. ASSUME NEW f \in Frames
        PROVE  IF k[f] = 0 THEN t.prev[f] = NULL ELSE t.prev[f] # NULL /\ t.next[t.prev[f]] = f
    <3>1. CASE f = 0
      BY <1>2, <2>1, <3>1
    <3>2. CASE f # 0
      <4>1. f - 1 \in Frames /\ f - 1 # num_pgs - 1 /\ (f - 1) + 1 = f /\ t.prev[f] = f - 1
        BY <1>1, <1>2, <3>2
      <4>2. t.next[f - 1] = f
        BY <1>2, <4>1
      <4> QED
        BY <1>1, <2>1, <3>2, <4>1, <4>2
    <3> QED
      BY <3>1, <3>2
  <2>5. Frames # {} /\ t.free \in Frames /\ k[t.free] = 0 /\ t.used = NULL
    BY <1>1, <1>2, <2>1
  <2> QED
    BY <2>1, <2>2, <2>3, <2>4, <2>5 DEF Listing
<1> HIDE DEF k
<1>5. Lists(t, Frames)
  BY <1>4, FramesFinite DEF Lists
<1> QED
  BY <1>1, <1>2, <1>3, <1>5 DEF FirstTaken

\* Each pg_pop() at boot takes the page with the next address.
LEMMA NextTaken ==
  ASSUME NEW j \in 1 .. sys_pgs, NEW t, FirstTaken(t, j - 1)
  PROVE  FirstTaken(pg_pop(t), j)
<1>1. /\ num_pgs \in Nat /\ sys_pgs + 5 <= num_pgs /\ sys_pgs \in Nat /\ Frames = 0 .. num_pgs - 1
      /\ j - 1 \in Frames /\ j \in Frames /\ j - 1 # num_pgs - 1
  BY Memory DEF Frames
<1> PICK i, F : i = j - 1 /\ F = i .. num_pgs - 1
  OBVIOUS
<1>2. /\ t \in PageState /\ Lists(t, F) /\ t.free = i /\ i \in F /\ i \in Frames
      /\ \A f \in F : t.next[f] = IF f = num_pgs - 1 THEN NULL ELSE f + 1
      /\ \A p \in Tasks : t.cr3[p] = NULL
      /\ t.spoiled = FALSE
  BY <1>1 DEF FirstTaken
<1> PICK u : u = pg_pop(t)
  OBVIOUS
<1>3. u \in PageState /\ Lists(u, F \ {i})
  BY <1>2, PopLists
<1>4. /\ u.free = t.next[i] /\ u.cr3 = t.cr3 /\ u.spoiled = t.spoiled
      /\ \A g \in Frames : u.next[g] = IF g = i THEN t.used ELSE t.next[g]
  BY <1>2, PopFields
<1>5. F \ {i} = j .. num_pgs - 1 /\ i + 1 = j
  BY <1>1
<1>6. u.free = j
  BY <1>1, <1>2, <1>4, <1>5
<1>7. \A f \in j .. num_pgs - 1 : u.next[f] = IF f = num_pgs - 1 THEN NULL ELSE f + 1
  BY <1>1, <1>2, <1>4
<1> QED
  BY <1>2, <1>3, <1>4, <1>5, <1>6, <1>7 DEF FirstTaken

\* The loop of paging_init().
LEMMA SystemTaken ==
  ASSUME NEW t, t = LET s[j \in 0 .. sys_pgs] == IF j = 0 THEN AllFree ELSE pg_pop(s[j - 1])
                    IN s[sys_pgs]
  PROVE  FirstTaken(t, sys_pgs)
<1>0. sys_pgs \in Nat
  BY Memory
<1> PICK x : x = AllFree
  OBVIOUS
<1> DEFINE A == [j \in 0 .. sys_pgs |-> {s \in PageState : FirstTaken(s, j)}]
           L == [y \in (1 .. sys_pgs) \X PageState |->
                   IF pg_pop(y[2]) \in PageState THEN pg_pop(y[2]) ELSE y[2]]
           m[j \in 0 .. sys_pgs] == IF j = 0 THEN x ELSE pg_pop(m[j - 1])
<1>1. t = m[sys_pgs]
  OBVIOUS
<1>2. ASSUME NEW j \in 1 .. sys_pgs, NEW s \in A[j - 1]
      PROVE  pg_pop(s) \in A[j] /\ pg_pop(s) \in PageState /\ s \in PageState
  <2>1. FirstTaken(s, j - 1) /\ s \in PageState
    <3>1. j - 1 \in 0 .. sys_pgs
      BY <1>0
    <3> QED
      BY <1>2, <3>1
  <2>2. FirstTaken(pg_pop(s), j)
    BY <1>0, <2>1, NextTaken
  <2>3. pg_pop(s) \in PageState
    BY <2>2 DEF FirstTaken
  <2>4. pg_pop(s) \in A[j]
    BY <1>0, <2>2, <2>3
  <2> QED
    BY <2>1, <2>3, <2>4
<1>3. x \in A[0]
  BY <1>0, FirstLists DEF FirstTaken
<1>4. A \in [0 .. sys_pgs -> SUBSET PageState] /\ L \in [(1 .. sys_pgs) \X PageState -> PageState]
  OBVIOUS
<1>5. \A j \in 1 .. sys_pgs : \A s \in A[j - 1] : L[<<j, s>>] = pg_pop(s) /\ L[<<j, s>>] \in A[j]
  <2> HIDE DEF A
  <2> QED
    BY <1>2
<1> HIDE DEF A, L
<1>6. PICK f \in [0 .. sys_pgs -> PageState] :
        Turns(sys_pgs, x, L, f) /\ \A j \in 0 .. sys_pgs : f[j] \in A[j]
  BY <1>0, <1>3, <1>4, <1>5, LoopIn
<1>7. f = [j \in 0 .. sys_pgs |-> IF j = 0 THEN x ELSE pg_pop(f[j - 1])]
  <2>1. \A j \in 0 .. sys_pgs : f[j] = IF j = 0 THEN x ELSE pg_pop(f[j - 1])
    <3> SUFFICES ASSUME NEW j \in 0 .. sys_pgs, j # 0 PROVE f[j] = pg_pop(f[j - 1])
      BY <1>6 DEF Turns
    <3>1. j \in 1 .. sys_pgs /\ j - 1 \in 0 .. sys_pgs
      BY <1>0
    <3>2. f[j] = L[<<j, f[j - 1]>>]
      BY <1>6, <3>1 DEF Turns
    <3> QED
      BY <1>5, <1>6, <3>1, <3>2
  <2> QED
    BY <1>6, <2>1
<1>8. m = [j \in 0 .. sys_pgs |-> IF j = 0 THEN x ELSE pg_pop(m[j - 1])]
  BY <1>7 DEF m
<1> HIDE DEF m
<1>9. m[0] \in A[0] /\ \A j \in 1 .. sys_pgs : m[j - 1] \in A[j - 1] => m[j] \in A[j]
  <2>1. m[0] = x /\ \A j \in 1 .. sys_pgs : m[j] = pg_pop(m[j - 1])
    BY <1>0, <1>8
  <2> QED
    BY <1>2, <1>3, <2>1
<1>10. m[sys_pgs] \in A[sys_pgs]
  <2>1. \A j \in 0 .. sys_pgs : m[j] \in A[j]
    BY <1>0, <1>9, AllIn
  <2> QED
    BY <1>0, <2>1
<1> QED
  BY <1>0, <1>1, <1>10 DEF A

\* After boot the pages of the system are taken, and the others are free.
LEMMA FirstBooks ==
  ASSUME NEW t, FirstTaken(t, sys_pgs)
  PROVE  \E F, own : Books(t, F, own) /\ Settled(own) /\ Cardinality(F) >= 5
<1> DEFINE F == sys_pgs .. num_pgs - 1
           own == [f \in Frames |-> IF f < sys_pgs THEN AsSystem ELSE AsFree]
<1>1. /\ num_pgs \in Nat /\ sys_pgs \in Nat /\ sys_pgs + 5 <= num_pgs /\ Frames = 0 .. num_pgs - 1
      /\ NULL \notin Frames /\ IDLE_PID \in Tasks
  BY Memory, PagingAssumption DEF Frames
<1>2. Cardinality(F) >= 5
  <2> PICK n \in Int : n = num_pgs - 1
    BY <1>1
  <2>1. Cardinality(sys_pgs .. n) = IF sys_pgs > n THEN 0 ELSE n - sys_pgs + 1
    BY <1>1, FS_Interval
  <2> QED
    BY <1>1, <2>1
<1>3. \A f \in Frames : own[f] = IF f < sys_pgs THEN AsSystem ELSE AsFree
  OBVIOUS
<1>4. \A f \in Frames : f \in F <=> ~(f < sys_pgs)
  BY <1>1
<1>5. t \in PageState /\ Lists(t, F) /\ \A p \in Tasks : t.cr3[p] = NULL
  BY DEF FirstTaken
<1> HIDE DEF F, own
<1>6. OwnRoles(t, own)
  BY <1>3 DEF OwnRoles, IsRole
<1>7. OwnFree(F, own) /\ OwnSystem(own)
  BY <1>3, <1>4, RolesApart DEF OwnFree, OwnSystem
<1>8. OwnDirs(t, own)
  BY <1>1, <1>3, <1>5, RolesApart DEF OwnDirs
<1>9. OwnTables(t, own)
  BY <1>3, <1>5, RolesApart DEF OwnTables, TableAt
<1>10. OwnPages(t, own)
  BY <1>3, <1>5, RolesApart DEF OwnPages, PageAt
<1>11. OwnHeap(t, own) /\ SharedHeap(t, own) /\ SystemAt(t)
  BY <1>1, <1>3, <1>5, RolesApart DEF OwnHeap, SharedHeap, SystemAt, PageAt
<1>12. Books(t, F, own)
  BY <1>5, <1>6, <1>7, <1>8, <1>9, <1>10, <1>11 DEF Books, Owns
<1>13. Settled(own)
  BY <1>3, RolesApart DEF Settled
<1> QED
  BY <1>2, <1>12, <1>13

\* The idle process's space, with a page for each heap.
IdleSpace(t) ==
  LET i == pg_space_create(t, IDLE_PID)
      k == pg_alloc(i, i.cr3[IDLE_PID], KernelHeap, TRUE)
  IN pg_alloc(k, i.cr3[IDLE_PID], UserHeap, TRUE)

\* The reference directory is the first space.
LEMMA FirstSound ==
  ASSUME NEW t, FirstTaken(t, sys_pgs)
  PROVE  Sound(IdleSpace(t)) /\ IdleSpace(t).spoiled = FALSE
<1> PICK up \in BOOLEAN : up = TRUE
  OBVIOUS
<1> PICK p \in Tasks : p = IDLE_PID
  BY PagingAssumption
<1> PICK i : i = pg_space_create(t, p)
  OBVIOUS
<1> PICK k : k = pg_alloc(i, i.cr3[p], KernelHeap, up)
  OBVIOUS
<1> PICK u : u = pg_alloc(k, k.cr3[p], UserHeap, up)
  OBVIOUS
<1>2. PICK F, own : Books(t, F, own) /\ Settled(own) /\ Cardinality(F) >= 5
  BY FirstBooks
<1>3. Cardinality(F) \in Nat /\ (\A q \in Tasks : t.cr3[q] = NULL) /\ t.spoiled = FALSE
  BY <1>2, FramesFinite DEF Books, Lists, FirstTaken
<1>4. SpaceMade(t, F, i, p)
  BY <1>2, <1>3, SpaceBooks
<1>5. PICK G, o :
    /\ Books(i, G, o) /\ Settled(o) /\ Cardinality(G) \in Nat
    /\ Cardinality(G) >= Cardinality(F) - 2
    /\ i.spoiled = t.spoiled /\ i.cr3[p] # NULL /\ i.mem[i.cr3[p]][0] # NULL
    /\ \A q \in Tasks : q # p => i.cr3[q] = t.cr3[q]
    /\ \A q \in Tasks, b \in Pdes, c \in Ptes, g \in Frames :
         PageAt(i, q, b, c, g) <=>
           IF q = p THEN b = 0 /\ c < sys_pgs /\ g = c ELSE PageAt(t, q, b, c, g)
  BY <1>4 DEF SpaceMade
<1> PICK a \in Pdes, b \in Private, x \in Ptes, z \in Ptes :
      /\ a = 0 /\ b = 2 * QUARTER /\ x = sys_pgs /\ z = 0
  BY Starts, Regions
<1>6. /\ b \in Pdes /\ b # 0 /\ KernelHeap = a * PTES + x /\ UserHeap = b * PTES + z
      /\ HeapEntry(a, x) /\ 0 \notin UserHeaps /\ ~(x < sys_pgs)
  BY Starts, Regions, Memory DEF HeapEntry
<1>7. Allocated(i, G, k, p, a, x)
  <2>1. \A g \in Frames : ~PageAt(i, p, a, x, g)
    BY <1>5, <1>6
  <2>2. Cardinality(G) >= 2 /\ MayPlace(p, a, x)
    BY <1>2, <1>3, <1>5, <1>6 DEF MayPlace
  <2> QED
    BY <1>5, <1>6, <2>1, <2>2, AllocFirst
<1>8. PICK H, m, f :
    /\ f \in Frames /\ Books(k, H, m) /\ Settled(m) /\ Cardinality(H) \in Nat
    /\ i.mem[i.cr3[p]][a] # NULL => Cardinality(H) >= Cardinality(G) - 1
    /\ k.cr3 = i.cr3 /\ k.spoiled = i.spoiled /\ PageSeen(i, k, p, a, x, f)
  BY <1>7 DEF Allocated
<1>9. Allocated(k, H, u, p, b, z)
  <2>1. \A g \in Frames : ~PageAt(k, p, b, z, g)
    BY <1>5, <1>6, <1>8, ZenonT(60) DEF PageSeen
  <2>2. MayPlace(p, b, z) /\ k.cr3[p] # NULL
    BY <1>5, <1>8 DEF MayPlace
  <2>3. Cardinality(H) >= 2
    BY <1>2, <1>3, <1>5, <1>8, SMTT(30)
  <2> QED
    BY <1>6, <1>8, <2>1, <2>2, <2>3, AllocFirst
<1>10. PICK I, n, v :
    /\ v \in Frames /\ Books(u, I, n) /\ Settled(n)
    /\ u.cr3 = k.cr3 /\ u.spoiled = k.spoiled /\ PageSeen(k, u, p, b, z, v)
  BY <1>9 DEF Allocated
<1>11. \A y \in Pdes, e \in Ptes, w \in Frames :
         PageAt(u, p, y, e, w) <=>
           IF y = b /\ e = z THEN w = v ELSE IF y = a /\ e = x THEN w = f
           ELSE y = 0 /\ e < sys_pgs /\ w = e
  <2> SUFFICES ASSUME NEW y \in Pdes, NEW e \in Ptes, NEW w \in Frames
               PROVE  PageAt(u, p, y, e, w) <=>
                        IF y = b /\ e = z THEN w = v ELSE IF y = a /\ e = x THEN w = f
                        ELSE y = 0 /\ e < sys_pgs /\ w = e
    BY Zenon
  <2>1. PageAt(u, p, y, e, w) <=> IF y = b /\ e = z THEN w = v ELSE PageAt(k, p, y, e, w)
    BY <1>10 DEF PageSeen
  <2>2. PageAt(k, p, y, e, w) <=> IF y = a /\ e = x THEN w = f ELSE PageAt(i, p, y, e, w)
    BY <1>8 DEF PageSeen
  <2>3. PageAt(i, p, y, e, w) <=> y = 0 /\ e < sys_pgs /\ w = e
    BY <1>5
  <2> QED
    BY <2>1, <2>2, <2>3
<1>12. Complete(u, p)
  <2>1. ASSUME NEW e \in Ptes, e < sys_pgs PROVE \E w \in Frames : PageAt(u, p, 0, e, w)
    <3>1. e \in Frames /\ 0 \in Pdes
      BY <2>1, Regions, Memory DEF Ptes, Frames
    <3>2. PageAt(u, p, 0, e, e)
      BY <1>6, <1>11, <2>1, <3>1
    <3> QED
      BY <3>1, <3>2
  <2>2. ASSUME NEW d \in UserHeaps, NEW e \in Ptes
        PROVE  (\E w \in Frames : PageAt(u, p, d, e, w)) <=> d = 2 * QUARTER /\ e = 0
    <3>1. d \in Pdes /\ d # a /\ d # 0
      BY <1>6, Starts, Regions
    <3>2. \A w \in Frames : PageAt(u, p, d, e, w) <=> d = b /\ e = z /\ w = v
      BY <1>11, <3>1, ZenonT(60)
    <3> QED
      BY <1>10, <3>2
  <2> QED
    BY <2>1, <2>2 DEF Complete
<1>13. u.spoiled = FALSE /\ u.cr3[p] # NULL /\ \A q \in Tasks : q # p => u.cr3[q] = NULL
  <2>1. u.spoiled = t.spoiled /\ u.cr3 = i.cr3
    BY <1>5, <1>8, <1>10
  <2> QED
    BY <1>3, <1>5, <2>1
<1>14. Sound(u)
  BY <1>10, <1>12, <1>13 DEF Sound
<1> QED
  BY <1>8, <1>13, <1>14 DEF IdleSpace

\* The memory starts in the invariant.
LEMMA InitPaging == PagingInit => PagingInv
<1> SUFFICES ASSUME PagingInit PROVE PagingInv
  OBVIOUS
<1> DEFINE t == LET s[j \in 0 .. sys_pgs] == IF j = 0 THEN AllFree ELSE pg_pop(s[j - 1])
                IN s[sys_pgs]
<1>1. mm = IdleSpace(t)
  BY DEF PagingInit, AllFree, IdleSpace
<1>2. FirstTaken(t, sys_pgs)
  BY SystemTaken
<1> HIDE DEF t
<1>3. Sound(mm)
  BY <1>1, <1>2, FirstSound
<1> QED
  BY <1>3 DEF PagingInv, Sound, Books

-----------------------------------------------------------------------------
(* The calls that add pages.                                                 *)

\* A space with the same pages is still complete.
LEMMA CompleteSame ==
  ASSUME NEW t, NEW u, NEW p \in Tasks, Complete(t, p),
         \A b \in Pdes, c \in Ptes, g \in Frames : PageAt(u, p, b, c, g) <=> PageAt(t, p, b, c, g)
  PROVE  Complete(u, p)
<1>1. 0 \in Pdes /\ UserHeaps \subseteq Pdes
  BY Regions, Starts
<1> QED
  BY <1>1 DEF Complete

\* A space with one more page is still complete, if it is not a page of the system or user heap.
LEMMA CompleteSeen ==
  ASSUME NEW t, NEW u, NEW p \in Tasks, NEW d \in Pdes, NEW e \in Ptes, NEW f \in Frames,
         PageSeen(t, u, p, d, e, f), d \notin UserHeaps, ~(d = 0 /\ e < sys_pgs),
         NEW q \in Tasks, Complete(t, q)
  PROVE  Complete(u, q)
<1>1. 0 \in Pdes /\ UserHeaps \subseteq Pdes
  BY Regions, Starts
<1>2. ASSUME NEW c \in Ptes, c < sys_pgs PROVE \E g \in Frames : PageAt(u, q, 0, c, g)
  BY <1>1, <1>2 DEF Complete, PageSeen
<1>3. ASSUME NEW b \in UserHeaps, NEW c \in Ptes
      PROVE  (\E g \in Frames : PageAt(u, q, b, c, g)) <=> b = 2 * QUARTER /\ c = 0
  <2>1. \A g \in Frames : PageAt(u, q, b, c, g) <=> PageAt(t, q, b, c, g)
    BY <1>1 DEF PageSeen
  <2> QED
    BY <2>1 DEF Complete
<1> QED
  BY <1>2, <1>3 DEF Complete

\* Enough() counts the free pages.
LEMMA EnoughMeans ==
  ASSUME NEW F, Lists(mm, F), mm \in PageState, NEW n, Enough(n)
  PROVE  Cardinality(F) >= n /\ Cardinality(F) \in Nat
BY ListedBoth, FramesFinite DEF Enough, Lists

SoundIn(t, F, own) ==
  /\ Books(t, F, own) /\ Settled(own) /\ t.cr3[IDLE_PID] # NULL
  /\ \A p \in Tasks : t.cr3[p] # NULL => Complete(t, p)

\* A page that is added, but not to a user heap or the system, keeps the invariant.
LEMMA SoundAfter ==
  ASSUME NEW t, NEW F, NEW own, SoundIn(t, F, own), NEW p \in Tasks, NEW d \in Pdes, NEW e \in Ptes,
         d \notin UserHeaps, ~(d = 0 /\ e < sys_pgs), NEW u, Allocated(t, F, u, p, d, e)
  PROVE  Sound(u) /\ u.spoiled = t.spoiled
<1>1. PICK G, o, f :
    /\ f \in Frames /\ Books(u, G, o) /\ Settled(o)
    /\ u.cr3 = t.cr3 /\ u.spoiled = t.spoiled /\ PageSeen(t, u, p, d, e, f)
  BY DEF Allocated
<1>2. \A q \in Tasks : u.cr3[q] # NULL => Complete(u, q)
  BY <1>1, CompleteSeen DEF SoundIn
<1> QED
  BY <1>1, <1>2 DEF Sound, SoundIn

\* A new process keeps the invariant.
LEMMA CreateStep ==
  ASSUME NEW F, NEW own, SoundIn(mm, F, own), NEW p \in Tasks, Create(p)
  PROVE  Sound(mm') /\ mm'.spoiled = mm.spoiled
<1> PICK t, u : t = mm /\ u = mm'
  OBVIOUS
<1>1. /\ Books(t, F, own) /\ Settled(own) /\ t.cr3[p] = NULL /\ u = task_create(t, p)
      /\ IDLE_PID \in Tasks /\ t.cr3[IDLE_PID] # NULL
      /\ \A q \in Tasks : t.cr3[q] # NULL => Complete(t, q)
  BY PagingAssumption DEF Create, Exists, SoundIn
<1>2. Cardinality(F) >= TaskPages
  BY EnoughMeans DEF Create, SoundIn, Books
<1>3. TaskMade(t, F, u, p)
  BY <1>1, <1>2, TaskBooks
<1>4. PICK G, o :
    /\ Books(u, G, o) /\ Settled(o) /\ u.spoiled = t.spoiled /\ u.cr3[p] # NULL
    /\ \A q \in Tasks : q # p => u.cr3[q] = t.cr3[q]
    /\ \A q \in Tasks, b \in Pdes, c \in Ptes, g \in Frames :
         q # p => (PageAt(u, q, b, c, g) <=> PageAt(t, q, b, c, g))
    /\ Complete(u, p)
  BY <1>3 DEF TaskMade
<1>5. ASSUME NEW q \in Tasks, u.cr3[q] # NULL PROVE Complete(u, q)
  <2>1. CASE q = p
    BY <1>4, <2>1
  <2>2. CASE q # p
    <3>1. Complete(t, q)
      BY <1>1, <1>4, <1>5, <2>2
    <3> QED
      BY <1>4, <2>2, <3>1, CompleteSame
  <2> QED
    BY <2>1, <2>2
<1>6. u.cr3[IDLE_PID] # NULL
  BY <1>1, <1>4
<1>7. Sound(u)
  BY <1>4, <1>5, <1>6 DEF Sound
<1> QED
  BY <1>4, <1>7

\* A page for a stack, user's or kernel's, keeps the invariant.
LEMMA StackFault ==
  ASSUME NEW F, NEW own, SoundIn(mm, F, own), NEW p \in Tasks, NEW kernel \in BOOLEAN,
         stack_pg_fault(p, kernel)
  PROVE  Sound(mm') /\ mm'.spoiled = mm.spoiled
<1> PICK t, u : t = mm /\ u = mm'
  OBVIOUS
<1> PICK q \in Nat : /\ q = IF kernel THEN 2 * QUARTER ELSE 4 * QUARTER
                     /\ q >= QUARTER
  BY Memory
<1> PICK start : start = IF kernel THEN KernelStack ELSE UserStack
  OBVIOUS
<1> PICK dn \in BOOLEAN : dn = FALSE
  OBVIOUS
<1>1. /\ start = q * PTES - 1 /\ q - QUARTER .. q - 1 \subseteq Private
      /\ \A d \in q - QUARTER .. q - 1 : d \notin UserHeaps /\ d # 0
      /\ q - QUARTER .. q - 1 = IF kernel THEN QUARTER .. 2 * QUARTER - 1
                                 ELSE 3 * QUARTER .. 4 * QUARTER - 1
  BY Memory DEF KernelStack, UserStack, Private, UserHeaps
<1> PICK D : D = q - QUARTER .. q - 1
  OBVIOUS
<1>2. /\ Books(t, F, own) /\ Settled(own) /\ t.cr3[p] # NULL /\ SoundIn(t, F, own)
      /\ u = pg_alloc(t, t.cr3[p], start, dn)
      /\ Cardinality(Mapped(t, t.cr3[p], D)) < MaxGrow
  BY <1>1 DEF stack_pg_fault, Exists, Grown, SoundIn
<1>3. Cardinality(F) >= 2
  BY EnoughMeans DEF stack_pg_fault, SoundIn, Books
<1> PICK S : S = Mapped(t, t.cr3[p], Pdes)
  OBVIOUS
<1>4. IsFiniteSet(S) /\ Mapped(t, t.cr3[p], D) = S \cap Pages(D)
  BY <1>1, Regions, MappedFinite, ZenonT(60)
<1>5. Cardinality(S \cap Pages(q - QUARTER .. q - 1)) < MaxGrow
  BY <1>2, <1>4
<1>6. PICK d \in q - QUARTER .. q - 1, e \in Ptes :
         pg_next_addr(S, q * PTES - 1, FALSE) = d * PTES + e /\ d * PTES + e \notin S
  BY <1>4, <1>5, StackAddr
<1>7. d \in Private /\ d \in Pdes /\ d \notin UserHeaps /\ d # 0 /\ MayPlace(p, d, e)
  BY <1>1, Regions DEF MayPlace
<1>8. pg_next_addr(S, start, dn) = d * PTES + e
  BY <1>1, <1>6
<1>9. Allocated(t, F, u, p, d, e)
  BY <1>2, <1>3, <1>6, <1>7, <1>8, AllocBooks
<1> QED
  BY <1>2, <1>7, <1>9, SoundAfter

\* A page for the kernel heap keeps the invariant.
LEMMA SbrkStep ==
  ASSUME NEW F, NEW own, SoundIn(mm, F, own), ksbrk
  PROVE  Sound(mm') /\ mm'.spoiled = mm.spoiled
<1> PICK t, u : t = mm /\ u = mm'
  OBVIOUS
<1> PICK p \in Tasks : p = IDLE_PID
  BY PagingAssumption
<1> PICK up \in BOOLEAN : up = TRUE
  OBVIOUS
<1>1. Pdes \ Private = 0 .. QUARTER - 1 /\ 0 \in Pdes
  BY Memory DEF Pdes, Private
<1>2. /\ Books(t, F, own) /\ Settled(own) /\ t.cr3[p] # NULL /\ SoundIn(t, F, own)
      /\ u = pg_alloc(t, t.cr3[p], KernelHeap, up)
      /\ Cardinality(Mapped(t, t.cr3[p], Pdes \ Private)) < sys_pgs + MaxGrow
      /\ Complete(t, p) /\ t \in PageState
  BY DEF ksbrk, Exists, Grown, SoundIn, Books
<1>3. Cardinality(F) >= 2
  BY EnoughMeans DEF ksbrk, SoundIn, Books
<1> PICK S : S = Mapped(t, t.cr3[p], Pdes)
  OBVIOUS
<1>4. IsFiniteSet(S) /\ Mapped(t, t.cr3[p], Pdes \ Private) = S \cap Pages(Pdes \ Private)
  BY MappedFinite
<1>5. Cardinality(S \cap Pages(0 .. QUARTER - 1)) < sys_pgs + MaxGrow
  BY <1>1, <1>2, <1>4
<1>6. 0 .. sys_pgs - 1 \subseteq S
  <2> SUFFICES ASSUME NEW e \in 0 .. sys_pgs - 1 PROVE e \in S
    OBVIOUS
  <2>1. e \in Ptes /\ e < sys_pgs
    BY Memory DEF Ptes
  <2> PICK d \in Pdes : d = 0
    BY <1>1
  <2>2. \E f \in Frames : PageAt(t, p, d, e, f)
    BY <1>2, <2>1 DEF Complete
  <2>3. d * PTES + e \in S
    BY <1>2, <2>1, <2>2, MappedAt
  <2>4. d * PTES + e = e
    BY <2>1, Memory
  <2> QED
    BY <2>3, <2>4
<1>7. PICK d \in 0 .. QUARTER - 1, e \in Ptes :
           pg_next_addr(S, KernelHeap, TRUE) = d * PTES + e /\ d * PTES + e \notin S
  BY <1>4, <1>5, <1>6, HeapAddr
<1>8. d \in Pdes /\ d \in Pdes \ Private
  BY <1>1
<1>9. ~(d = 0 /\ e < sys_pgs)
  <2>1. ASSUME d = 0, e < sys_pgs PROVE FALSE
    <3>1. d * PTES + e = e /\ e \in 0 .. sys_pgs - 1
      BY <2>1, Memory DEF Ptes
    <3> QED
      BY <1>6, <1>7, <3>1
  <2> QED
    BY <2>1
<1>10. MayPlace(p, d, e) /\ d \notin UserHeaps
  BY <1>8, <1>9, Starts DEF MayPlace, HeapEntry
<1>11. pg_next_addr(S, KernelHeap, up) = d * PTES + e
  BY <1>7
<1>12. Allocated(t, F, u, p, d, e)
  BY <1>2, <1>3, <1>7, <1>8, <1>10, <1>11, AllocBooks
<1>13. SoundIn(t, F, own) /\ d \in Pdes /\ d \notin UserHeaps
  BY <1>2, <1>8, <1>10
<1>14. Sound(u) /\ u.spoiled = t.spoiled
  <2> PICK b \in Pdes : b = d
    BY <1>13
  <2>1. ~(b = 0 /\ e < sys_pgs) /\ b \notin UserHeaps /\ Allocated(t, F, u, p, b, e)
    BY <1>9, <1>12, <1>13
  <2> QED
    BY <1>13, <2>1, SoundAfter
<1> QED
  BY <1>14

\* A page of the kernel heap that is copied to another space keeps the invariant.
LEMMA HeapFault ==
  ASSUME NEW F, NEW own, SoundIn(mm, F, own), NEW p \in Tasks,
         NEW lin \in Pages(Pdes \ Private), heap_pg_fault(p, lin)
  PROVE  Sound(mm') /\ mm'.spoiled = mm.spoiled
<1> PICK t, u : t = mm /\ u = mm'
  OBVIOUS
<1> PICK d \in Pdes \ Private, e \in Ptes : lin = d * PTES + e
  BY DEF Pages
<1>1. /\ Books(t, F, own) /\ Settled(own) /\ t.cr3[p] # NULL /\ SoundIn(t, F, own)
      /\ t.cr3[IDLE_PID] # NULL /\ IDLE_PID \in Tasks /\ t \in PageState /\ Complete(t, p)
      /\ u = pg_map(t, t.cr3[p], Target(t, t.cr3[IDLE_PID], d * PTES + e), d * PTES + e)
      /\ pg_mapped(t, t.cr3[IDLE_PID], d * PTES + e) /\ ~pg_mapped(t, t.cr3[p], d * PTES + e)
      /\ Owns(t, F, own)
  BY PagingAssumption DEF heap_pg_fault, Exists, SoundIn, Books
<1>2. PICK f \in Frames : PageAt(t, IDLE_PID, d, e, f)
  BY <1>1, MappedAt
<1>3. Target(t, t.cr3[IDLE_PID], d * PTES + e) = f
  BY <1>1, <1>2, MappedAt
<1>4. \A g \in Frames : ~PageAt(t, p, d, e, g)
  BY <1>1, MappedAt
<1>5. HeapEntry(d, e)
  <2>1. d = 0 /\ e < sys_pgs => \E g \in Frames : PageAt(t, p, d, e, g)
    BY <1>1 DEF Complete
  <2> QED
    BY <1>4, <2>1 DEF HeapEntry
<1>6. own[f] = AsHeap(d, e)
  BY <1>1, <1>2, <1>5 DEF Owns, OwnHeap
<1>7. FitsRole(own, p, d, e, f, AsHeap(d, e))
  BY <1>5, <1>6 DEF FitsRole
<1>8. F # {}
  <2>1. Cardinality(F) >= 1
    BY EnoughMeans DEF heap_pg_fault, SoundIn, Books
  <2> QED
    BY <2>1, FS_EmptySet
<1>9. NewlyMapped(t, F, own, u, p, d, e, f)
  BY <1>1, <1>3, <1>4, <1>7, <1>8, MapBooks
<1>10. PICK G, o :
    /\ Books(u, G, o)
    /\ \A g \in Frames : o[g] = AsTaken => own[g] = AsTaken /\ g # f
    /\ u.cr3 = t.cr3 /\ u.spoiled = t.spoiled /\ PageSeen(t, u, p, d, e, f)
  BY <1>9 DEF NewlyMapped
<1>11. Settled(o)
  BY <1>1, <1>10 DEF Settled
<1>12. d \notin UserHeaps /\ ~(d = 0 /\ e < sys_pgs)
  BY <1>5, Starts DEF HeapEntry
<1>13. \A q \in Tasks : u.cr3[q] # NULL => Complete(u, q)
  BY <1>10, <1>12, CompleteSeen DEF SoundIn
<1>14. Sound(u)
  BY <1>1, <1>10, <1>11, <1>13 DEF Sound
<1> QED
  BY <1>10, <1>14

-----------------------------------------------------------------------------
(* Pages that are given back.                                                *)

\* s is t with other lists, G the free pages.
OtherLists(t, s, G) ==
  /\ s \in PageState /\ s.mem = t.mem /\ s.cr3 = t.cr3 /\ s.spoiled = t.spoiled
  /\ Lists(s, G)

\* pg_push() of a used page puts it in the free list.
LEMMA PushOne ==
  ASSUME NEW t, NEW s, NEW G, OtherLists(t, s, G), NEW f \in Frames, f \notin G
  PROVE  OtherLists(t, pg_push(s, f), G \cup {f})
<1>1. s \in PageState /\ Lists(s, G)
  BY DEF OtherLists
<1>2. pg_push(s, f) \in PageState /\ Lists(pg_push(s, f), G \cup {f})
  BY <1>1, PushLists
<1>3. /\ pg_push(s, f).mem = s.mem /\ pg_push(s, f).cr3 = s.cr3
      /\ pg_push(s, f).spoiled = s.spoiled
  BY <1>1, PushFields
<1> QED
  BY <1>2, <1>3 DEF OtherLists

Before(D, k) == {x \in D : x < k}

\* What the entries in D of a page point to.
PointedTo(t, tbl, D) == {g \in Frames : \E x \in D : t.mem[tbl][x] = g}

\* They are used, each in one entry.
Unshared(t, F, tbl, D) ==
  \A x \in D, g \in Frames :
    t.mem[tbl][x] = g => g \notin F /\ \A y \in D : t.mem[tbl][y] = g => y = x

PushTarget(t, tbl, D, k, s) ==
  IF k - 1 \in D /\ t.mem[tbl][k - 1] # NULL THEN pg_push(s, t.mem[tbl][k - 1]) ELSE s

\* Each turn of PushAll gives back the page of one entry.
LEMMA PushTargetStep ==
  ASSUME NEW t \in PageState, NEW F, NEW tbl \in Frames, NEW D \in SUBSET Entries,
         Unshared(t, F, tbl, D), NEW k \in Nat \ {0},
         NEW s, OtherLists(t, s, F \cup PointedTo(t, tbl, Before(D, k - 1)))
  PROVE  OtherLists(t, PushTarget(t, tbl, D, k, s), F \cup PointedTo(t, tbl, Before(D, k)))
<1>0. Entries \subseteq Int
  BY Memory DEF Entries, Pdes, Ptes
<1>1. \A x \in D : x < k <=> x < k - 1 \/ x = k - 1
  BY <1>0
<1>2. CASE k - 1 \in D /\ t.mem[tbl][k - 1] # NULL
  <2>1. t.mem[tbl][k - 1] \in FrameOrNull
    BY <1>2 DEF PageState
  <2> PICK f \in Frames : f = t.mem[tbl][k - 1]
    BY <1>2, <2>1 DEF FrameOrNull
  <2>2. PointedTo(t, tbl, Before(D, k)) = PointedTo(t, tbl, Before(D, k - 1)) \cup {f}
    BY <1>1, <1>2 DEF PointedTo, Before
  <2>3. f \notin F
    BY <1>2 DEF Unshared
  <2>4. f \notin PointedTo(t, tbl, Before(D, k - 1))
    <3>1. \A y \in D : t.mem[tbl][y] = f => y = k - 1
      BY <1>2 DEF Unshared
    <3>2. ~(k - 1 < k - 1)
      OBVIOUS
    <3> QED
      BY <3>1, <3>2 DEF PointedTo, Before
  <2> PICK G : G = F \cup PointedTo(t, tbl, Before(D, k - 1))
    OBVIOUS
  <2>5. OtherLists(t, pg_push(s, f), G \cup {f})
    BY <2>3, <2>4, PushOne
  <2>6. G \cup {f} = F \cup PointedTo(t, tbl, Before(D, k))
    BY <2>2
  <2> QED
    BY <1>2, <2>5, <2>6 DEF PushTarget
<1>3. CASE ~(k - 1 \in D /\ t.mem[tbl][k - 1] # NULL)
  <2>1. k - 1 \in D => t.mem[tbl][k - 1] \notin Frames
    BY <1>3, Memory
  <2>2. PointedTo(t, tbl, Before(D, k)) = PointedTo(t, tbl, Before(D, k - 1))
    BY <1>1, <2>1 DEF PointedTo, Before
  <2> QED
    BY <1>3, <2>2 DEF PushTarget
<1> QED
  BY <1>2, <1>3

\* The pages of a table are given back, each of them once.
LEMMA PushAllLists ==
  ASSUME NEW t \in PageState, NEW F, Lists(t, F), NEW tbl \in Frames, NEW D \in SUBSET Entries,
         Unshared(t, F, tbl, D)
  PROVE  OtherLists(t, PushAll(t, tbl, D), F \cup PointedTo(t, tbl, D))
<1> PICK n \in Nat : n = 4 * QUARTER + PTES
  BY Memory
<1>0. Entries \subseteq Int /\ \A x \in D : x < n /\ ~(x < 0)
  BY Memory DEF Entries, Pdes, Ptes
<1> DEFINE Step1(k, s) == PushTarget(t, tbl, D, k, s)
           A == [k \in 0 .. n |->
                   {s \in PageState : OtherLists(t, s, F \cup PointedTo(t, tbl, Before(D, k)))}]
           L == [y \in (1 .. n) \X PageState |->
                   IF Step1(y[1], y[2]) \in PageState THEN Step1(y[1], y[2]) ELSE y[2]]
           m[k \in 0 .. 4 * QUARTER + PTES] ==
             IF k = 0 THEN t
             ELSE IF k - 1 \in D /\ t.mem[tbl][k - 1] # NULL THEN pg_push(m[k - 1], t.mem[tbl][k - 1])
             ELSE m[k - 1]
<1>1. OtherLists(t, t, F \cup PointedTo(t, tbl, Before(D, 0)))
  <2>1. PointedTo(t, tbl, Before(D, 0)) = {}
    BY <1>0 DEF PointedTo, Before
  <2>2. F \cup PointedTo(t, tbl, Before(D, 0)) = F
    BY <2>1
  <2> QED
    BY <2>2 DEF OtherLists
<1>2. PushAll(t, tbl, D) = m[4 * QUARTER + PTES]
  BY DEF PushAll
<1>3. ASSUME NEW j \in 1 .. n, NEW s \in A[j - 1]
      PROVE  Step1(j, s) \in A[j] /\ Step1(j, s) \in PageState /\ s \in PageState
  <2>1. OtherLists(t, s, F \cup PointedTo(t, tbl, Before(D, j - 1))) /\ s \in PageState
    <3>1. j - 1 \in 0 .. n
      OBVIOUS
    <3> QED
      BY <1>3, <3>1
  <2>2. OtherLists(t, Step1(j, s), F \cup PointedTo(t, tbl, Before(D, j)))
    <3>1. j \in Nat \ {0}
      OBVIOUS
    <3> QED
      BY <2>1, <3>1, PushTargetStep
  <2>3. Step1(j, s) \in PageState
    BY <2>2 DEF OtherLists
  <2> HIDE DEF Step1
  <2>4. Step1(j, s) \in A[j]
    BY <2>2, <2>3
  <2> QED
    BY <2>1, <2>3, <2>4
<1>4. t \in A[0]
  BY <1>1
<1>5. A \in [0 .. n -> SUBSET PageState] /\ L \in [(1 .. n) \X PageState -> PageState]
  <2> HIDE DEF Step1
  <2> QED
    OBVIOUS
<1>6. \A j \in 1 .. n : \A s \in A[j - 1] : L[<<j, s>>] = Step1(j, s) /\ L[<<j, s>>] \in A[j]
  <2> HIDE DEF Step1, A
  <2> QED
    BY <1>3
<1> HIDE DEF A, L
<1>7. PICK f \in [0 .. n -> PageState] :
        Turns(n, t, L, f) /\ \A j \in 0 .. n : f[j] \in A[j]
  BY <1>4, <1>5, <1>6, LoopIn
<1>8. f = [j \in 0 .. n |-> IF j = 0 THEN t ELSE Step1(j, f[j - 1])]
  <2>1. \A j \in 0 .. n : f[j] = IF j = 0 THEN t ELSE Step1(j, f[j - 1])
    <3> SUFFICES ASSUME NEW j \in 0 .. n, j # 0 PROVE f[j] = Step1(j, f[j - 1])
      BY <1>7 DEF Turns
    <3>1. j \in 1 .. n /\ j - 1 \in 0 .. n
      OBVIOUS
    <3>2. f[j] = L[<<j, f[j - 1]>>]
      BY <1>7, <3>1 DEF Turns
    <3> HIDE DEF Step1
    <3> QED
      BY <1>6, <1>7, <3>1, <3>2
  <2> HIDE DEF Step1
  <2> QED
    BY <1>7, <2>1
<1>9. m = [j \in 0 .. n |-> IF j = 0 THEN t ELSE Step1(j, m[j - 1])]
  BY <1>8 DEF m, PushTarget
<1> HIDE DEF m
<1>10. m[0] \in A[0] /\ \A j \in 1 .. n : m[j - 1] \in A[j - 1] => m[j] \in A[j]
  <2>1. m[0] = t /\ \A j \in 1 .. n : m[j] = Step1(j, m[j - 1])
    <3> HIDE DEF Step1
    <3> QED
      BY <1>9
  <2> HIDE DEF Step1
  <2> QED
    BY <1>3, <1>4, <2>1
<1>11. m[n] \in A[n]
  <2>1. \A j \in 0 .. n : m[j] \in A[j]
    BY <1>10, AllIn
  <2> QED
    BY <2>1
<1>12. OtherLists(t, m[n], F \cup PointedTo(t, tbl, Before(D, n)))
  BY <1>11 DEF A
<1>13. Before(D, n) = D
  BY <1>0 DEF Before
<1> QED
  BY <1>2, <1>12, <1>13

\* Process p's tables for the directory entries in D, and their pages, are used for
\* nothing else.
HeldBy(t, F, own, p, D) ==
  \A d \in D, g \in Frames :
    /\ TableAt(t, p, d, g) => own[g] = AsTable(p, d) /\ g \notin F
    /\ \A e \in Ptes : PageAt(t, p, d, e, g) => own[g] = AsPage(p, d, e) /\ g \notin F

HeldPages(t, p, D) ==
  {g \in Frames : \E d \in D : TableAt(t, p, d, g) \/ \E e \in Ptes : PageAt(t, p, d, e, g)}

PushTable(t, dir, D, k, s) ==
  IF k - 1 \in D /\ t.mem[dir][k - 1] # NULL
  THEN pg_push(PushAll(s, t.mem[dir][k - 1], Ptes), t.mem[dir][k - 1]) ELSE s

\* Each turn of PushTables gives back one table and its pages.
LEMMA PushTableStep ==
  ASSUME NEW t \in PageState, NEW F, NEW own, NEW p \in Tasks, t.cr3[p] # NULL,
         NEW D \in SUBSET Pdes, HeldBy(t, F, own, p, D), NEW k \in Nat \ {0},
         NEW s, OtherLists(t, s, F \cup HeldPages(t, p, Before(D, k - 1)))
  PROVE  OtherLists(t, PushTable(t, t.cr3[p], D, k, s), F \cup HeldPages(t, p, Before(D, k)))
<1>0. Pdes \subseteq Int /\ NULL \notin Frames /\ Pdes \subseteq Entries /\ Ptes \subseteq Entries
  BY Memory, EntriesOf DEF Pdes
<1> PICK dir \in Frames : dir = t.cr3[p]
  BY DEF PageState, FrameOrNull
<1>1. \A x \in D : x < k <=> x < k - 1 \/ x = k - 1
  BY <1>0, SMTT(30)
<1> PICK G : G = F \cup HeldPages(t, p, Before(D, k - 1))
  OBVIOUS
<1>2. CASE k - 1 \in D /\ t.mem[dir][k - 1] # NULL
  <2> PICK d \in D : d = k - 1
    BY <1>2
  <2>1. t.mem[dir][d] \in FrameOrNull /\ d \in Pdes /\ d \in Entries
    BY <1>0 DEF PageState
  <2> PICK tbl \in Frames : tbl = t.mem[dir][d]
    BY <1>2, <2>1 DEF FrameOrNull
  <2>2. TableAt(t, p, d, tbl) /\ \A g \in Frames : TableAt(t, p, d, g) => g = tbl
    BY DEF TableAt
  <2>3. \A e \in Ptes, g \in Frames : PageAt(t, p, d, e, g) <=> t.mem[tbl][e] = g
    BY <1>2 DEF PageAt
  <2>4. \A b \in Before(D, k - 1) : b \in D /\ b # d
    BY <1>0 DEF Before
  <2>5. own[tbl] = AsTable(p, d) /\ tbl \notin F
    BY <2>2 DEF HeldBy
  <2>6. \A e \in Ptes, g \in Frames : t.mem[tbl][e] = g => own[g] = AsPage(p, d, e) /\ g \notin F
    BY <2>3 DEF HeldBy
  <2>7. ASSUME NEW g \in HeldPages(t, p, Before(D, k - 1))
        PROVE  g # tbl /\ \A e \in Ptes : own[g] # AsPage(p, d, e)
    <3>1. g \in Frames
      BY DEF HeldPages
    <3> PICK b \in Before(D, k - 1) : TableAt(t, p, b, g) \/ \E e \in Ptes : PageAt(t, p, b, e, g)
      BY DEF HeldPages
    <3>2. b \in D /\ b # d
      BY <2>4
    <3>3. own[g] = AsTable(p, b) \/ \E e \in Ptes : own[g] = AsPage(p, b, e)
      BY <3>1, <3>2 DEF HeldBy
    <3> QED
      BY <2>5, <3>2, <3>3, RolesApart
  <2>8. s \in PageState /\ s.mem = t.mem /\ s.cr3 = t.cr3 /\ s.spoiled = t.spoiled /\ Lists(s, G)
    BY DEF OtherLists
  <2>9. Unshared(s, G, tbl, Ptes)
    <3> SUFFICES ASSUME NEW x \in Ptes, NEW g \in Frames, t.mem[tbl][x] = g
                 PROVE  g \notin G /\ \A y \in Ptes : t.mem[tbl][y] = g => y = x
      BY <2>8 DEF Unshared
    <3>1. own[g] = AsPage(p, d, x) /\ g \notin F
      BY <2>6
    <3>2. g \notin HeldPages(t, p, Before(D, k - 1))
      BY <2>7, <3>1
    <3>3. ASSUME NEW y \in Ptes, t.mem[tbl][y] = g PROVE y = x
      <4>1. own[g] = AsPage(p, d, y)
        BY <2>6, <3>3
      <4> QED
        BY <3>1, <4>1, RolesApart
    <3> QED
      BY <3>1, <3>2, <3>3
  <2> PICK v : v = PushAll(s, tbl, Ptes)
    OBVIOUS
  <2>10. OtherLists(s, v, G \cup PointedTo(s, tbl, Ptes))
    BY <1>0, <2>8, <2>9, PushAllLists, SMTT(30)
  <2> PICK H : H = G \cup PointedTo(s, tbl, Ptes)
    OBVIOUS
  <2>11. OtherLists(t, v, H)
    BY <2>8, <2>10 DEF OtherLists
  <2>12. tbl \notin H
    <3>1. tbl \notin PointedTo(s, tbl, Ptes)
      <4>1. ASSUME NEW x \in Ptes, s.mem[tbl][x] = tbl PROVE FALSE
        <5>1. own[tbl] = AsPage(p, d, x)
          BY <2>6, <2>8, <4>1
        <5> QED
          BY <2>5, <5>1, RolesApart, SMTT(30)
      <4> QED
        BY <4>1, ZenonT(60) DEF PointedTo
    <3> QED
      BY <2>5, <2>7, <3>1, SMTT(30)
  <2>13. OtherLists(t, pg_push(v, tbl), H \cup {tbl})
    BY <2>11, <2>12, PushOne
  <2>14. H \cup {tbl} = F \cup HeldPages(t, p, Before(D, k))
    <3>1. PointedTo(s, tbl, Ptes) = {g \in Frames : \E e \in Ptes : PageAt(t, p, d, e, g)}
      BY <2>3, <2>8 DEF PointedTo
    <3>2. {tbl} = {g \in Frames : TableAt(t, p, d, g)}
      BY <2>2
    <3>3. Before(D, k) = Before(D, k - 1) \cup {d}
      BY <1>1 DEF Before
    <3>4. HeldPages(t, p, Before(D, k)) = HeldPages(t, p, Before(D, k - 1)) \cup
            {g \in Frames : TableAt(t, p, d, g)} \cup {g \in Frames : \E e \in Ptes : PageAt(t, p, d, e, g)}
      BY <3>3 DEF HeldPages
    <3> QED
      BY <3>1, <3>2, <3>4, SMTT(30)
  <2>15. PushTable(t, dir, D, k, s) = pg_push(v, tbl)
    BY <1>2 DEF PushTable
  <2> QED
    BY <2>13, <2>14, <2>15
<1>3. CASE ~(k - 1 \in D /\ t.mem[dir][k - 1] # NULL)
  <2>1. ASSUME k - 1 \in D, NEW g \in Frames
        PROVE  ~TableAt(t, p, k - 1, g) /\ \A e \in Ptes : ~PageAt(t, p, k - 1, e, g)
    BY <1>0, <1>3, <2>1 DEF TableAt, PageAt
  <2>2. \A x \in Before(D, k) : x \in Before(D, k - 1) \/ (x = k - 1 /\ x \in D)
    BY <1>1 DEF Before
  <2>3. Before(D, k - 1) \subseteq Before(D, k)
    BY <1>1 DEF Before
  <2>4. HeldPages(t, p, Before(D, k)) = HeldPages(t, p, Before(D, k - 1))
    BY <2>1, <2>2, <2>3 DEF HeldPages
  <2> QED
    BY <1>3, <2>4 DEF PushTable
<1> QED
  BY <1>2, <1>3

\* The tables of a region are given back with their pages, each of them once.
LEMMA PushTablesLists ==
  ASSUME NEW t \in PageState, NEW F, Lists(t, F), NEW own, NEW p \in Tasks, t.cr3[p] # NULL,
         NEW D \in SUBSET Pdes, HeldBy(t, F, own, p, D)
  PROVE  OtherLists(t, PushTables(t, t.cr3[p], D), F \cup HeldPages(t, p, D))
<1> PICK n \in Nat : n = 4 * QUARTER
  BY Memory
<1> PICK dir : dir = t.cr3[p]
  OBVIOUS
<1>0. \A x \in D : x < n /\ ~(x < 0)
  BY Memory DEF Pdes
<1> DEFINE Step1(k, s) == PushTable(t, dir, D, k, s)
           A == [k \in 0 .. n |->
                   {s \in PageState : OtherLists(t, s, F \cup HeldPages(t, p, Before(D, k)))}]
           L == [y \in (1 .. n) \X PageState |->
                   IF Step1(y[1], y[2]) \in PageState THEN Step1(y[1], y[2]) ELSE y[2]]
           m[k \in 0 .. 4 * QUARTER] ==
             IF k = 0 THEN t
             ELSE IF k - 1 \in D /\ t.mem[dir][k - 1] # NULL
             THEN pg_push(PushAll(m[k - 1], t.mem[dir][k - 1], Ptes), t.mem[dir][k - 1])
             ELSE m[k - 1]
<1>1. OtherLists(t, t, F \cup HeldPages(t, p, Before(D, 0)))
  <2>1. HeldPages(t, p, Before(D, 0)) = {}
    BY <1>0 DEF HeldPages, Before
  <2>2. F \cup HeldPages(t, p, Before(D, 0)) = F
    BY <2>1
  <2> QED
    BY <2>2 DEF OtherLists
<1>2. PushTables(t, dir, D) = m[4 * QUARTER]
  BY DEF PushTables
<1>3. ASSUME NEW j \in 1 .. n, NEW s \in A[j - 1]
      PROVE  Step1(j, s) \in A[j] /\ Step1(j, s) \in PageState /\ s \in PageState
  <2>1. OtherLists(t, s, F \cup HeldPages(t, p, Before(D, j - 1))) /\ s \in PageState
    <3>1. j - 1 \in 0 .. n
      OBVIOUS
    <3> QED
      BY <1>3, <3>1
  <2>2. OtherLists(t, Step1(j, s), F \cup HeldPages(t, p, Before(D, j)))
    <3>1. j \in Nat \ {0}
      OBVIOUS
    <3> QED
      BY <2>1, <3>1, PushTableStep
  <2>3. Step1(j, s) \in PageState
    BY <2>2 DEF OtherLists
  <2> HIDE DEF Step1
  <2>4. Step1(j, s) \in A[j]
    BY <2>2, <2>3
  <2> QED
    BY <2>1, <2>3, <2>4
<1>4. t \in A[0]
  BY <1>1
<1>5. A \in [0 .. n -> SUBSET PageState] /\ L \in [(1 .. n) \X PageState -> PageState]
  <2> HIDE DEF Step1
  <2> QED
    OBVIOUS
<1>6. \A j \in 1 .. n : \A s \in A[j - 1] : L[<<j, s>>] = Step1(j, s) /\ L[<<j, s>>] \in A[j]
  <2> HIDE DEF Step1, A
  <2> QED
    BY <1>3
<1> HIDE DEF A, L
<1>7. PICK f \in [0 .. n -> PageState] :
        Turns(n, t, L, f) /\ \A j \in 0 .. n : f[j] \in A[j]
  BY <1>4, <1>5, <1>6, LoopIn, ZenonT(60)
<1>8. f = [j \in 0 .. n |-> IF j = 0 THEN t ELSE Step1(j, f[j - 1])]
  <2>1. \A j \in 0 .. n : f[j] = IF j = 0 THEN t ELSE Step1(j, f[j - 1])
    <3> SUFFICES ASSUME NEW j \in 0 .. n, j # 0 PROVE f[j] = Step1(j, f[j - 1])
      BY <1>7 DEF Turns
    <3>1. j \in 1 .. n /\ j - 1 \in 0 .. n
      OBVIOUS
    <3>2. f[j] = L[<<j, f[j - 1]>>]
      BY <1>7, <3>1, SMTT(30) DEF Turns
    <3> HIDE DEF Step1
    <3> QED
      BY <1>6, <1>7, <3>1, <3>2
  <2> HIDE DEF Step1
  <2> QED
    BY <1>7, <2>1
<1>9. m = [j \in 0 .. n |-> IF j = 0 THEN t ELSE Step1(j, m[j - 1])]
  BY <1>8, Zenon DEF m, PushTable
<1> HIDE DEF m
<1>10. m[0] \in A[0] /\ \A j \in 1 .. n : m[j - 1] \in A[j - 1] => m[j] \in A[j]
  <2>1. m[0] = t /\ \A j \in 1 .. n : m[j] = Step1(j, m[j - 1])
    <3> HIDE DEF Step1
    <3> QED
      BY <1>9
  <2> HIDE DEF Step1
  <2> QED
    BY <1>3, <1>4, <2>1
<1>11. m[n] \in A[n]
  <2>1. \A j \in 0 .. n : m[j] \in A[j]
    BY <1>10, AllIn
  <2> QED
    BY <2>1
<1> PICK u : u = m[n]
  OBVIOUS
<1>12. OtherLists(t, u, F \cup HeldPages(t, p, Before(D, n)))
  <2>1. n \in 0 .. n
    OBVIOUS
  <2> QED
    BY <1>11, <2>1 DEF A
<1>13. Before(D, n) = D
  BY <1>0 DEF Before
<1> QED
  BY <1>2, <1>12, <1>13

\* What process p has for itself.
PageGone(own, p, g) ==
  \/ own[g] = AsDir(p)
  \/ \E d \in Pdes : own[g] = AsTable(p, d)
  \/ \E d \in Private, e \in Ptes : own[g] = AsPage(p, d, e)

GonePages(own, p) == {g \in Frames : PageGone(own, p, g)}
GoneOwn(own, p)   == [g \in Frames |-> IF PageGone(own, p, g) THEN AsFree ELSE own[g]]

\* pg_space_destroy() gives back what is the process's own, and nothing else.
LEMMA SpaceGone ==
  ASSUME NEW t, NEW F, NEW own, Books(t, F, own), NEW p \in Tasks, t.cr3[p] # NULL
  PROVE  OtherLists(t, pg_space_destroy(t, t.cr3[p]), F \cup GonePages(own, p))
<1>1. t \in PageState /\ Lists(t, F) /\ Owns(t, F, own)
      /\ Private \subseteq Pdes /\ Pdes \subseteq Entries
  BY EntriesOf, Regions DEF Books
<1> PICK dir \in Frames : dir = t.cr3[p]
  BY <1>1 DEF PageState, FrameOrNull
<1> PICK D \in SUBSET Pdes : D = Pdes \ Private
  OBVIOUS
<1>2. \A g \in Frames : g \in F => own[g] = AsFree
  BY <1>1 DEF Owns, OwnFree
<1>3. own[dir] = AsDir(p)
  BY <1>1 DEF Owns, OwnDirs
<1>4. \A d \in Pdes, g \in Frames : TableAt(t, p, d, g) <=> own[g] = AsTable(p, d)
  BY <1>1 DEF Owns, OwnTables
<1>5. \A d \in Private, e \in Ptes, g \in Frames : PageAt(t, p, d, e, g) <=> own[g] = AsPage(p, d, e)
  BY <1>1 DEF Owns, OwnPages
<1>6. \A d \in Pdes, g \in Frames : t.mem[dir][d] = g <=> own[g] = AsTable(p, d)
  BY <1>1, <1>4, Memory DEF TableAt
<1> PICK v : v = PushAll(t, dir, D)
  OBVIOUS
<1>7. Unshared(t, F, dir, D)
  <2> SUFFICES ASSUME NEW x \in D, NEW g \in Frames, t.mem[dir][x] = g
               PROVE  g \notin F /\ \A y \in D : t.mem[dir][y] = g => y = x
    BY DEF Unshared
  <2>1. own[g] = AsTable(p, x)
    BY <1>6
  <2>2. g \notin F
    BY <1>2, <2>1, RolesApart
  <2>3. ASSUME NEW y \in D, t.mem[dir][y] = g PROVE y = x
    <3>1. AsTable(p, y) = AsTable(p, x)
      BY <1>6, <2>1, <2>3
    <3> QED
      BY <3>1 DEF AsTable
  <2> QED
    BY <2>2, <2>3
<1> PICK G : G = F \cup PointedTo(t, dir, D)
  OBVIOUS
<1>8. OtherLists(t, v, G)
  <2>1. D \in SUBSET Entries
    BY <1>1
  <2> QED
    BY <1>1, <1>7, <2>1, PushAllLists
<1>9. v \in PageState /\ v.mem = t.mem /\ v.cr3 = t.cr3 /\ v.spoiled = t.spoiled /\ Lists(v, G)
  BY <1>8 DEF OtherLists
<1>10. \A g \in G : own[g] = AsFree \/ \E d \in D : own[g] = AsTable(p, d)
  <2>1. F \subseteq Frames
    BY <1>1 DEF Lists
  <2> QED
    BY <1>2, <1>6, <2>1 DEF PointedTo
<1>11. HeldBy(v, G, own, p, Private)
  <2> SUFFICES ASSUME NEW d \in Private, NEW g \in Frames
               PROVE  /\ TableAt(v, p, d, g) => own[g] = AsTable(p, d) /\ g \notin G
                      /\ \A e \in Ptes : PageAt(v, p, d, e, g) => own[g] = AsPage(p, d, e) /\ g \notin G
    BY DEF HeldBy
  <2>1. (TableAt(v, p, d, g) <=> TableAt(t, p, d, g)) /\ d \in Pdes /\ d \notin D
    BY <1>1, <1>9, SMTT(30) DEF TableAt
  <2>2. \A e \in Ptes : PageAt(v, p, d, e, g) <=> PageAt(t, p, d, e, g)
    BY <1>9 DEF PageAt
  <2>3. own[g] = AsTable(p, d) => g \notin G
    <3>1. ASSUME own[g] = AsTable(p, d), g \in G PROVE FALSE
      <4>1. own[g] # AsFree
        BY <3>1, RolesApart
      <4> PICK b \in D : own[g] = AsTable(p, b)
        BY <1>10, <3>1, <4>1
      <4>2. AsTable(p, b) = AsTable(p, d) /\ b # d
        BY <2>1, <3>1
      <4> QED
        BY <4>2 DEF AsTable
    <3> QED
      BY <3>1
  <2>4. \A e \in Ptes : own[g] = AsPage(p, d, e) => g \notin G
    <3>1. ASSUME NEW e \in Ptes, own[g] = AsPage(p, d, e), g \in G PROVE FALSE
      BY <1>10, <3>1, RolesApart, SMTT(30)
    <3> QED
      BY <3>1
  <2> QED
    BY <1>4, <1>5, <2>1, <2>2, <2>3, <2>4
<1> PICK w : w = PushTables(v, dir, Private)
  OBVIOUS
<1> PICK H : H = G \cup HeldPages(v, p, Private)
  OBVIOUS
<1>12. OtherLists(v, w, H)
  <2>1. v.cr3[p] = dir /\ v.cr3[p] # NULL /\ Private \in SUBSET Pdes
    BY <1>1, <1>9
  <2> QED
    BY <1>9, <1>11, <2>1, PushTablesLists
<1>13. OtherLists(t, w, H)
  BY <1>9, <1>12 DEF OtherLists
<1>14. HeldPages(v, p, Private) =
         {g \in Frames : \E d \in Private : own[g] = AsTable(p, d) \/ \E e \in Ptes : own[g] = AsPage(p, d, e)}
  <2>1. ASSUME NEW g \in Frames, NEW d \in Private
        PROVE  /\ TableAt(v, p, d, g) <=> own[g] = AsTable(p, d)
               /\ \A e \in Ptes : PageAt(v, p, d, e, g) <=> own[g] = AsPage(p, d, e)
    <3>1. (TableAt(v, p, d, g) <=> TableAt(t, p, d, g)) /\ d \in Pdes
      BY <1>1, <1>9, SMTT(30) DEF TableAt
    <3>2. \A e \in Ptes : PageAt(v, p, d, e, g) <=> PageAt(t, p, d, e, g)
      BY <1>9 DEF PageAt
    <3> QED
      BY <1>4, <1>5, <3>1, <3>2
  <2> QED
    BY <2>1 DEF HeldPages
<1>15. dir \notin H
  <2>1. dir \notin G
    <3>1. own[dir] # AsFree /\ \A d \in D : own[dir] # AsTable(p, d)
      BY <1>3 DEF AsDir, AsTable, AsFree
    <3> QED
      BY <1>10, <3>1
  <2>2. \A d \in Private : own[dir] # AsTable(p, d) /\ \A e \in Ptes : own[dir] # AsPage(p, d, e)
    BY <1>3 DEF AsDir, AsTable, AsPage
  <2>3. dir \notin HeldPages(v, p, Private)
    BY <1>14, <2>2
  <2> QED
    BY <2>1, <2>3
<1>16. OtherLists(t, pg_push(w, dir), H \cup {dir})
  BY <1>13, <1>15, PushOne
<1>17. H \cup {dir} = F \cup GonePages(own, p)
  <2>1. \A g \in Frames : own[g] = AsDir(p) <=> g = dir
    BY <1>1, Memory DEF Owns, OwnDirs
  <2>2. PointedTo(t, dir, D) = {g \in Frames : \E d \in D : own[g] = AsTable(p, d)}
    BY <1>6 DEF PointedTo
  <2>3. ASSUME NEW g \in Frames
        PROVE  g \in H \cup {dir} <=> g \in F \cup GonePages(own, p)
    <3>1. g \in GonePages(own, p) <=> PageGone(own, p, g)
      BY DEF GonePages
    <3>2. PageGone(own, p, g) <=>
            \/ g = dir
            \/ (\E d \in D : own[g] = AsTable(p, d))
            \/ \E d \in Private : own[g] = AsTable(p, d) \/ \E e \in Ptes : own[g] = AsPage(p, d, e)
      BY <1>1, <2>1 DEF PageGone
    <3> QED
      BY <1>14, <2>2, <3>1, <3>2
  <2>4. F \subseteq Frames /\ H \subseteq Frames /\ GonePages(own, p) \subseteq Frames
    BY <1>1, <1>13 DEF Lists, OtherLists, GonePages
  <2> QED
    BY <2>3, <2>4
<1>18. pg_space_destroy(t, dir) = pg_push(w, dir)
  BY DEF pg_space_destroy
<1> QED
  BY <1>16, <1>17, <1>18

\* u is t without process p's directory.
Dropped(t, u, p) ==
  /\ u.mem = t.mem /\ u.spoiled = t.spoiled
  /\ \A q \in Tasks : u.cr3[q] = IF q = p THEN NULL ELSE t.cr3[q]

\* Without a space that was given back each page still has one use.
LEMMA GoneBooks ==
  ASSUME NEW t, NEW F, NEW own, Books(t, F, own), NEW p \in Tasks, t.cr3[p] # NULL, p # IDLE_PID,
         NEW u \in PageState, Dropped(t, u, p), Lists(u, F \cup GonePages(own, p))
  PROVE  NewSeen(t, u, p) /\ Books(u, F \cup GonePages(own, p), GoneOwn(own, p))
<1>1. /\ Owns(t, F, own) /\ NULL \notin Frames /\ IDLE_PID \in Tasks /\ Private \subseteq Pdes
      /\ u.mem = t.mem /\ 0 \in Pdes /\ F \subseteq Frames
      /\ \A q \in Tasks : u.cr3[q] = IF q = p THEN NULL ELSE t.cr3[q]
  BY Memory, Regions, PagingAssumption DEF Books, Dropped, Lists
<1> PICK G, o : G = F \cup GonePages(own, p) /\ o = GoneOwn(own, p)
  OBVIOUS
<1>2. \A g \in Frames : o[g] = IF PageGone(own, p, g) THEN AsFree ELSE own[g]
  BY DEF GoneOwn
<1>3. \A q \in Tasks, b \in Pdes, g \in Frames :
        /\ TableAt(u, q, b, g) <=> q # p /\ TableAt(t, q, b, g)
        /\ \A c \in Ptes : PageAt(u, q, b, c, g) <=> q # p /\ PageAt(t, q, b, c, g)
  BY <1>1 DEF TableAt, PageAt
<1>4. \A g \in Frames : PageGone(own, p, g) => Kind(own[g]) \in {2, 3, 4}
  BY RolesApart DEF PageGone
<1>5. OwnRoles(u, o)
  BY <1>1, <1>2 DEF Owns, OwnRoles, IsRole
<1>6. OwnFree(G, o)
  <2> SUFFICES ASSUME NEW g \in Frames PROVE o[g] = AsFree <=> g \in G
    BY DEF OwnFree
  <2>1. own[g] = AsFree <=> g \in F
    BY <1>1 DEF Owns, OwnFree
  <2>2. g \in G <=> g \in F \/ PageGone(own, p, g)
    BY DEF GonePages
  <2> QED
    BY <1>2, <2>1, <2>2
<1>7. OwnSystem(o)
  BY <1>1, <1>2, <1>4, RolesApart DEF Owns, OwnSystem
<1>8. OwnDirs(u, o)
  <2> SUFFICES ASSUME NEW g \in Frames, NEW q \in Tasks PROVE o[g] = AsDir(q) <=> u.cr3[q] = g
    BY DEF OwnDirs
  <2>1. own[g] = AsDir(q) <=> t.cr3[q] = g
    BY <1>1 DEF Owns, OwnDirs
  <2>2. PageGone(own, p, g) => (own[g] = AsDir(q) => q = p)
    BY RolesApart DEF PageGone
  <2>3. own[g] = AsDir(p) => PageGone(own, p, g)
    BY DEF PageGone
  <2> QED
    BY <1>1, <1>2, <2>1, <2>2, <2>3, RolesApart
<1>9. OwnTables(u, o)
  <2> SUFFICES ASSUME NEW g \in Frames, NEW q \in Tasks, NEW b \in Pdes
               PROVE  o[g] = AsTable(q, b) <=> TableAt(u, q, b, g)
    BY DEF OwnTables
  <2>1. own[g] = AsTable(q, b) <=> TableAt(t, q, b, g)
    BY <1>1 DEF Owns, OwnTables
  <2>2. PageGone(own, p, g) => (own[g] = AsTable(q, b) => q = p)
    BY RolesApart DEF PageGone
  <2>3. own[g] = AsTable(p, b) => PageGone(own, p, g)
    BY DEF PageGone
  <2> QED
    BY <1>2, <1>3, <2>1, <2>2, <2>3, RolesApart
<1>10. OwnPages(u, o)
  <2> SUFFICES ASSUME NEW g \in Frames, NEW q \in Tasks, NEW b \in Private, NEW c \in Ptes
               PROVE  o[g] = AsPage(q, b, c) <=> PageAt(u, q, b, c, g)
    BY DEF OwnPages
  <2>1. own[g] = AsPage(q, b, c) <=> PageAt(t, q, b, c, g)
    BY <1>1 DEF Owns, OwnPages
  <2>2. PageGone(own, p, g) => (own[g] = AsPage(q, b, c) => q = p)
    BY RolesApart DEF PageGone
  <2>3. own[g] = AsPage(p, b, c) => PageGone(own, p, g)
    BY DEF PageGone
  <2>4. PageAt(u, q, b, c, g) <=> q # p /\ PageAt(t, q, b, c, g)
    BY <1>1, <1>3
  <2> QED
    BY <1>2, <2>1, <2>2, <2>3, <2>4, RolesApart
<1>11. OwnHeap(u, o)
  <2> SUFFICES ASSUME NEW g \in Frames, NEW b \in Pdes, NEW c \in Ptes, HeapEntry(b, c)
               PROVE  o[g] = AsHeap(b, c) <=> PageAt(u, IDLE_PID, b, c, g)
    BY DEF OwnHeap
  <2>1. own[g] = AsHeap(b, c) <=> PageAt(t, IDLE_PID, b, c, g)
    BY <1>1 DEF Owns, OwnHeap
  <2>2. PageAt(u, IDLE_PID, b, c, g) <=> PageAt(t, IDLE_PID, b, c, g)
    BY <1>1, <1>3
  <2>3. o[g] = AsHeap(b, c) <=> own[g] = AsHeap(b, c)
    BY <1>2, <1>4, RolesApart
  <2> QED
    BY <2>1, <2>2, <2>3
<1>12. SharedHeap(u, o)
  <2> SUFFICES ASSUME NEW g \in Frames, NEW q \in Tasks, NEW b \in Pdes, NEW c \in Ptes,
                      HeapEntry(b, c), PageAt(u, q, b, c, g)
               PROVE  o[g] = AsHeap(b, c)
    BY DEF SharedHeap
  <2>1. PageAt(t, q, b, c, g)
    BY <1>3
  <2>2. own[g] = AsHeap(b, c)
    BY <1>1, <2>1 DEF Owns, SharedHeap
  <2> QED
    BY <1>2, <1>4, <2>2, RolesApart
<1>13. SystemAt(u)
  BY <1>1, <1>3 DEF Owns, SystemAt
<1>14. Owns(u, G, o)
  BY <1>5, <1>6, <1>7, <1>8, <1>9, <1>10, <1>11, <1>12, <1>13 DEF Owns
<1>15. NewSeen(t, u, p)
  BY <1>3 DEF NewSeen
<1> QED
  BY <1>14, <1>15 DEF Books

DropDir(t, p) == [t EXCEPT !.cr3[p] = NULL]

\* A process without a directory has no space.
LEMMA DropFields ==
  ASSUME NEW t \in PageState, NEW G, Lists(t, G), NEW p \in Tasks
  PROVE  DropDir(t, p) \in PageState /\ Lists(DropDir(t, p), G) /\ Dropped(t, DropDir(t, p), p)
<1> DEFINE c == [t.cr3 EXCEPT ![p] = NULL]
<1> PICK u : u = DropDir(t, p)
  OBVIOUS
<1>1. u = [t EXCEPT !.cr3 = c]
  BY DEF DropDir
<1>2. c \in [Tasks -> FrameOrNull] /\ \A q \in Tasks : c[q] = IF q = p THEN NULL ELSE t.cr3[q]
  BY DEF PageState, FrameOrNull
<1> HIDE DEF c
<1>3. /\ u \in PageState /\ u.cr3 = c /\ u.mem = t.mem /\ u.spoiled = t.spoiled
      /\ u.free = t.free /\ u.used = t.used /\ u.next = t.next /\ u.prev = t.prev
  BY <1>1, <1>2 DEF PageState
<1>4. Lists(u, G)
  BY <1>3, SameLists
<1> QED
  BY <1>2, <1>3, <1>4 DEF Dropped

\* The end of a process keeps the invariant.
LEMMA DestroyStep ==
  ASSUME NEW F, NEW own, SoundIn(mm, F, own), NEW p \in Tasks, Destroy(p)
  PROVE  Sound(mm') /\ mm'.spoiled = mm.spoiled
<1> PICK t, u : t = mm /\ u = mm'
  OBVIOUS
<1>1. /\ Books(t, F, own) /\ Settled(own) /\ t.cr3[p] # NULL /\ p # IDLE_PID
      /\ u = DropDir(pg_space_destroy(t, t.cr3[p]), p)
      /\ IDLE_PID \in Tasks /\ t.cr3[IDLE_PID] # NULL
      /\ \A q \in Tasks : t.cr3[q] # NULL => Complete(t, q)
  BY PagingAssumption DEF Destroy, Exists, SoundIn, DropDir
<1> PICK w, G : w = pg_space_destroy(t, t.cr3[p]) /\ G = F \cup GonePages(own, p)
  OBVIOUS
<1>2. OtherLists(t, w, G)
  BY <1>1, SpaceGone
<1>3. w \in PageState /\ Lists(w, G) /\ w.mem = t.mem /\ w.cr3 = t.cr3 /\ w.spoiled = t.spoiled
  BY <1>2 DEF OtherLists
<1>4. u \in PageState /\ Lists(u, G) /\ Dropped(w, u, p)
  BY <1>1, <1>3, DropFields
<1>5. Dropped(t, u, p)
  BY <1>3, <1>4 DEF Dropped
<1>6. NewSeen(t, u, p) /\ Books(u, G, GoneOwn(own, p))
  BY <1>1, <1>4, <1>5, GoneBooks
<1>7. Settled(GoneOwn(own, p))
  BY <1>1, RolesApart DEF Settled, GoneOwn
<1>8. ASSUME NEW q \in Tasks, u.cr3[q] # NULL PROVE Complete(u, q)
  <2>1. q # p /\ t.cr3[q] # NULL
    BY <1>5, <1>8 DEF Dropped
  <2>2. \A b \in Pdes, c \in Ptes, g \in Frames : PageAt(u, q, b, c, g) <=> PageAt(t, q, b, c, g)
    BY <1>6, <2>1 DEF NewSeen
  <2> QED
    BY <1>1, <2>1, <2>2, CompleteSame
<1>9. u.cr3[IDLE_PID] # NULL /\ u.spoiled = t.spoiled
  BY <1>1, <1>5 DEF Dropped
<1>10. Sound(u)
  BY <1>6, <1>7, <1>8, <1>9 DEF Sound
<1> QED
  BY <1>9, <1>10

-----------------------------------------------------------------------------
(* The copies of pg_fork().                                                  *)

\* The pages of tables a up to b.
LEMMA EntryIn ==
  ASSUME NEW a \in Nat, NEW b \in Nat, NEW x \in a * PTES .. b * PTES - 1
  PROVE  \E d \in a .. b - 1, e \in Ptes : x = d * PTES + e
<1>0. a * PTES \in Nat /\ b * PTES \in Nat /\ PTES \in Nat /\ PTES >= 3
  BY Memory
<1>1. PICK d \in Nat, e \in 0 .. PTES - 1 : x = d * PTES + e
  <2>1. x \in Nat
    BY <1>0
  <2> QED
    BY <1>0, <2>1, TableAndEntry
<1>2. d * PTES \in Nat
  BY <1>0
<1>3. ~(d < a)
  <2>1. ASSUME d < a PROVE FALSE
    <3>1. d * PTES + e < a * PTES
      BY <2>1, TablesApart
    <3> QED
      BY <1>0, <1>1, <1>2, <3>1
  <2> QED
    BY <2>1
<1>4. d < b
  <2>1. ASSUME b < d PROVE FALSE
    <3> PICK z \in 0 .. PTES - 1 : z = 0
      BY <1>0
    <3>1. b * PTES + z < d * PTES
      BY <2>1, TablesApart
    <3> QED
      BY <1>0, <1>1, <1>2, <3>1
  <2>2. ASSUME d = b PROVE FALSE
    BY <1>0, <1>1, <1>2, <2>2
  <2> QED
    BY <2>1, <2>2
<1> QED
  BY <1>1, <1>3, <1>4 DEF Ptes

\* What is neither process p's directory or table, nor process c's directory.
Others(own, p, c) ==
  {g \in Frames : /\ own[g] # AsDir(p) /\ own[g] # AsDir(c)
                  /\ \A d \in Pdes : own[g] # AsTable(p, d)}

\* Process p's directory and tables are in s as they are in t.
Kept(t, s, own, p) ==
  \A g \in Frames, y \in Entries :
    own[g] = AsDir(p) \/ (\E d \in Pdes : own[g] = AsTable(p, d)) => s.mem[g][y] = t.mem[g][y]

\* A space whose tables are kept has the same pages.
LEMMA KeptSeen ==
  ASSUME NEW t, NEW G, NEW own, Books(t, G, own), NEW p \in Tasks,
         NEW s \in PageState, s.cr3 = t.cr3, Kept(t, s, own, p)
  PROVE  \A d \in Pdes, e \in Ptes, g \in Frames : PageAt(s, p, d, e, g) <=> PageAt(t, p, d, e, g)
<1> SUFFICES ASSUME NEW d \in Pdes, NEW e \in Ptes, NEW g \in Frames
             PROVE  PageAt(s, p, d, e, g) <=> PageAt(t, p, d, e, g)
  OBVIOUS
<1>1. /\ Owns(t, G, own) /\ t \in PageState /\ d \in Entries /\ e \in Entries
      /\ t.cr3[p] \in Frames \cup {NULL}
  BY EntriesOf DEF Books, PageState, FrameOrNull
<1>2. CASE t.cr3[p] = NULL
  BY <1>2 DEF PageAt
<1>3. CASE t.cr3[p] # NULL
  <2> PICK dir \in Frames : dir = t.cr3[p]
    BY <1>1, <1>3
  <2>1. own[dir] = AsDir(p)
    BY <1>1 DEF Owns, OwnDirs
  <2>2. s.mem[dir][d] = t.mem[dir][d]
    BY <1>1, <2>1 DEF Kept
  <2>3. CASE t.mem[dir][d] = NULL
    BY <2>2, <2>3 DEF PageAt
  <2>4. CASE t.mem[dir][d] # NULL
    <3>1. t.mem[dir][d] \in Frames \cup {NULL}
      BY <1>1 DEF PageState, FrameOrNull
    <3> PICK tbl \in Frames : tbl = t.mem[dir][d]
      BY <2>4, <3>1
    <3>2. own[tbl] = AsTable(p, d)
      BY <1>1, <1>3 DEF Owns, OwnTables, TableAt
    <3>3. s.mem[tbl][e] = t.mem[tbl][e]
      BY <1>1, <3>2 DEF Kept
    <3> QED
      BY <2>2, <3>3 DEF PageAt
  <2> QED
    BY <2>3, <2>4
<1> QED
  BY <1>2, <1>3

\* The loop has copied some pages of p for c; there are n free pages.
CopyAt(t, own, s, p, c, n) ==
  /\ s \in PageState /\ s.cr3 = t.cr3 /\ Kept(t, s, own, p)
  /\ \A d \in Pdes : s.mem[t.cr3[c]][d] \in Others(own, p, c) \cup {NULL}
  /\ \E H : Lists(s, H) /\ H \subseteq Others(own, p, c) /\ Cardinality(H) >= n

CopyPage(t, g, f) == [t EXCEPT !.mem[g] = t.mem[f]]

\* A copy changes the page copied to, and no other.
LEMMA CopyFields ==
  ASSUME NEW t \in PageState, NEW g \in Frames, NEW f \in Frames
  PROVE  /\ SameButMem(t, CopyPage(t, g, f))
         /\ \A h \in Frames : h # g => CopyPage(t, g, f).mem[h] = t.mem[h]
<1> DEFINE m == [t.mem EXCEPT ![g] = t.mem[f]]
<1> PICK u : u = CopyPage(t, g, f)
  OBVIOUS
<1>1. u = [t EXCEPT !.mem = m]
  BY DEF CopyPage
<1>2. m \in [Frames -> [Entries -> FrameOrNull]] /\ \A h \in Frames : h # g => m[h] = t.mem[h]
  BY DEF PageState
<1> HIDE DEF m
<1>3. SameButMem(t, u) /\ u.mem = m
  BY <1>1, <1>2 DEF PageState, SameButMem
<1> QED
  BY <1>2, <1>3

\* A turn of the loop.
CopyTurn(s, dir1, dir, lin) ==
  LET p == pg_pop(s)
      f == Target(p, dir1, lin)
  IN IF pg_mapped(s, dir1, lin) THEN pg_map(CopyPage(p, p.used, f), dir, p.used, lin) ELSE s

\* A turn of pg_fork() that copies a page takes at most two, and leaves the parent as it is.
LEMMA CopyStep ==
  ASSUME NEW t, NEW G, NEW own, Books(t, G, own), NEW p \in Tasks, t.cr3[p] # NULL,
         NEW c \in Tasks, t.cr3[c] # NULL, c # p,
         NEW n \in Nat, NEW s, CopyAt(t, own, s, p, c, n + 2),
         NEW d \in Private, NEW e \in Ptes, pg_mapped(s, s.cr3[p], d * PTES + e)
  PROVE  CopyAt(t, own, CopyTurn(s, t.cr3[p], t.cr3[c], d * PTES + e), p, c, n)
<1> PICK lin : lin = d * PTES + e
  OBVIOUS
<1>0. /\ s \in PageState /\ s.cr3 = t.cr3 /\ Kept(t, s, own, p)
      /\ \A b \in Pdes : s.mem[t.cr3[c]][b] \in Others(own, p, c) \cup {NULL}
      /\ Owns(t, G, own) /\ d \in Pdes /\ d \in Entries /\ NULL \notin Frames
      /\ Pdes \subseteq Entries
  BY Regions, EntriesOf, Memory DEF CopyAt, Books
<1> PICK dir1 \in Frames, dir \in Frames : dir1 = t.cr3[p] /\ dir = t.cr3[c]
  BY <1>0 DEF PageState, FrameOrNull
<1>1. own[dir1] = AsDir(p) /\ own[dir] = AsDir(c)
  BY <1>0 DEF Owns, OwnDirs
<1>2. dir \notin Others(own, p, c)
  BY <1>1 DEF Others
<1>3. own[dir] # AsDir(p) /\ \A b \in Pdes : own[dir] # AsTable(p, b)
  BY <1>1 DEF AsDir, AsTable
<1> PICK H : Lists(s, H) /\ H \subseteq Others(own, p, c) /\ Cardinality(H) >= n + 2
  BY DEF CopyAt
<1>4. H \in SUBSET Frames /\ H # {}
  <2>1. H \in SUBSET Frames
    BY DEF Lists
  <2> QED
    BY <2>1, FS_EmptySet
<1> PICK w, g : w = pg_pop(s) /\ g = s.free
  OBVIOUS
<1>5. g \in H /\ w \in PageState /\ Lists(w, H \ {g})
  BY <1>0, <1>4, PopLists
<1>6. g \in Frames /\ w.used = g /\ w.mem = s.mem /\ w.cr3 = s.cr3
  <2>1. s.free \in Frames
    BY <1>4, <1>5
  <2> QED
    BY <1>0, <2>1, PopFields
<1>7. Cardinality(H \ {g}) >= n + 1 /\ Cardinality(H \ {g}) \in Nat
  BY <1>4, <1>5, OneLess
<1>8. PICK f \in Frames : Target(s, dir1, lin) = f
  <2>1. PICK f \in Frames : PageAt(s, p, d, e, f)
    BY <1>0, MappedAt
  <2>2. Target(s, s.cr3[p], d * PTES + e) = f
    BY <1>0, <2>1, MappedAt
  <2> QED
    BY <1>0, <2>2
<1>9. Target(w, dir1, lin) = f
  BY <1>6, <1>8 DEF Target, Table
<1> PICK x : x = CopyPage(w, g, f)
  OBVIOUS
<1>10. SameButMem(w, x) /\ \A h \in Frames : h # g => x.mem[h] = w.mem[h]
  BY <1>5, <1>6, CopyFields
<1>11. x \in PageState /\ x.cr3 = t.cr3
  BY <1>0, <1>6, <1>10 DEF SameButMem
<1>12. Lists(x, H \ {g})
  BY <1>5, <1>10, SameLists DEF SameButMem
<1>13. g # dir /\ g \in Others(own, p, c)
  BY <1>2, <1>5
<1>14. \A b \in Pdes : x.mem[dir][b] \in Others(own, p, c) \cup {NULL}
  BY <1>0, <1>6, <1>10, <1>13
<1> PICK K : K = H \ {g}
  OBVIOUS
<1>15. K # {} /\ Cardinality(K) \in Nat /\ Cardinality(K) >= n + 1
  <2>1. Cardinality(K) \in Nat /\ Cardinality(K) >= n + 1
    BY <1>7
  <2>2. Cardinality(K) # 0
    BY <2>1
  <2> QED
    BY <2>1, <2>2, FS_EmptySet
<1>16. TableFor(x, dir, d) \in Others(own, p, c)
  <2>1. CASE x.mem[dir][d] = NULL
    <3>1. x.free \in K
      BY <1>11, <1>12, <1>15, PopLists
    <3> QED
      BY <2>1, <3>1 DEF TableFor
  <2>2. CASE x.mem[dir][d] # NULL
    BY <1>0, <1>14, <2>2 DEF TableFor
  <2> QED
    BY <2>1, <2>2
<1>17. TableFor(x, dir, d) # dir
  BY <1>2, <1>16
<1> PICK u : u = pg_map(x, dir, g, d * PTES + e)
  OBVIOUS
<1>18. Mapping(x, K, u, dir, d, e, g)
  <2>1. g \in FrameOrNull /\ Lists(x, K)
    BY <1>6, <1>12 DEF FrameOrNull
  <2> QED
    BY <1>0, <1>11, <1>15, <1>17, <2>1, MapFields
<1> PICK h \in Frames : h = TableFor(x, dir, d)
  BY <1>18 DEF Mapping
<1>19. /\ u \in PageState /\ u.cr3 = t.cr3 /\ Lists(u, LeftOf(x, K, dir, d))
       /\ \A y \in Frames, z \in Entries : y # h /\ y # dir => u.mem[y][z] = x.mem[y][z]
       /\ \A z \in Entries : u.mem[dir][z] = IF z = d THEN h ELSE x.mem[dir][z]
  BY <1>11, <1>17, <1>18 DEF Mapping, MapSet
<1>20. Kept(t, u, own, p)
  <2> SUFFICES ASSUME NEW y \in Frames, NEW z \in Entries,
                      own[y] = AsDir(p) \/ \E b \in Pdes : own[y] = AsTable(p, b)
               PROVE  u.mem[y][z] = t.mem[y][z]
    BY DEF Kept
  <2>1. y \notin Others(own, p, c)
    BY DEF Others
  <2>2. y # dir
    BY <1>3
  <2>3. y # h /\ y # g
    BY <1>13, <1>16, <2>1
  <2>4. s.mem[y][z] = t.mem[y][z]
    BY <1>0 DEF Kept
  <2> QED
    BY <1>6, <1>10, <1>19, <2>2, <2>3, <2>4
<1>21. \A b \in Pdes : u.mem[dir][b] \in Others(own, p, c) \cup {NULL}
  BY <1>0, <1>14, <1>16, <1>19
<1> PICK L : L = LeftOf(x, K, dir, d)
  OBVIOUS
<1>22. L \subseteq Others(own, p, c) /\ Cardinality(L) >= n
  <2>1. K \in SUBSET Frames /\ K \subseteq Others(own, p, c)
    BY <1>4
  <2>2. CASE x.mem[dir][d] = NULL
    <3>1. x.free \in K /\ L = K \ {x.free}
      BY <1>11, <1>12, <1>15, <2>2, PopLists DEF LeftOf
    <3>2. Cardinality(K \ {x.free}) = Cardinality(K) - 1
      BY <2>1, <3>1, OneLess
    <3>3. Cardinality(L) = Cardinality(K) - 1
      BY <3>1, <3>2
    <3>4. Cardinality(L) >= n
      BY <1>15, <3>3
    <3> QED
      BY <2>1, <3>1, <3>4
  <2>3. CASE x.mem[dir][d] # NULL
    <3>1. L = K
      BY <2>3 DEF LeftOf
    <3>2. Cardinality(K) >= n
      BY <1>15
    <3> QED
      BY <2>1, <3>1, <3>2
  <2> QED
    BY <2>2, <2>3
<1>23. CopyAt(t, own, u, p, c, n)
  BY <1>19, <1>20, <1>21, <1>22 DEF CopyAt
<1>24. CopyTurn(s, dir1, dir, lin) = u
  <2>1. pg_mapped(s, dir1, lin)
    BY <1>0
  <2> QED
    BY <1>6, <1>9, <2>1 DEF CopyTurn
<1> QED
  BY <1>23, <1>24

\* The addresses that the loop of pg_fork() still has to copy after k turns.
LeftOver(M, k) == {x \in M : x >= QUARTER * PTES + k}

\* Where more pages are left, fewer are as well.
LEMMA CopyLess ==
  ASSUME NEW t, NEW own, NEW s, NEW p, NEW c, NEW n \in Nat, NEW m \in Nat, n <= m,
         CopyAt(t, own, s, p, c, m)
  PROVE  CopyAt(t, own, s, p, c, n)
<1> PICK H : Lists(s, H) /\ H \subseteq Others(own, p, c) /\ Cardinality(H) >= m
  BY DEF CopyAt
<1>1. Cardinality(H) \in Nat
  BY FramesFinite DEF Lists
<1>2. Cardinality(H) >= n
  BY <1>1
<1> QED
  BY <1>2 DEF CopyAt

\* A turn of pg_fork() leaves enough pages for the turns to come.
LEMMA CopyTurnStep ==
  ASSUME NEW t, NEW G, NEW own, Books(t, G, own), NEW p \in Tasks, t.cr3[p] # NULL,
         NEW c \in Tasks, t.cr3[c] # NULL, c # p,
         NEW M, M = Mapped(t, t.cr3[p], Private),
         NEW k \in 1 .. 3 * QUARTER * PTES, NEW s,
         CopyAt(t, own, s, p, c, 2 * Cardinality(LeftOver(M, k - 1)))
  PROVE  CopyAt(t, own, CopyTurn(s, t.cr3[p], t.cr3[c], QUARTER * PTES + k - 1), p, c,
                2 * Cardinality(LeftOver(M, k)))
<1> PICK z \in Nat : z = QUARTER * PTES /\ 3 * QUARTER * PTES = 3 * z /\ 4 * QUARTER * PTES = 4 * z
  <2>1. QUARTER * PTES \in Nat /\ 3 * QUARTER * PTES = 3 * (QUARTER * PTES)
        /\ 4 * QUARTER * PTES = 4 * (QUARTER * PTES)
    BY Memory
  <2> QED
    BY <2>1
<1> PICK lin : lin = z + k - 1
  OBVIOUS
<1>1. lin \in Nat /\ lin \in z .. 4 * z - 1
  OBVIOUS
<1>2. PICK d \in Private, e \in Ptes : lin = d * PTES + e
  <2> PICK a \in Nat, b \in Nat : a = QUARTER /\ b = 4 * QUARTER
    BY Memory
  <2>1. lin \in a * PTES .. b * PTES - 1
    BY <1>1
  <2>2. \E d \in a .. b - 1, e \in Ptes : lin = d * PTES + e
    BY <2>1, EntryIn
  <2> QED
    BY <2>2 DEF Private
<1>3. IsFiniteSet(M) /\ M \subseteq Nat /\ Private \subseteq Pdes
  BY Regions, MappedFinite
<1>4. LeftOver(M, k) \subseteq LeftOver(M, k - 1) /\ IsFiniteSet(LeftOver(M, k - 1))
  <2>1. LeftOver(M, k) \subseteq LeftOver(M, k - 1) /\ LeftOver(M, k - 1) \subseteq M
    BY <1>3 DEF LeftOver
  <2> QED
    BY <1>3, <2>1, FS_Subset
<1>5. /\ Cardinality(LeftOver(M, k)) \in Nat /\ Cardinality(LeftOver(M, k - 1)) \in Nat
      /\ Cardinality(LeftOver(M, k)) <= Cardinality(LeftOver(M, k - 1))
      /\ IsFiniteSet(LeftOver(M, k))
  BY <1>4, FS_Subset, FS_CardinalityType
<1> PICK n \in Nat, m \in Nat : n = 2 * Cardinality(LeftOver(M, k)) /\ m = 2 * Cardinality(LeftOver(M, k - 1))
  BY <1>5
<1>6. CopyAt(t, own, s, p, c, m) /\ n <= m
  BY <1>5
<1>7. CASE ~pg_mapped(s, s.cr3[p], lin)
  <2>1. CopyTurn(s, t.cr3[p], t.cr3[c], lin) = s
    BY <1>6, <1>7 DEF CopyTurn, CopyAt
  <2>2. CopyAt(t, own, s, p, c, n)
    BY <1>6, CopyLess
  <2> QED
    BY <2>1, <2>2
<1>8. CASE pg_mapped(s, s.cr3[p], lin)
  <2>1. s \in PageState /\ s.cr3 = t.cr3 /\ Kept(t, s, own, p) /\ d \in Pdes /\ t \in PageState
    BY <1>3, <1>6 DEF CopyAt, Books
  <2>2. PICK f \in Frames : PageAt(s, p, d, e, f)
    BY <1>2, <1>8, <2>1, MappedAt
  <2>3. PageAt(t, p, d, e, f)
    BY <2>1, <2>2, KeptSeen
  <2>4. lin \in M
    BY <1>2, <1>3, <2>1, <2>3, MappedAt
  <2>5. LeftOver(M, k - 1) = LeftOver(M, k) \cup {lin} /\ lin \notin LeftOver(M, k)
    BY <1>3, <2>4 DEF LeftOver
  <2>6. Cardinality(LeftOver(M, k - 1)) = Cardinality(LeftOver(M, k)) + 1
    BY <1>5, <2>5, FS_AddElement
  <2>7. CopyAt(t, own, s, p, c, n + 2)
    BY <1>5, <1>6, <2>6
  <2>8. pg_mapped(s, s.cr3[p], d * PTES + e)
    BY <1>2, <1>8
  <2>9. CopyAt(t, own, CopyTurn(s, t.cr3[p], t.cr3[c], d * PTES + e), p, c, n)
    BY <2>7, <2>8, CopyStep
  <2> QED
    BY <1>2, <2>9
<1> QED
  BY <1>7, <1>8

\* The whole loop of pg_fork() leaves the parent as it is.
LEMMA CopyLoop ==
  ASSUME NEW t, NEW G, NEW own, Books(t, G, own), NEW p \in Tasks, t.cr3[p] # NULL,
         NEW c \in Tasks, t.cr3[c] # NULL, c # p,
         NEW x, CopyAt(t, own, x, p, c, 2 * Cardinality(Mapped(t, t.cr3[p], Private)))
  PROVE  CopyAt(t, own, CopyPages(x, t.cr3[p], t.cr3[c]), p, c, 0)
<1> PICK n \in Nat : n = 3 * QUARTER * PTES
  BY Memory
<1> PICK M : M = Mapped(t, t.cr3[p], Private)
  OBVIOUS
<1> PICK dir1, dir : dir1 = t.cr3[p] /\ dir = t.cr3[c]
  OBVIOUS
<1> DEFINE Step1(k, s) == CopyTurn(s, dir1, dir, QUARTER * PTES + k - 1)
           A == [k \in 0 .. n |->
                   {s \in PageState : CopyAt(t, own, s, p, c, 2 * Cardinality(LeftOver(M, k)))}]
           L == [y \in (1 .. n) \X PageState |->
                   IF Step1(y[1], y[2]) \in PageState THEN Step1(y[1], y[2]) ELSE y[2]]
           m[k \in 0 .. 3 * QUARTER * PTES] ==
             IF k = 0 THEN x
             ELSE LET lin == QUARTER * PTES + k - 1
                      p1  == pg_pop(m[k - 1])
                      f   == Target(p1, dir1, lin)
                  IN IF pg_mapped(m[k - 1], dir1, lin)
                     THEN pg_map([p1 EXCEPT !.mem[p1.used] = p1.mem[f]], dir, p1.used, lin)
                     ELSE m[k - 1]
<1>2. CopyPages(x, dir1, dir) = m[3 * QUARTER * PTES]
  BY DEF CopyPages
<1>3. ASSUME NEW j \in 1 .. n, NEW s \in A[j - 1]
      PROVE  Step1(j, s) \in A[j] /\ Step1(j, s) \in PageState /\ s \in PageState
  <2>1. CopyAt(t, own, s, p, c, 2 * Cardinality(LeftOver(M, j - 1))) /\ s \in PageState
    <3>1. j - 1 \in 0 .. n
      OBVIOUS
    <3> QED
      BY <1>3, <3>1
  <2>2. CopyAt(t, own, Step1(j, s), p, c, 2 * Cardinality(LeftOver(M, j)))
    BY <2>1, CopyTurnStep
  <2>3. Step1(j, s) \in PageState
    BY <2>2 DEF CopyAt
  <2> HIDE DEF Step1
  <2>4. Step1(j, s) \in A[j]
    BY <2>2, <2>3
  <2> QED
    BY <2>1, <2>3, <2>4
<1>4. x \in A[0]
  <2>1. M \subseteq Nat /\ IsFiniteSet(M)
    BY Regions, MappedFinite
  <2>2. QUARTER * PTES \in Nat
    BY Memory
  <2>3. IsFiniteSet(LeftOver(M, 0)) /\ Cardinality(LeftOver(M, 0)) <= Cardinality(M)
        /\ Cardinality(M) \in Nat /\ Cardinality(LeftOver(M, 0)) \in Nat
    <3>1. LeftOver(M, 0) \subseteq M
      BY DEF LeftOver
    <3> QED
      BY <2>1, <3>1, FS_Subset, FS_CardinalityType
  <2> PICK a \in Nat, b \in Nat : a = 2 * Cardinality(LeftOver(M, 0)) /\ b = 2 * Cardinality(M) /\ a <= b
    BY <2>3
  <2>4. CopyAt(t, own, x, p, c, b)
    OBVIOUS
  <2>5. CopyAt(t, own, x, p, c, a)
    BY <2>4, CopyLess
  <2>6. CopyAt(t, own, x, p, c, 2 * Cardinality(LeftOver(M, 0))) /\ x \in PageState
    BY <2>5 DEF CopyAt
  <2> QED
    BY <2>6
<1>5. A \in [0 .. n -> SUBSET PageState] /\ L \in [(1 .. n) \X PageState -> PageState]
  <2> HIDE DEF Step1
  <2> QED
    OBVIOUS
<1>6. \A j \in 1 .. n : \A s \in A[j - 1] : L[<<j, s>>] = Step1(j, s) /\ L[<<j, s>>] \in A[j]
  <2> HIDE DEF Step1, A
  <2> QED
    BY <1>3
<1> HIDE DEF A, L
<1>7. PICK f \in [0 .. n -> PageState] :
        Turns(n, x, L, f) /\ \A j \in 0 .. n : f[j] \in A[j]
  BY <1>4, <1>5, <1>6, LoopIn, ZenonT(60)
<1>8. f = [j \in 0 .. n |-> IF j = 0 THEN x ELSE Step1(j, f[j - 1])]
  <2>1. \A j \in 0 .. n : f[j] = IF j = 0 THEN x ELSE Step1(j, f[j - 1])
    <3> SUFFICES ASSUME NEW j \in 0 .. n, j # 0 PROVE f[j] = Step1(j, f[j - 1])
      BY <1>7 DEF Turns
    <3>1. j \in 1 .. n /\ j - 1 \in 0 .. n
      OBVIOUS
    <3>2. f[j] = L[<<j, f[j - 1]>>]
      BY <1>7, <3>1, SMTT(30) DEF Turns
    <3> HIDE DEF Step1
    <3> QED
      BY <1>6, <1>7, <3>1, <3>2
  <2> HIDE DEF Step1
  <2> QED
    BY <1>7, <2>1
<1>9. m = [j \in 0 .. n |-> IF j = 0 THEN x ELSE Step1(j, m[j - 1])]
  BY <1>8, Zenon DEF m, CopyTurn, CopyPage
<1> HIDE DEF m
<1>10. m[0] \in A[0] /\ \A j \in 1 .. n : m[j - 1] \in A[j - 1] => m[j] \in A[j]
  <2>1. m[0] = x /\ \A j \in 1 .. n : m[j] = Step1(j, m[j - 1])
    <3> HIDE DEF Step1
    <3> QED
      BY <1>9
  <2> HIDE DEF Step1
  <2> QED
    BY <1>3, <1>4, <2>1
<1>11. m[n] \in A[n]
  <2>1. \A j \in 0 .. n : m[j] \in A[j]
    BY <1>10, AllIn
  <2> QED
    BY <2>1
<1> PICK u : u = m[n]
  OBVIOUS
<1>12. CopyAt(t, own, u, p, c, 2 * Cardinality(LeftOver(M, n)))
  <2>1. n \in 0 .. n
    OBVIOUS
  <2> QED
    BY <1>11, <2>1 DEF A
<1>13. Cardinality(LeftOver(M, n)) \in Nat
  <2>1. LeftOver(M, n) \subseteq M /\ IsFiniteSet(M)
    BY Regions, MappedFinite DEF LeftOver
  <2> QED
    BY <2>1, FS_Subset, FS_CardinalityType
<1>14. CopyAt(t, own, u, p, c, 0)
  <2> PICK a \in Nat, b \in Nat : a = 2 * Cardinality(LeftOver(M, n)) /\ b = 0 /\ b <= a
    BY <1>13
  <2>1. CopyAt(t, own, u, p, c, b)
    BY <1>12, CopyLess
  <2> QED
    BY <2>1
<1> QED
  BY <1>2, <1>14

\* What a space maps and where is said by its pages.
LEMMA SameMapped ==
  ASSUME NEW t \in PageState, NEW u \in PageState, NEW p \in Tasks,
         t.cr3[p] # NULL, u.cr3[p] # NULL,
         \A d \in Pdes, e \in Ptes, g \in Frames : PageAt(u, p, d, e, g) <=> PageAt(t, p, d, e, g)
  PROVE  /\ \A D \in SUBSET Pdes : Mapped(u, u.cr3[p], D) = Mapped(t, t.cr3[p], D)
         /\ Space(u, p) = Space(t, p)
<1>1. ASSUME NEW D \in SUBSET Pdes PROVE Mapped(u, u.cr3[p], D) = Mapped(t, t.cr3[p], D)
  <2>1. ASSUME NEW x \in Pages(D)
        PROVE  x \in Mapped(u, u.cr3[p], D) <=> x \in Mapped(t, t.cr3[p], D)
    <3> PICK d \in D, e \in Ptes : x = d * PTES + e
      BY DEF Pages
    <3>1. d \in Pdes
      OBVIOUS
    <3>2. d * PTES + e \in Mapped(u, u.cr3[p], D) <=> \E f \in Frames : PageAt(u, p, d, e, f)
      BY <3>1, MappedAt
    <3>3. d * PTES + e \in Mapped(t, t.cr3[p], D) <=> \E f \in Frames : PageAt(t, p, d, e, f)
      BY <3>1, MappedAt
    <3> QED
      BY <3>1, <3>2, <3>3
  <2>2. Mapped(u, u.cr3[p], D) \subseteq Pages(D) /\ Mapped(t, t.cr3[p], D) \subseteq Pages(D)
    BY DEF Mapped
  <2> QED
    BY <2>1, <2>2
<1>2. Mapped(u, u.cr3[p], Pdes) = Mapped(t, t.cr3[p], Pdes)
  BY <1>1
<1>3. ASSUME NEW x \in Mapped(t, t.cr3[p], Pdes)
      PROVE  Target(u, u.cr3[p], x) = Target(t, t.cr3[p], x)
  <2>1. x \in Pages(Pdes)
    BY DEF Mapped
  <2> PICK d \in Pdes, e \in Ptes : x = d * PTES + e
    BY <2>1 DEF Pages
  <2>2. PICK f \in Frames : PageAt(t, p, d, e, f)
    BY <1>3, MappedAt
  <2>3. PageAt(u, p, d, e, f)
    BY <2>2
  <2>4. Target(t, t.cr3[p], d * PTES + e) = f
    BY <2>2, MappedAt
  <2>5. Target(u, u.cr3[p], d * PTES + e) = f
    BY <2>3, MappedAt
  <2> QED
    BY <2>4, <2>5
<1>4. Space(u, p) = Space(t, p)
  BY <1>2, <1>3 DEF Space
<1> QED
  BY <1>1, <1>4

\* The private tables and pages of a process are held by it alone.
LEMMA HeldOwn ==
  ASSUME NEW t, NEW F, NEW own, Books(t, F, own), NEW p \in Tasks, NEW D \in SUBSET Private
  PROVE  HeldBy(t, F, own, p, D)
<1>1. Owns(t, F, own) /\ Private \subseteq Pdes
  BY Regions DEF Books
<1>2. \A g \in Frames : g \in F => own[g] = AsFree
  BY <1>1 DEF Owns, OwnFree
<1> SUFFICES ASSUME NEW d \in D, NEW g \in Frames
             PROVE  /\ TableAt(t, p, d, g) => own[g] = AsTable(p, d) /\ g \notin F
                    /\ \A e \in Ptes : PageAt(t, p, d, e, g) => own[g] = AsPage(p, d, e) /\ g \notin F
  BY DEF HeldBy
<1>3. d \in Private /\ d \in Pdes
  BY <1>1
<1>4. TableAt(t, p, d, g) => own[g] = AsTable(p, d)
  BY <1>1, <1>3 DEF Owns, OwnTables
<1>5. \A e \in Ptes : PageAt(t, p, d, e, g) => own[g] = AsPage(p, d, e)
  BY <1>1, <1>3 DEF Owns, OwnPages
<1> QED
  BY <1>2, <1>4, <1>5, RolesApart

\* The child's pages are released.
LEMMA CopyStart ==
  ASSUME NEW t, NEW G, NEW own, Books(t, G, own), NEW p \in Tasks, t.cr3[p] # NULL,
         NEW c \in Tasks, t.cr3[c] # NULL, c # p, NEW n \in Nat, Cardinality(G) >= n
  PROVE  CopyAt(t, own, PushTables(t, t.cr3[c], Private), p, c, n)
<1>1. /\ t \in PageState /\ Lists(t, G) /\ Owns(t, G, own) /\ Private \in SUBSET Pdes
      /\ Private \in SUBSET Private /\ Pdes \subseteq Entries
  BY Regions, EntriesOf DEF Books
<1>2. HeldBy(t, G, own, c, Private)
  BY <1>1, HeldOwn
<1> PICK w, H : w = PushTables(t, t.cr3[c], Private) /\ H = G \cup HeldPages(t, c, Private)
  OBVIOUS
<1>3. OtherLists(t, w, H)
  BY <1>1, <1>2, PushTablesLists
<1>4. w \in PageState /\ w.mem = t.mem /\ w.cr3 = t.cr3 /\ Lists(w, H)
  BY <1>3 DEF OtherLists
<1>5. \A g \in Frames :
        \/ own[g] = AsFree
        \/ \E d \in Pdes : own[g] = AsTable(c, d)
        \/ \E d \in Private, e \in Ptes : own[g] = AsPage(c, d, e)
        => g \in Others(own, p, c)
  BY RolesApart DEF Others
<1>6. H \subseteq Others(own, p, c)
  <2> SUFFICES ASSUME NEW g \in H PROVE g \in Others(own, p, c)
    OBVIOUS
  <2>1. g \in Frames
    BY <1>4 DEF Lists
  <2>2. CASE g \in G
    BY <1>1, <1>5, <2>1, <2>2 DEF Owns, OwnFree
  <2>3. CASE g \in HeldPages(t, c, Private)
    <3> PICK d \in Private : TableAt(t, c, d, g) \/ \E e \in Ptes : PageAt(t, c, d, e, g)
      BY <2>3 DEF HeldPages
    <3>1. own[g] = AsTable(c, d) \/ \E e \in Ptes : own[g] = AsPage(c, d, e)
      BY <1>2, <2>1 DEF HeldBy
    <3>2. d \in Pdes
      BY <1>1
    <3> QED
      BY <1>5, <2>1, <3>1, <3>2
  <2> QED
    BY <2>2, <2>3
<1>7. \A d \in Pdes : w.mem[t.cr3[c]][d] \in Others(own, p, c) \cup {NULL}
  <2> SUFFICES ASSUME NEW d \in Pdes, t.mem[t.cr3[c]][d] # NULL
               PROVE  t.mem[t.cr3[c]][d] \in Others(own, p, c)
    BY <1>4
  <2>1. t.cr3[c] \in Frames /\ t.mem[t.cr3[c]][d] \in FrameOrNull
    BY <1>1 DEF PageState, FrameOrNull
  <2> PICK g \in Frames : g = t.mem[t.cr3[c]][d]
    BY <2>1 DEF FrameOrNull
  <2>2. own[g] = AsTable(c, d)
    BY <1>1 DEF Owns, OwnTables, TableAt
  <2> QED
    BY <1>5, <2>2
<1>8. Cardinality(H) >= n
  <2>1. H \in SUBSET Frames /\ G \subseteq H
    BY <1>4 DEF Lists
  <2>2. IsFiniteSet(H) /\ Cardinality(H) \in Nat
    BY <2>1, FramesFinite
  <2>3. Cardinality(G) <= Cardinality(H) /\ Cardinality(G) \in Nat
    BY <2>1, <2>2, FS_Subset, FS_CardinalityType
  <2> QED
    BY <2>2, <2>3
<1>9. Kept(t, w, own, p)
  BY <1>4 DEF Kept
<1>10. \E J : Lists(w, J) /\ J \subseteq Others(own, p, c) /\ Cardinality(J) >= n
  BY <1>4, <1>6, <1>8
<1> QED
  BY <1>4, <1>7, <1>9, <1>10 DEF CopyAt

Spoil(t) == [t EXCEPT !.spoiled = TRUE]

\* The flag is all that Spoil changes.
LEMMA SpoilFields ==
  ASSUME NEW t \in PageState
  PROVE  /\ Spoil(t) \in PageState /\ Spoil(t).mem = t.mem /\ Spoil(t).cr3 = t.cr3
         /\ Spoil(t).spoiled
         /\ \A F : Lists(t, F) => Lists(Spoil(t), F)
<1> PICK u : u = Spoil(t)
  OBVIOUS
<1>1. /\ u \in PageState /\ u.mem = t.mem /\ u.cr3 = t.cr3 /\ u.spoiled
      /\ u.free = t.free /\ u.used = t.used /\ u.next = t.next /\ u.prev = t.prev
  BY DEF Spoil, PageState
<1> QED
  BY <1>1, SameLists

\* pg_fork() keeps every page in one list, and the parent as it is.
LEMMA ForkStep ==
  ASSUME NEW F, NEW own, SoundIn(mm, F, own), NEW p \in Tasks, NEW c \in Tasks, Fork(p, c)
  PROVE  /\ mm' \in PageState /\ \E H : Lists(mm', H)
         /\ mm'.spoiled /\ Space(mm', p) = Space(mm, p)
<1> PICK s, t, u : s = mm /\ u = mm' /\ t = task_create(mm, c)
  OBVIOUS
<1>1. /\ Books(s, F, own) /\ Settled(own) /\ s.cr3[p] # NULL /\ s.cr3[c] = NULL /\ p # c
      /\ u = Spoil(CopyPages(PushTables(t, t.cr3[c], Private), t.cr3[p], t.cr3[c]))
  BY DEF Fork, Exists, SoundIn, Spoil, pg_fork
<1>2. IsFiniteSet(Mapped(s, s.cr3[p], Private)) /\ Private \in SUBSET Pdes
  BY Regions, MappedFinite
<1> PICK n \in Nat : n = 2 * Cardinality(Mapped(s, s.cr3[p], Private))
  BY <1>2, FS_CardinalityType
<1>3. Cardinality(F) >= TaskPages + n /\ Cardinality(F) \in Nat
  <2>1. Enough(TaskPages + n) /\ Lists(mm, F) /\ mm \in PageState
    BY DEF Fork, SoundIn, Books
  <2> QED
    BY <2>1, EnoughMeans
<1>4. TaskMade(s, F, t, c)
  <2>1. Cardinality(F) >= TaskPages
    BY <1>3 DEF TaskPages
  <2> QED
    BY <1>1, <2>1, TaskBooks
<1>5. PICK G, o :
    /\ Books(t, G, o) /\ Settled(o) /\ Cardinality(G) \in Nat
    /\ Cardinality(G) >= Cardinality(F) - 8
    /\ t.cr3[c] # NULL
    /\ \A q \in Tasks : q # c => t.cr3[q] = s.cr3[q]
    /\ \A q \in Tasks, b \in Pdes, x \in Ptes, g \in Frames :
         q # c => (PageAt(t, q, b, x, g) <=> PageAt(s, q, b, x, g))
  BY <1>4 DEF TaskMade
<1>6. t.cr3[p] # NULL /\ t \in PageState /\ s \in PageState
  BY <1>1, <1>5 DEF Books
<1>7. \A b \in Pdes, x \in Ptes, g \in Frames : PageAt(t, p, b, x, g) <=> PageAt(s, p, b, x, g)
  BY <1>1, <1>5
<1>8. Mapped(t, t.cr3[p], Private) = Mapped(s, s.cr3[p], Private) /\ Space(t, p) = Space(s, p)
  BY <1>1, <1>2, <1>6, <1>7, SameMapped
<1>9. Cardinality(G) >= n
  BY <1>3, <1>5 DEF TaskPages
<1>10. CopyAt(t, o, PushTables(t, t.cr3[c], Private), p, c, n)
  BY <1>1, <1>5, <1>6, <1>9, CopyStart
<1>11. n = 2 * Cardinality(Mapped(t, t.cr3[p], Private))
  BY <1>8
<1> PICK w : w = CopyPages(PushTables(t, t.cr3[c], Private), t.cr3[p], t.cr3[c])
  OBVIOUS
<1>12. CopyAt(t, o, w, p, c, 0)
  BY <1>1, <1>5, <1>6, <1>10, <1>11, CopyLoop
<1>13. /\ w \in PageState /\ w.cr3 = t.cr3 /\ Kept(t, w, o, p)
       /\ \E H : Lists(w, H)
  BY <1>12 DEF CopyAt
<1>14. \A b \in Pdes, x \in Ptes, g \in Frames : PageAt(w, p, b, x, g) <=> PageAt(t, p, b, x, g)
  BY <1>5, <1>13, KeptSeen
<1>15. /\ u \in PageState /\ u.mem = w.mem /\ u.cr3 = w.cr3 /\ u.spoiled
       /\ \E H : Lists(u, H)
  <2>1. u = Spoil(w)
    BY <1>1
  <2> PICK H : Lists(w, H)
    BY <1>13
  <2>2. w \in PageState
    BY <1>13
  <2>3. Lists(Spoil(w), H)
    BY <2>2, SpoilFields
  <2>4. /\ Spoil(w) \in PageState /\ Spoil(w).mem = w.mem /\ Spoil(w).cr3 = w.cr3
        /\ Spoil(w).spoiled
    BY <2>2, SpoilFields
  <2>5. u.spoiled
    BY <2>1, <2>4
  <2>6. u \in PageState /\ u.mem = w.mem /\ u.cr3 = w.cr3
    BY <2>1, <2>4
  <2>7. Lists(u, H)
    BY <2>1, <2>3
  <2> QED
    BY <2>5, <2>6, <2>7
<1>16. \A b \in Pdes, x \in Ptes, g \in Frames : PageAt(u, p, b, x, g) <=> PageAt(t, p, b, x, g)
  <2> SUFFICES ASSUME NEW b \in Pdes, NEW x \in Ptes, NEW g \in Frames
               PROVE  PageAt(u, p, b, x, g) <=> PageAt(t, p, b, x, g)
    OBVIOUS
  <2>1. PageAt(u, p, b, x, g) <=> PageAt(w, p, b, x, g)
    BY <1>15 DEF PageAt
  <2> QED
    BY <1>14, <2>1
<1>17. Space(u, p) = Space(t, p)
  <2>1. u.cr3[p] # NULL
    BY <1>6, <1>13, <1>15
  <2> QED
    BY <1>6, <1>15, <1>16, <2>1, SameMapped
<1> QED
  BY <1>8, <1>15, <1>17

-----------------------------------------------------------------------------
(* pg_exec().                                                                *)

\* The last page of a table is unmapped, and the table released.
Unmapped(t, F, u, dir, d, e, tbl) ==
  /\ u \in PageState /\ u.cr3 = t.cr3 /\ Lists(u, F \cup {tbl})
  /\ \A h \in Frames, y \in Entries :
       u.mem[h][y] = IF (h = dir /\ y = d) \/ (h = tbl /\ y = e) THEN NULL ELSE t.mem[h][y]

\* pg_unmap() of the only page of a table gives back the table too.
LEMMA UnmapLast ==
  ASSUME NEW t \in PageState, NEW F, Lists(t, F), NEW dir \in Frames,
         NEW d \in Pdes, NEW e \in Ptes, NEW tbl \in Frames, t.mem[dir][d] = tbl, tbl \notin F,
         \A c \in Ptes : t.mem[tbl][c] # NULL => c = e
  PROVE  Unmapped(t, F, pg_unmap(t, dir, d * PTES + e), dir, d, e, tbl)
<1>1. /\ (d * PTES + e) \div PTES = d /\ (d * PTES + e) % PTES = e
      /\ d \in Entries /\ e \in Entries /\ NULL \in FrameOrNull /\ Ptes \subseteq Entries
  BY AtEntry, EntriesOf DEF FrameOrNull
<1>2. Table(t, dir, d * PTES + e) = tbl
  BY <1>1 DEF Table
<1> PICK w, v, u : w = SetEntry(t, tbl, e, NULL) /\ v = pg_push(w, tbl)
                   /\ u = SetEntry(v, dir, d, NULL)
  OBVIOUS
<1>3. SameButMem(t, w) /\ EntrySet(t, w, tbl, e, NULL)
  BY <1>1, SetFields
<1>4. w \in PageState /\ Lists(w, F)
  BY <1>3, SameLists DEF SameButMem
<1>5. v \in PageState /\ Lists(v, F \cup {tbl}) /\ v.mem = w.mem /\ v.cr3 = w.cr3
  BY <1>4, PushLists, PushFields
<1>6. SameButMem(v, u) /\ EntrySet(v, u, dir, d, NULL)
  BY <1>1, <1>5, SetFields
<1>7. u \in PageState /\ Lists(u, F \cup {tbl}) /\ u.cr3 = t.cr3
  <2>1. u \in PageState /\ u.cr3 = t.cr3
    BY <1>3, <1>5, <1>6 DEF SameButMem
  <2> PICK G : G = F \cup {tbl}
    OBVIOUS
  <2>2. Lists(u, G)
    BY <1>5, <1>6, SameLists DEF SameButMem
  <2> QED
    BY <2>1, <2>2
<1>8. ASSUME NEW c \in Ptes PROVE w.mem[tbl][c] = NULL
  BY <1>1, <1>3 DEF EntrySet
<1>9. pg_unmap(t, dir, d * PTES + e) = u
  <2>1. w = [t EXCEPT !.mem[tbl][(d * PTES + e) % PTES] = NULL]
    BY <1>1 DEF SetEntry
  <2>2. u = [pg_push(w, tbl) EXCEPT !.mem[dir][(d * PTES + e) \div PTES] = NULL]
    BY <1>1 DEF SetEntry
  <2>3. ~\E c \in Ptes : w.mem[tbl][c] # NULL
    BY <1>8
  <2> QED
    BY <1>2, <2>1, <2>2, <2>3 DEF pg_unmap
<1>10. Unmapped(t, F, u, dir, d, e, tbl)
  BY <1>3, <1>5, <1>6, <1>7 DEF Unmapped, EntrySet
<1> QED
  BY <1>9, <1>10

\* The file system's user heap has been handed over.
Handed(t, y, dir1) ==
  /\ y \in PageState /\ y.cr3 = t.cr3 /\ dir1 \in Frames
  /\ \E K : Lists(y, K) /\ dir1 \notin K /\ Cardinality(K) >= 2
  /\ y.mem[dir1][2 * QUARTER] = NULL
  /\ \A d \in UserHeaps, e \in Ptes : ~pg_mapped(y, dir1, d * PTES + e)

ExecTurn(s, dir1, dir2, lin) ==
  IF pg_mapped(s, dir1, lin) THEN pg_unmap(pg_map(s, dir2, Target(s, dir1, lin), lin), dir1, lin) ELSE s

\* The first page of its heap goes from the file system to the process that execs.
LEMMA HandOver ==
  ASSUME NEW t, NEW F, NEW own, SoundIn(t, F, own), NEW p \in Tasks, t.cr3[p] # NULL,
         NEW q \in Tasks, t.cr3[q] # NULL, p # q, Cardinality(F) >= 2,
         NEW w, w = PushTables(t, t.cr3[p], UserHeaps)
  PROVE  w \in PageState /\ Handed(t, ExecTurn(w, t.cr3[q], t.cr3[p], 2 * QUARTER * PTES), t.cr3[q])
<1>0. /\ t \in PageState /\ Lists(t, F) /\ Owns(t, F, own) /\ Books(t, F, own)
      /\ Complete(t, p) /\ Complete(t, q) /\ NULL \notin Frames
      /\ Pdes \subseteq Entries /\ Ptes \subseteq Entries
      /\ UserHeaps \in SUBSET Private /\ UserHeaps \in SUBSET Pdes
      /\ \A x \in Frames, y \in Entries : t.mem[x][y] \in Frames \cup {NULL}
  BY Regions, EntriesOf, Starts, Memory DEF SoundIn, Books, PageState, FrameOrNull
<1> PICK dir1 \in Frames, dir2 \in Frames : dir1 = t.cr3[q] /\ dir2 = t.cr3[p]
  BY <1>0 DEF PageState, FrameOrNull
<1> PICK d \in UserHeaps, e \in Ptes : d = 2 * QUARTER /\ e = 0
  BY Starts
<1>1. d * PTES + e = 2 * QUARTER * PTES /\ d \in Pdes /\ d \in Entries /\ e \in Entries
  BY <1>0, Memory
<1> PICK lin : lin = d * PTES + e
  OBVIOUS
<1>2. own[dir1] = AsDir(q) /\ own[dir2] = AsDir(p)
  BY <1>0 DEF Owns, OwnDirs
<1>3. PICK T1 \in Frames : t.mem[dir1][d] = T1 /\ own[T1] = AsTable(q, d)
  <2>1. \E f \in Frames : PageAt(t, q, d, e, f)
    BY <1>0 DEF Complete
  <2>2. t.mem[dir1][d] # NULL
    BY <2>1 DEF PageAt
  <2> PICK T \in Frames : T = t.mem[dir1][d]
    BY <1>0, <1>1, <2>2
  <2>3. TableAt(t, q, d, T)
    BY DEF TableAt
  <2>4. own[T] = AsTable(q, d)
    BY <1>0, <1>1, <2>3 DEF Owns, OwnTables
  <2> QED
    BY <2>4
<1>4. PICK T2 \in Frames : t.mem[dir2][d] = T2 /\ own[T2] = AsTable(p, d)
  <2>1. \E f \in Frames : PageAt(t, p, d, e, f)
    BY <1>0 DEF Complete
  <2>2. t.mem[dir2][d] # NULL
    BY <2>1 DEF PageAt
  <2> PICK T \in Frames : T = t.mem[dir2][d]
    BY <1>0, <1>1, <2>2
  <2>3. TableAt(t, p, d, T)
    BY DEF TableAt
  <2>4. own[T] = AsTable(p, d)
    BY <1>0, <1>1, <2>3 DEF Owns, OwnTables
  <2> QED
    BY <2>4
<1>5. T1 # T2 /\ T1 # dir1 /\ T1 # dir2 /\ T2 # dir1 /\ T2 # dir2 /\ dir1 # dir2
  BY <1>2, <1>3, <1>4, RolesApart
<1>6. \A b \in UserHeaps, c \in Ptes, f \in Frames :
        PageAt(t, q, b, c, f) => b = d /\ c = e
  BY <1>0 DEF Complete
<1>7. \A c \in Ptes : t.mem[T1][c] # NULL => c = e
  <2> SUFFICES ASSUME NEW c \in Ptes, t.mem[T1][c] # NULL PROVE c = e
    OBVIOUS
  <2> PICK f \in Frames : f = t.mem[T1][c]
    BY <1>0
  <2>1. PageAt(t, q, d, c, f)
    BY <1>3, <1>0 DEF PageAt
  <2> QED
    BY <1>6, <2>1
<1>8. PICK f \in Frames : t.mem[T1][e] = f
  <2> PICK f \in Frames : PageAt(t, q, d, e, f)
    BY <1>0 DEF Complete
  <2> QED
    BY <1>3 DEF PageAt
<1> PICK H : H = F \cup HeldPages(t, p, UserHeaps)
  OBVIOUS
<1>9. HeldBy(t, F, own, p, UserHeaps)
  BY <1>0, HeldOwn
<1>10. w \in PageState /\ Lists(w, H) /\ w.mem = t.mem /\ w.cr3 = t.cr3 /\ H \subseteq Frames
  <2>1. OtherLists(t, w, H)
    BY <1>0, <1>9, PushTablesLists
  <2> QED
    BY <2>1 DEF OtherLists, Lists
<1>11. T1 \notin H /\ dir1 \notin H
  <2>1. ASSUME NEW g \in H
        PROVE  own[g] = AsFree \/ \E b \in Pdes : own[g] = AsTable(p, b) \/ \E c \in Ptes : own[g] = AsPage(p, b, c)
    <3>1. CASE g \in F
      BY <1>0, <1>10, <3>1 DEF Owns, OwnFree
    <3>2. CASE g \in HeldPages(t, p, UserHeaps)
      <4> PICK b \in UserHeaps : TableAt(t, p, b, g) \/ \E c \in Ptes : PageAt(t, p, b, c, g)
        BY <3>2 DEF HeldPages
      <4>1. g \in Frames /\ b \in Pdes
        BY <1>0, <1>10
      <4>2. own[g] = AsTable(p, b) \/ \E c \in Ptes : own[g] = AsPage(p, b, c)
        BY <1>9, <4>1 DEF HeldBy
      <4> QED
        BY <4>1, <4>2
    <3> QED
      BY <3>1, <3>2
  <2>2. own[T1] # AsFree /\ own[dir1] # AsFree
    BY <1>2, <1>3, RolesApart
  <2>3. \A b \in Pdes : own[T1] # AsTable(p, b) /\ own[dir1] # AsTable(p, b)
    BY <1>2, <1>3, RolesApart
  <2>4. \A b \in Pdes, c \in Ptes : own[T1] # AsPage(p, b, c) /\ own[dir1] # AsPage(p, b, c)
    BY <1>2, <1>3, RolesApart
  <2> QED
    BY <2>1, <2>2, <2>3, <2>4
<1> PICK x : x = pg_map(w, dir2, f, d * PTES + e)
  OBVIOUS
<1>12. TableFor(w, dir2, d) = T2 /\ w.mem[dir2][d] # NULL
  BY <1>0, <1>4, <1>10 DEF TableFor
<1>13. Mapping(w, H, x, dir2, d, e, f)
  BY <1>1, <1>5, <1>10, <1>12, MapFields DEF FrameOrNull
<1>14. /\ x \in PageState /\ x.cr3 = t.cr3 /\ Lists(x, H)
       /\ \A h \in Frames, y \in Entries : h # T2 => x.mem[h][y] = t.mem[h][y]
  <2>1. x \in PageState /\ x.cr3 = t.cr3 /\ Lists(x, H)
    BY <1>10, <1>12, <1>13 DEF Mapping, LeftOf
  <2>2. MapSet(w, x, dir2, d, e, f)
    BY <1>13 DEF Mapping
  <2>3. \A h \in Frames, y \in Entries : h # T2 => x.mem[h][y] = t.mem[h][y]
    BY <1>4, <1>10, <1>12, <2>2 DEF MapSet
  <2> QED
    BY <2>1, <2>3
<1> PICK y : y = pg_unmap(x, dir1, d * PTES + e)
  OBVIOUS
<1>15. Unmapped(x, H, y, dir1, d, e, T1)
  <2>1. x.mem[dir1][d] = T1 /\ \A c \in Ptes : x.mem[T1][c] # NULL => c = e
    BY <1>0, <1>1, <1>3, <1>5, <1>7, <1>14
  <2>2. x \in PageState /\ Lists(x, H) /\ T1 \notin H /\ d \in Pdes
    BY <1>1, <1>11, <1>14
  <2>3. Unmapped(x, H, pg_unmap(x, dir1, d * PTES + e), dir1, d, e, T1)
    BY <2>1, <2>2, UnmapLast
  <2> QED
    BY <2>3
<1>16. /\ y \in PageState /\ y.cr3 = t.cr3 /\ Lists(y, H \cup {T1})
       /\ \A h \in Frames, z \in Entries :
            y.mem[h][z] = IF (h = dir1 /\ z = d) \/ (h = T1 /\ z = e) THEN NULL ELSE x.mem[h][z]
  BY <1>14, <1>15 DEF Unmapped
<1> PICK K : K = H \cup {T1}
  OBVIOUS
<1>17. Lists(y, K) /\ dir1 \notin K /\ Cardinality(K) >= 2
  <2>1. Lists(y, K) /\ dir1 \notin K
    BY <1>5, <1>11, <1>16
  <2>2. K \in SUBSET Frames /\ F \subseteq K
    BY <2>1 DEF Lists
  <2>3. IsFiniteSet(K) /\ Cardinality(K) \in Nat
    BY <2>2, FramesFinite
  <2>4. Cardinality(F) <= Cardinality(K) /\ Cardinality(F) \in Nat
    BY <2>2, <2>3, FS_Subset, FS_CardinalityType
  <2> QED
    BY <2>1, <2>3, <2>4
<1>18. ASSUME NEW b \in UserHeaps, NEW c \in Ptes
       PROVE  ~pg_mapped(y, dir1, b * PTES + c)
  <2>1. b \in Pdes /\ b \in Entries /\ c \in Entries
    BY <1>0, SMTT(30)
  <2>2. (b * PTES + c) \div PTES = b /\ (b * PTES + c) % PTES = c
    BY <2>1, AtEntry, SMTT(30)
  <2>3. pg_mapped(y, dir1, b * PTES + c) <=> y.mem[dir1][b] # NULL /\ y.mem[y.mem[dir1][b]][c] # NULL
    BY <2>2, ZenonT(60) DEF pg_mapped, Table
  <2>4. CASE b = d
    BY <1>1, <1>16, <2>3, <2>4
  <2>5. CASE b # d
    <3>1. y.mem[dir1][b] = t.mem[dir1][b]
      BY <1>5, <1>14, <1>16, <2>1, <2>5, SMTT(30)
    <3>2. CASE t.mem[dir1][b] = NULL
      BY <2>3, <3>1, <3>2, SMTT(30)
    <3>3. CASE t.mem[dir1][b] # NULL
      <4> PICK T \in Frames : T = t.mem[dir1][b]
        BY <1>0, <2>1, <3>3
      <4>1. TableAt(t, q, b, T)
        BY DEF TableAt
      <4>2. own[T] = AsTable(q, b)
        BY <1>0, <2>1, <4>1, ZenonT(60) DEF Owns, OwnTables
      <4>3. AsTable(q, b) # AsTable(q, d) /\ AsTable(q, b) # AsTable(p, d) /\ AsTable(q, b) # AsDir(q)
        BY <2>5 DEF AsTable, AsDir
      <4>4. T # T1 /\ T # T2 /\ T # dir1
        BY <1>2, <1>3, <1>4, <4>2, <4>3, SMTT(30)
      <4>5. y.mem[T][c] = t.mem[T][c]
        BY <1>14, <1>16, <2>1, <4>4, SMTT(30)
      <4>6. ASSUME t.mem[T][c] # NULL PROVE FALSE
        <5> PICK g \in Frames : g = t.mem[T][c]
          BY <1>0, <2>1, <4>6
        <5>1. PageAt(t, q, b, c, g)
          BY <3>3 DEF PageAt
        <5> QED
          BY <1>6, <2>5, <5>1
      <4> QED
        BY <2>3, <3>1, <4>5, <4>6
    <3> QED
      BY <3>2, <3>3
  <2> QED
    BY <2>4, <2>5, SMTT(30)
<1>19. y.mem[dir1][2 * QUARTER] = NULL
  BY <1>1, <1>16
<1>20. Handed(t, y, dir1)
  BY <1>16, <1>17, <1>18, <1>19 DEF Handed
<1>21. ExecTurn(w, dir1, dir2, lin) = y
  <2>1. (d * PTES + e) \div PTES = d /\ (d * PTES + e) % PTES = e
    BY <1>1, AtEntry
  <2>2. Table(w, dir1, lin) = T1 /\ Target(w, dir1, lin) = f
    BY <1>3, <1>8, <1>10, <2>1 DEF Table, Target
  <2>3. pg_mapped(w, dir1, lin)
    BY <1>0, <1>8, <1>10, <2>1, <2>2 DEF pg_mapped
  <2> QED
    BY <2>2, <2>3 DEF ExecTurn
<1> QED
  BY <1>1, <1>10, <1>20, <1>21

\* The file system's new user heap.
LEMMA NewHeap ==
  ASSUME NEW t, NEW y, NEW dir1, Handed(t, y, dir1), NEW up \in BOOLEAN
  PROVE  LET u == pg_alloc(y, dir1, UserHeap, up)
         IN u \in PageState /\ \E G : Lists(u, G)
<1> PICK K : Lists(y, K) /\ dir1 \notin K /\ Cardinality(K) >= 2
  BY DEF Handed
<1> PICK d \in Pdes, e \in Ptes : d = 2 * QUARTER /\ e = 0 /\ d \in UserHeaps /\ UserHeap = d * PTES + e
  BY Starts, Regions
<1>1. /\ y \in PageState /\ dir1 \in Frames /\ y.mem[dir1][d] = NULL
      /\ ~pg_mapped(y, dir1, d * PTES + e)
  BY DEF Handed
<1> PICK S : S = Mapped(y, dir1, Pdes)
  OBVIOUS
<1>2. IsFiniteSet(S) /\ d * PTES + e \notin S /\ d * PTES + e \in Int
  BY <1>1, MappedFinite, AtEntry DEF Mapped
<1> PICK x : x = d * PTES + e
  OBVIOUS
<1>3. pg_next_addr(S, x, up) = x
  BY <1>2, FirstAddr
<1> PICK w, g : w = pg_pop(y) /\ g = y.free
  OBVIOUS
<1>4. K \in SUBSET Frames /\ K # {}
  <2>1. K \in SUBSET Frames
    BY DEF Lists
  <2> QED
    BY <2>1, FS_EmptySet
<1>5. g \in K /\ w \in PageState /\ Lists(w, K \ {g})
  BY <1>1, <1>4, PopLists
<1>6. g \in Frames /\ w.used = g /\ w.mem = y.mem
  <2>1. y.free \in Frames
    BY <1>4, <1>5
  <2> QED
    BY <1>1, <2>1, PopFields
<1> PICK L : L = K \ {g}
  OBVIOUS
<1>7. L # {} /\ Lists(w, L)
  <2>1. Cardinality(K \ {g}) = Cardinality(K) - 1 /\ Cardinality(K) \in Nat
    BY <1>4, <1>5, OneLess
  <2>2. Cardinality(L) # 0
    BY <2>1
  <2> QED
    BY <1>5, <2>2, FS_EmptySet
<1>8. TableFor(w, dir1, d) # dir1
  <2>1. w.free \in L
    BY <1>5, <1>7, PopLists
  <2> QED
    BY <1>1, <1>6, <2>1 DEF TableFor
<1> PICK u : u = pg_map(w, dir1, g, d * PTES + e)
  OBVIOUS
<1>9. Mapping(w, L, u, dir1, d, e, g)
  <2>1. g \in FrameOrNull
    BY <1>6 DEF FrameOrNull
  <2> QED
    BY <1>1, <1>5, <1>7, <1>8, <2>1, MapFields
<1>10. u \in PageState /\ \E G : Lists(u, G)
  BY <1>9 DEF Mapping
<1>11. pg_alloc(y, dir1, UserHeap, up) = u
  BY <1>3, <1>6 DEF pg_alloc
<1> QED
  BY <1>10, <1>11

\* pg_exec() keeps every page in one list.
LEMMA ExecLists ==
  ASSUME NEW t, NEW F, NEW own, SoundIn(t, F, own), NEW p \in Tasks, t.cr3[p] # NULL,
         NEW q \in Tasks, t.cr3[q] # NULL, p # q, Cardinality(F) >= 2
  PROVE  pg_exec(t, t.cr3[q], t.cr3[p]) \in PageState
         /\ \E G : Lists(pg_exec(t, t.cr3[q], t.cr3[p]), G)
<1> PICK n \in Nat : n = QUARTER * PTES /\ n >= 1
  <2>1. QUARTER * PTES \in Nat
    BY Memory
  <2>2. QUARTER * PTES >= 1
    <3> PICK z \in Nat : QUARTER = z + 1
      <4>1. QUARTER - 1 \in Nat /\ QUARTER = (QUARTER - 1) + 1
        BY Memory
      <4> QED
        BY <4>1
    <3>1. QUARTER * PTES = z * PTES + PTES /\ z * PTES \in Nat
      BY Memory
    <3> QED
      BY <3>1, Memory
  <2> QED
    BY <2>1, <2>2
<1> PICK dir1, dir2 : dir1 = t.cr3[q] /\ dir2 = t.cr3[p]
  OBVIOUS
<1> PICK up \in BOOLEAN : up = TRUE
  OBVIOUS
<1> PICK w : w = PushTables(t, dir2, UserHeaps)
  OBVIOUS
<1> PICK y : y = ExecTurn(w, dir1, dir2, 2 * QUARTER * PTES)
  OBVIOUS
<1>1. w \in PageState /\ Handed(t, y, dir1)
  BY HandOver
<1> DEFINE Step1(j, s) == ExecTurn(s, dir1, dir2, 2 * QUARTER * PTES + j - 1)
           A == [k \in 0 .. n |-> {IF k = 0 THEN w ELSE y}]
           f == [k \in 0 .. n |-> IF k = 0 THEN w ELSE y]
           m[k \in 0 .. QUARTER * PTES] ==
             IF k = 0 THEN PushTables(t, dir2, 2 * QUARTER .. 3 * QUARTER - 1)
             ELSE LET s   == m[k - 1]
                      lin == 2 * QUARTER * PTES + k - 1
                  IN IF pg_mapped(s, dir1, lin)
                     THEN pg_unmap(pg_map(s, dir2, Target(s, dir1, lin), lin), dir1, lin)
                     ELSE s
<1>2. pg_exec(t, dir1, dir2) = pg_alloc(m[QUARTER * PTES], dir1, UserHeap, TRUE)
  BY DEF pg_exec
<1>3. ASSUME NEW j \in 1 .. n PROVE Step1(j, IF j - 1 = 0 THEN w ELSE y) = y
  <2> PICK z \in Nat : z = 2 * QUARTER * PTES /\ 3 * QUARTER * PTES = z + n
    <3>1. 2 * QUARTER * PTES \in Nat /\ 3 * QUARTER * PTES = 2 * QUARTER * PTES + QUARTER * PTES
      BY Memory
    <3> QED
      BY <3>1
  <2>1. CASE j = 1
    <3>1. z + j - 1 = z
      BY <2>1
    <3> QED
      BY <2>1, <3>1
  <2>2. CASE j # 1
    <3>1. z + j - 1 \in z .. (z + n) - 1
      OBVIOUS
    <3> PICK a \in Nat, b \in Nat : a = 2 * QUARTER /\ b = 3 * QUARTER
      BY Memory
    <3>2. z + j - 1 \in a * PTES .. b * PTES - 1
      BY <3>1
    <3>3. \E d \in a .. b - 1, e \in Ptes : z + j - 1 = d * PTES + e
      BY <3>2, EntryIn, ZenonT(60)
    <3> PICK d \in UserHeaps, e \in Ptes : z + j - 1 = d * PTES + e
      BY <3>3 DEF UserHeaps
    <3>4. ~pg_mapped(y, dir1, z + j - 1)
      BY <1>1 DEF Handed
    <3>5. Step1(j, y) = y
      BY <3>4 DEF ExecTurn
    <3> HIDE DEF Step1
    <3> QED
      BY <2>2, <3>5
  <2> QED
    BY <2>1, <2>2
<1>4. f = [j \in 0 .. n |-> IF j = 0 THEN w ELSE Step1(j, f[j - 1])]
  <2>1. \A j \in 0 .. n : f[j] = IF j = 0 THEN w ELSE Step1(j, f[j - 1])
    <3> SUFFICES ASSUME NEW j \in 0 .. n, j # 0 PROVE f[j] = Step1(j, f[j - 1])
      OBVIOUS
    <3>1. j \in 1 .. n /\ j - 1 \in 0 .. n
      OBVIOUS
    <3>2. f[j] = y /\ f[j - 1] = IF j - 1 = 0 THEN w ELSE y
      BY <3>1
    <3> HIDE DEF Step1, f
    <3> QED
      BY <1>3, <3>1, <3>2
  <2>2. f = [j \in 0 .. n |-> f[j]]
    BY SMTT(30)
  <2> HIDE DEF Step1, f
  <2> QED
    BY <2>1, <2>2
<1>5. m = [j \in 0 .. n |-> IF j = 0 THEN w ELSE Step1(j, m[j - 1])]
  <2> HIDE DEF f
  <2> QED
    BY <1>4, Zenon DEF m, ExecTurn, UserHeaps
<1> HIDE DEF m, f
<1>6. m[0] \in A[0] /\ \A j \in 1 .. n : m[j - 1] \in A[j - 1] => m[j] \in A[j]
  <2>1. m[0] = w /\ \A j \in 1 .. n : m[j] = Step1(j, m[j - 1])
    <3> HIDE DEF Step1
    <3> QED
      BY <1>5
  <2>0. m[0] \in A[0]
    BY <2>1
  <2> SUFFICES ASSUME NEW j \in 1 .. n, m[j - 1] \in A[j - 1] PROVE m[j] \in A[j]
    <3> HIDE DEF A, Step1
    <3> QED
      BY <2>0
  <2>2. m[j - 1] = IF j - 1 = 0 THEN w ELSE y
    <3>1. j - 1 \in 0 .. n
      OBVIOUS
    <3> QED
      BY <3>1
  <2> HIDE DEF Step1
  <2>3. m[j] = y
    BY <1>3, <2>1, <2>2
  <2> QED
    BY <2>3
<1>7. m[n] = y
  <2>1. \A j \in 0 .. n : m[j] \in A[j]
    <3> HIDE DEF A
    <3> QED
      BY <1>6, AllIn
  <2>2. n \in 0 .. n /\ n # 0
    OBVIOUS
  <2> QED
    BY <2>1, <2>2
<1>8. pg_alloc(y, dir1, UserHeap, up) \in PageState /\ \E G : Lists(pg_alloc(y, dir1, UserHeap, up), G)
  BY <1>1, NewHeap
<1>9. pg_exec(t, dir1, dir2) = pg_alloc(y, dir1, UserHeap, up)
  BY <1>2, <1>7
<1> QED
  BY <1>8, <1>9

\* The call of pg_exec() keeps every page in one list.
LEMMA ExecStep ==
  ASSUME NEW F, NEW own, SoundIn(mm, F, own), NEW p \in Tasks, Exec(p)
  PROVE  mm' \in PageState /\ (\E H : Lists(mm', H)) /\ mm'.spoiled
<1> PICK t, u, q : t = mm /\ u = mm' /\ q = FS_PID
  OBVIOUS
<1> PICK w : w = pg_exec(t, t.cr3[q], t.cr3[p])
  OBVIOUS
<1>1. /\ SoundIn(t, F, own) /\ q \in Tasks /\ t.cr3[q] # NULL /\ t.cr3[p] # NULL /\ p # q
      /\ u = Spoil(w)
  BY PagingAssumption DEF Exec, Exists, Spoil
<1>2. Cardinality(F) >= 2
  <2>1. Lists(mm, F) /\ mm \in PageState /\ Enough(2)
    BY DEF SoundIn, Books, Exec
  <2> QED
    BY <2>1, EnoughMeans
<1>3. w \in PageState /\ \E G : Lists(w, G)
  BY <1>1, <1>2, ExecLists
<1> PICK G : Lists(w, G)
  BY <1>3
<1>4. Lists(Spoil(w), G) /\ Spoil(w) \in PageState /\ Spoil(w).spoiled
  <2>1. w \in PageState
    BY <1>3
  <2> QED
    BY <2>1, SpoilFields
<1> QED
  BY <1>1, <1>4

-----------------------------------------------------------------------------
(* The theorems.                                                             *)

\* The invariant has two lists of the pages.
LEMMA SoundLists ==
  ASSUME NEW t, Sound(t)
  PROVE  t \in PageState /\ \E F : Lists(t, F)
BY DEF Sound, Books

\* Every call keeps the invariant.
LEMMA PagingStep ==
  ASSUME PagingInv, PagingNext
  PROVE  PagingInv'
<1>1. ~mm.spoiled /\ Sound(mm)
  BY DEF PagingInv, PagingNext
<1>2. PICK F, own : SoundIn(mm, F, own)
  BY <1>1 DEF Sound, SoundIn
<1>3. ASSUME Sound(mm') PROVE PagingInv'
  <2>1. mm' \in PageState /\ \E G : Lists(mm', G)
    BY <1>3, SoundLists
  <2> QED
    BY <1>3, <2>1 DEF PagingInv
<1>4. ASSUME mm' \in PageState, \E H : Lists(mm', H), mm'.spoiled PROVE PagingInv'
  BY <1>4 DEF PagingInv
<1>5. ASSUME NEW p \in Tasks, Create(p) PROVE PagingInv'
  BY <1>2, <1>3, <1>5, CreateStep
<1>6. ASSUME NEW p \in Tasks, Destroy(p) PROVE PagingInv'
  BY <1>2, <1>3, <1>6, DestroyStep
<1>7. ASSUME NEW p \in Tasks, Exec(p) PROVE PagingInv'
  BY <1>2, <1>4, <1>7, ExecStep
<1>8. ASSUME NEW p \in Tasks, NEW kernel \in BOOLEAN, stack_pg_fault(p, kernel) PROVE PagingInv'
  BY <1>2, <1>3, <1>8, StackFault
<1>9. ASSUME ksbrk PROVE PagingInv'
  BY <1>2, <1>3, <1>9, SbrkStep
<1>10. ASSUME NEW p \in Tasks, NEW lin \in Pages(Pdes \ Private), heap_pg_fault(p, lin) PROVE PagingInv'
  BY <1>2, <1>3, <1>10, HeapFault
<1>11. ASSUME NEW p \in Tasks, NEW c \in Tasks, Fork(p, c) PROVE PagingInv'
  BY <1>2, <1>4, <1>11, ForkStep
<1> QED
  BY <1>5, <1>6, <1>7, <1>8, <1>9, <1>10, <1>11 DEF PagingNext

\* The invariant holds as long as the machine runs.
LEMMA PagingSafe == PagingSpec => []PagingInv
<1>1. PagingInv /\ [PagingNext]_pagingVars => PagingInv'
  <2> SUFFICES ASSUME PagingInv, [PagingNext]_pagingVars PROVE PagingInv'
    OBVIOUS
  <2>1. CASE PagingNext
    BY <2>1, PagingStep
  <2>2. CASE UNCHANGED pagingVars
    BY <2>2 DEF pagingVars, PagingInv, Sound
  <2> QED
    BY <2>1, <2>2
<1>2. PagingInit => PagingInv
  BY InitPaging
<1> QED
  BY <1>1, <1>2, PTL DEF PagingSpec

\* Whatever calls are made, for any memory, table size and processes: pg_push() and pg_pop(),
\* and all that is built on them up to pg_fork() and pg_exec(), leave every page in the free
\* list or in the used list, never in both or in neither.
THEOREM ListsPartitionCorrect == PagingSpec => []ListsPartition
<1>1. PagingInv => ListsPartition
  BY ListsGiveParts DEF PagingInv
<1> QED
  BY <1>1, PagingSafe, PTL

\* Until a fork or an exec a page of the kernel heap that a process has is the one the reference
\* directory has at that address: heap_pg_fault() and pg_space_create() never give a process
\* another page, and common_sbrk() never moves one.
THEOREM KernelHeapSharedCorrect == PagingSpec => []KernelHeapShared
<1>1. ASSUME PagingInv PROVE KernelHeapShared
  <2> SUFFICES ASSUME ~mm.spoiled, NEW p \in Spaces,
                      NEW lin \in Mapped(mm, mm.cr3[p], Pdes \ Private)
               PROVE  /\ pg_mapped(mm, mm.cr3[IDLE_PID], lin)
                      /\ Target(mm, mm.cr3[p], lin) = Target(mm, mm.cr3[IDLE_PID], lin)
    BY DEF KernelHeapShared
  <2>1. PICK F, own : SoundIn(mm, F, own)
    BY <1>1 DEF PagingInv, Sound, SoundIn
  <2> PICK t : t = mm
    OBVIOUS
  <2>2. /\ t \in PageState /\ Owns(t, F, own) /\ t.cr3[IDLE_PID] # NULL /\ Complete(t, IDLE_PID)
        /\ IDLE_PID \in Tasks /\ p \in Tasks /\ t.cr3[p] # NULL
    BY <2>1, PagingAssumption DEF SoundIn, Books, Spaces, Exists
  <2> PICK d \in Pdes \ Private, e \in Ptes : lin = d * PTES + e
    BY DEF Mapped, Pages
  <2>3. PICK f \in Frames : PageAt(t, p, d, e, f)
    BY <2>2, MappedAt
  <2>4. PageAt(t, IDLE_PID, d, e, f)
    <3>1. CASE HeapEntry(d, e)
      <4>1. own[f] = AsHeap(d, e)
        BY <2>2, <2>3, <3>1 DEF Owns, SharedHeap
      <4> QED
        BY <2>2, <3>1, <4>1 DEF Owns, OwnHeap
    <3>2. CASE ~HeapEntry(d, e)
      <4>1. d = 0 /\ e < sys_pgs
        BY <3>2 DEF HeapEntry
      <4>2. f = e
        BY <2>2, <2>3, <4>1 DEF Owns, SystemAt
      <4>3. PICK g \in Frames : PageAt(t, IDLE_PID, d, e, g)
        BY <2>2, <4>1 DEF Complete
      <4>4. g = e
        BY <2>2, <4>1, <4>3 DEF Owns, SystemAt
      <4> QED
        BY <4>2, <4>3, <4>4
    <3> QED
      BY <3>1, <3>2
  <2>5. pg_mapped(t, t.cr3[IDLE_PID], lin)
    BY <2>2, <2>4, MappedAt
  <2>6. Target(t, t.cr3[IDLE_PID], lin) = f
    BY <2>2, <2>4, MappedAt
  <2>7. Target(t, t.cr3[p], lin) = f
    BY <2>2, <2>3, MappedAt
  <2> QED
    BY <2>5, <2>6, <2>7
<1> QED
  BY <1>1, PagingSafe, PTL

\* pg_fork() leaves the process that forks with the pages it had, at the addresses where it had
\* them, though all that it copies goes through tables that were just pushed: none of these is
\* the parent's, and the copies are mapped for the child only.
THEOREM ForkKeepsParentCorrect == PagingSpec => ForkKeepsParent
<1>1. PagingInv /\ [PagingNext]_pagingVars =>
        [\A p, c \in Tasks : Fork(p, c) => Space(mm', p) = Space(mm, p)]_pagingVars
  <2> SUFFICES ASSUME PagingInv, PagingNext, NEW p \in Tasks, NEW c \in Tasks, Fork(p, c)
               PROVE  Space(mm', p) = Space(mm, p)
    OBVIOUS
  <2>1. ~mm.spoiled /\ Sound(mm)
    BY DEF PagingInv, PagingNext
  <2>2. PICK F, own : SoundIn(mm, F, own)
    BY <2>1 DEF Sound, SoundIn
  <2> QED
    BY <2>2, ForkStep
<1> QED
  BY <1>1, PagingSafe, PTL DEF PagingSpec, ForkKeepsParent

\* Where page f is used.
DirsWith(f)   == {q \in Spaces : mm.cr3[q] = f}
TablesWith(f) == {x \in Spaces \X Pdes : mm.mem[mm.cr3[x[1]]][x[2]] = f}
PagesWith(f)  == {x \in Spaces \X Pages(Private) :
                    pg_mapped(mm, mm.cr3[x[1]], x[2]) /\ Target(mm, mm.cr3[x[1]], x[2]) = f}
HeapWith(f)   == {x \in Pages(Pdes \ Private) \ 0 .. sys_pgs - 1 :
                    pg_mapped(mm, mm.cr3[IDLE_PID], x) /\ Target(mm, mm.cr3[IDLE_PID], x) = f}

\* What the uses of page f come from, where own says what it is used for.
LEMMA UsesOwn ==
  ASSUME NEW F, NEW own, SoundIn(mm, F, own), NEW f \in Frames
  PROVE  /\ f \in Listed(mm, mm.free) <=> own[f] = AsFree
         /\ f < sys_pgs <=> own[f] = AsSystem
         /\ DirsWith(f) = {q \in Tasks : own[f] = AsDir(q)}
         /\ \A y : y \in TablesWith(f) <=>
                     \E p \in Tasks, d \in Pdes : y = <<p, d>> /\ own[f] = AsTable(p, d)
         /\ \A y : y \in PagesWith(f) <=>
                     \E p \in Tasks, d \in Private, e \in Ptes :
                       y = <<p, d * PTES + e>> /\ own[f] = AsPage(p, d, e)
         /\ \A y : y \in HeapWith(f) <=>
                     \E d \in Pdes, e \in Ptes :
                       HeapEntry(d, e) /\ y = d * PTES + e /\ own[f] = AsHeap(d, e)
<1> PICK t : t = mm
  OBVIOUS
<1>0. /\ t \in PageState /\ Lists(t, F) /\ Owns(t, F, own) /\ t.cr3[IDLE_PID] # NULL
      /\ IDLE_PID \in Tasks /\ Private \subseteq Pdes /\ NULL \notin Frames
      /\ Spaces = {p \in Tasks : t.cr3[p] # NULL}
  BY PagingAssumption, Regions, Memory DEF SoundIn, Books, Spaces, Exists
<1>1. f \in Listed(mm, mm.free) <=> own[f] = AsFree
  <2>1. Listed(t, t.free) = F
    BY <1>0, ListedBoth
  <2> QED
    BY <1>0, <2>1 DEF Owns, OwnFree
<1>2. f < sys_pgs <=> own[f] = AsSystem
  BY <1>0 DEF Owns, OwnSystem
<1>3. DirsWith(f) = {q \in Tasks : own[f] = AsDir(q)}
  BY <1>0 DEF Owns, OwnDirs, DirsWith
<1>4. ASSUME NEW y
      PROVE  y \in TablesWith(f) <=>
               \E p \in Tasks, d \in Pdes : y = <<p, d>> /\ own[f] = AsTable(p, d)
  <2>1. ASSUME NEW p \in Tasks, NEW d \in Pdes
        PROVE  own[f] = AsTable(p, d) <=> p \in Spaces /\ t.mem[t.cr3[p]][d] = f
    BY <1>0 DEF Owns, OwnTables, TableAt
  <2>2. y \in Spaces \X Pdes <=> \E p \in Spaces, d \in Pdes : y = <<p, d>>
    OBVIOUS
  <2>3. Spaces \subseteq Tasks
    BY <1>0
  <2> QED
    BY <2>1, <2>2, <2>3 DEF TablesWith
<1>5. ASSUME NEW p \in Tasks, t.cr3[p] # NULL, NEW d \in Pdes, NEW e \in Ptes
      PROVE  pg_mapped(t, t.cr3[p], d * PTES + e) /\ Target(t, t.cr3[p], d * PTES + e) = f <=>
               PageAt(t, p, d, e, f)
  BY <1>0, <1>5, MappedAt
<1>6. ASSUME NEW y
      PROVE  y \in PagesWith(f) <=>
               \E p \in Tasks, d \in Private, e \in Ptes :
                 y = <<p, d * PTES + e>> /\ own[f] = AsPage(p, d, e)
  <2>1. ASSUME NEW p \in Tasks, NEW d \in Private, NEW e \in Ptes
        PROVE  own[f] = AsPage(p, d, e) <=>
                 p \in Spaces /\ pg_mapped(t, t.cr3[p], d * PTES + e) /\ Target(t, t.cr3[p], d * PTES + e) = f
    <3>1. own[f] = AsPage(p, d, e) <=> PageAt(t, p, d, e, f)
      BY <1>0 DEF Owns, OwnPages
    <3>2. PageAt(t, p, d, e, f) => p \in Spaces
      BY <1>0 DEF PageAt
    <3>3. d \in Pdes
      BY <1>0
    <3> QED
      BY <1>0, <1>5, <3>1, <3>2, <3>3
  <2>2. y \in Spaces \X Pages(Private) <=>
          \E p \in Spaces, d \in Private, e \in Ptes : y = <<p, d * PTES + e>>
    BY DEF Pages
  <2>3. Spaces \subseteq Tasks
    BY <1>0
  <2> QED
    BY <2>1, <2>2, <2>3 DEF PagesWith
<1>7. ASSUME NEW y
      PROVE  y \in HeapWith(f) <=>
               \E d \in Pdes, e \in Ptes :
                 HeapEntry(d, e) /\ y = d * PTES + e /\ own[f] = AsHeap(d, e)
  <2>1. ASSUME NEW d \in Pdes \ Private, NEW e \in Ptes
        PROVE  d * PTES + e \notin 0 .. sys_pgs - 1 <=> HeapEntry(d, e)
    <3>1. PTES \in Nat /\ sys_pgs \in 2 .. PTES - 1 /\ e \in 0 .. PTES - 1 /\ d \in Nat
      BY Memory DEF Ptes, Pdes
    <3>2. CASE d = 0
      <4>1. d * PTES + e = e
        BY <3>1, <3>2
      <4> QED
        BY <3>1, <3>2, <4>1 DEF HeapEntry
    <3>3. CASE d # 0
      <4> PICK z \in Nat : d = z + 1
        <5>1. d - 1 \in Nat /\ d = (d - 1) + 1
          BY <3>1, <3>3
        <5> QED
          BY <5>1
      <4>1. d * PTES = z * PTES + PTES /\ z * PTES \in Nat
        BY <3>1
      <4>2. d * PTES + e \notin 0 .. sys_pgs - 1
        BY <3>1, <4>1
      <4> QED
        BY <3>3, <4>2 DEF HeapEntry
    <3> QED
      BY <3>2, <3>3
  <2>2. ASSUME NEW d \in Pdes, NEW e \in Ptes, HeapEntry(d, e)
        PROVE  own[f] = AsHeap(d, e) <=>
                 /\ pg_mapped(t, t.cr3[IDLE_PID], d * PTES + e)
                 /\ Target(t, t.cr3[IDLE_PID], d * PTES + e) = f
    <3>1. own[f] = AsHeap(d, e) <=> PageAt(t, IDLE_PID, d, e, f)
      BY <1>0, <2>2 DEF Owns, OwnHeap
    <3> QED
      BY <1>0, <1>5, <3>1
  <2>3. \A d, e : HeapEntry(d, e) => d \in Pdes \ Private /\ e \in Ptes
    BY DEF HeapEntry
  <2>4. y \in Pages(Pdes \ Private) \ 0 .. sys_pgs - 1 <=>
          \E d \in Pdes, e \in Ptes : HeapEntry(d, e) /\ y = d * PTES + e
    BY <2>1, <2>3 DEF Pages
  <2> QED
    BY <2>2, <2>4 DEF HeapWith
<1> QED
  BY <1>1, <1>2, <1>3, <1>4, <1>6, <1>7

\* The uses that OneUse counts are the one use in the invariant.
LEMMA OneUseEach ==
  ASSUME NEW F, NEW own, SoundIn(mm, F, own), NEW f \in Frames
  PROVE  Cardinality(Uses(f)) = 1
<1> DEFINE D == DirsWith(f)
           T == TablesWith(f)
           P == PagesWith(f)
           H == HeapWith(f)
<1>1. /\ f \in Listed(mm, mm.free) <=> own[f] = AsFree
      /\ f < sys_pgs <=> own[f] = AsSystem
      /\ D = {q \in Tasks : own[f] = AsDir(q)}
      /\ \A y : y \in T <=> \E p \in Tasks, d \in Pdes : y = <<p, d>> /\ own[f] = AsTable(p, d)
      /\ \A y : y \in P <=> \E p \in Tasks, d \in Private, e \in Ptes :
                              y = <<p, d * PTES + e>> /\ own[f] = AsPage(p, d, e)
      /\ \A y : y \in H <=> \E d \in Pdes, e \in Ptes :
                              HeapEntry(d, e) /\ y = d * PTES + e /\ own[f] = AsHeap(d, e)
  BY UsesOwn
<1>2. Uses(f) = (IF own[f] = AsSystem THEN {<<"system">>} ELSE {})
                \cup (IF own[f] = AsFree THEN {<<"free">>} ELSE {})
                \cup {<<"dir", p>> : p \in D} \cup {<<"table", x>> : x \in T}
                \cup {<<"page", x>> : x \in P} \cup {<<"heap", x>> : x \in H}
  BY <1>1 DEF Uses, DirsWith, TablesWith, PagesWith, HeapWith
<1> HIDE DEF D, T, P, H
<1> PICK U : U = Uses(f)
  OBVIOUS
<1>3. IsRole(own[f]) /\ own[f] # AsTaken
  BY DEF SoundIn, Books, Owns, OwnRoles, Settled
<1>4. (\A p \in Tasks : own[f] # AsDir(p)) => D = {}
  BY <1>1
<1>5. (\A p \in Tasks, d \in Pdes : own[f] # AsTable(p, d)) => T = {}
  BY <1>1
<1>6. (\A p \in Tasks, d \in Private, e \in Ptes : own[f] # AsPage(p, d, e)) => P = {}
  BY <1>1
<1>7. (\A d \in Pdes, e \in Ptes : own[f] # AsHeap(d, e)) => H = {}
  <2>1. \A y : y \in H => \E d \in Pdes, e \in Ptes : own[f] = AsHeap(d, e)
    BY <1>1
  <2> QED
    BY <2>1
<1>8. \E u : U = {u}
  <2>1. CASE own[f] = AsFree
    <3>0. /\ own[f] # AsSystem
          /\ (\A q \in Tasks : own[f] # AsDir(q))
          /\ (\A q \in Tasks, b \in Pdes : own[f] # AsTable(q, b))
          /\ (\A q \in Tasks, b \in Private, c \in Ptes : own[f] # AsPage(q, b, c))
          /\ (\A b \in Pdes, c \in Ptes : own[f] # AsHeap(b, c))
      BY <2>1, RolesApart
    <3>1. own[f] # AsSystem /\ D = {} /\ T = {} /\ P = {} /\ H = {}
      BY <3>0, <1>4, <1>5, <1>6, <1>7
    <3>2. U = {<<"free">>}
      BY <1>2, <2>1, <3>1
    <3> QED
      BY <3>2
  <2>2. CASE own[f] = AsSystem
    <3>0. /\ own[f] # AsFree
          /\ (\A q \in Tasks : own[f] # AsDir(q))
          /\ (\A q \in Tasks, b \in Pdes : own[f] # AsTable(q, b))
          /\ (\A q \in Tasks, b \in Private, c \in Ptes : own[f] # AsPage(q, b, c))
          /\ (\A b \in Pdes, c \in Ptes : own[f] # AsHeap(b, c))
      BY <2>2, RolesApart
    <3>1. own[f] # AsFree /\ D = {} /\ T = {} /\ P = {} /\ H = {}
      BY <3>0, <1>4, <1>5, <1>6, <1>7
    <3>2. U = {<<"system">>}
      BY <1>2, <2>2, <3>1
    <3> QED
      BY <3>2
  <2>3. ASSUME NEW p \in Tasks, own[f] = AsDir(p) PROVE \E u : U = {u}
    <3>0. /\ own[f] # AsFree
          /\ own[f] # AsSystem
          /\ (\A q \in Tasks, b \in Pdes : own[f] # AsTable(q, b))
          /\ (\A q \in Tasks, b \in Private, c \in Ptes : own[f] # AsPage(q, b, c))
          /\ (\A b \in Pdes, c \in Ptes : own[f] # AsHeap(b, c))
      BY <2>3, RolesApart
    <3>1. own[f] # AsFree /\ own[f] # AsSystem /\ T = {} /\ P = {} /\ H = {}
      BY <3>0, <1>5, <1>6, <1>7
    <3>2. D = {p}
      BY <1>1, <2>3 DEF AsDir
    <3>3. U = {<<"dir", p>>}
      BY <1>2, <3>1, <3>2
    <3> QED
      BY <3>3
  <2>4. ASSUME NEW p \in Tasks, NEW d \in Pdes, own[f] = AsTable(p, d) PROVE \E u : U = {u}
    <3>0. /\ own[f] # AsFree
          /\ own[f] # AsSystem
          /\ (\A q \in Tasks : own[f] # AsDir(q))
          /\ (\A q \in Tasks, b \in Private, c \in Ptes : own[f] # AsPage(q, b, c))
          /\ (\A b \in Pdes, c \in Ptes : own[f] # AsHeap(b, c))
      BY <2>4, RolesApart
    <3>1. own[f] # AsFree /\ own[f] # AsSystem /\ D = {} /\ P = {} /\ H = {}
      BY <3>0, <1>4, <1>6, <1>7
    <3>2. T = {<<p, d>>}
      <4>1. ASSUME NEW q \in Tasks, NEW b \in Pdes, own[f] = AsTable(q, b) PROVE q = p /\ b = d
        BY <2>4, <4>1 DEF AsTable
      <4>2. \A y : y \in T <=> y = <<p, d>>
        BY <1>1, <2>4, <4>1
      <4> QED
        BY <4>2
    <3>3. U = {<<"table", <<p, d>>>>}
      BY <1>2, <3>1, <3>2
    <3> QED
      BY <3>3
  <2>5. ASSUME NEW p \in Tasks, NEW d \in Private, NEW e \in Ptes, own[f] = AsPage(p, d, e)
        PROVE  \E u : U = {u}
    <3>0. /\ own[f] # AsFree
          /\ own[f] # AsSystem
          /\ (\A q \in Tasks : own[f] # AsDir(q))
          /\ (\A q \in Tasks, b \in Pdes : own[f] # AsTable(q, b))
          /\ (\A b \in Pdes, c \in Ptes : own[f] # AsHeap(b, c))
      BY <2>5, RolesApart
    <3>1. own[f] # AsFree /\ own[f] # AsSystem /\ D = {} /\ T = {} /\ H = {}
      BY <3>0, <1>4, <1>5, <1>7
    <3> PICK x : x = d * PTES + e
      OBVIOUS
    <3>2. P = {<<p, x>>}
      <4>1. ASSUME NEW q \in Tasks, NEW b \in Private, NEW c \in Ptes, own[f] = AsPage(q, b, c)
            PROVE  q = p /\ b = d /\ c = e
        BY <2>5, <4>1 DEF AsPage
      <4>2. \A y : y \in P <=> y = <<p, x>>
        BY <1>1, <2>5, <4>1
      <4> QED
        BY <4>2
    <3>3. U = {<<"page", <<p, x>>>>}
      BY <1>2, <3>1, <3>2
    <3> QED
      BY <3>3
  <2>6. ASSUME NEW d \in Pdes, NEW e \in Ptes, HeapEntry(d, e), own[f] = AsHeap(d, e)
        PROVE  \E u : U = {u}
    <3>0. /\ own[f] # AsFree
          /\ own[f] # AsSystem
          /\ (\A q \in Tasks : own[f] # AsDir(q))
          /\ (\A q \in Tasks, b \in Pdes : own[f] # AsTable(q, b))
          /\ (\A q \in Tasks, b \in Private, c \in Ptes : own[f] # AsPage(q, b, c))
      BY <2>6, RolesApart
    <3>1. own[f] # AsFree /\ own[f] # AsSystem /\ D = {} /\ T = {} /\ P = {}
      BY <3>0, <1>4, <1>5, <1>6
    <3> PICK x : x = d * PTES + e
      OBVIOUS
    <3>2. H = {x}
      <4>1. ASSUME NEW b \in Pdes, NEW c \in Ptes, own[f] = AsHeap(b, c)
            PROVE  b = d /\ c = e
        BY <2>6, <4>1 DEF AsHeap
      <4>2. ASSUME NEW y, y \in H PROVE y = x
        <5> PICK b \in Pdes, c \in Ptes : y = b * PTES + c /\ own[f] = AsHeap(b, c)
          BY <1>1, <4>2
        <5>1. b = d /\ c = e
          BY <4>1
        <5> QED
          BY <5>1
      <4>3. x \in H
        BY <1>1, <2>6
      <4> QED
        BY <4>2, <4>3
    <3>3. U = {<<"heap", x>>}
      BY <1>2, <3>1, <3>2
    <3> QED
      BY <3>3
  <2> QED
    BY <1>3, <2>1, <2>2, <2>3, <2>4, <2>5, <2>6 DEF IsRole
<1> QED
  BY <1>8, FS_Singleton

\* Until a fork or an exec each page has one use: it is free, a page of the system, a directory,
\* a table, a private page of one process or a page of the kernel heap.  No order in which
\* processes are created and destroyed and pages faulted in gives a page two owners, or none.
THEOREM OneUseCorrect == PagingSpec => []OneUse
<1>1. ASSUME PagingInv PROVE OneUse
  <2> SUFFICES ASSUME ~mm.spoiled, NEW f \in Frames PROVE Cardinality(Uses(f)) = 1
    BY DEF OneUse
  <2>1. PICK F, own : SoundIn(mm, F, own)
    BY <1>1 DEF PagingInv, Sound, SoundIn
  <2> QED
    BY <2>1, OneUseEach
<1> QED
  BY <1>1, PagingSafe, PTL
=============================================================================
