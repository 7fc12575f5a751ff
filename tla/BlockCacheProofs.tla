------------------------- MODULE BlockCacheProofs ---------------------------
(***************************************************************************)
(* Proofs about BlockCache, for any number of blocks, devices and values   *)
(* and each setting of ROBUST: the ring stays a ring of all blocks, a      *)
(* block is cached once, only mounted devices have dirty blocks, sync      *)
(* leaves nothing to write, and the cache implements Disk.                 *)
(***************************************************************************)
EXTENDS BlockCache, Loops

-----------------------------------------------------------------------------
(* The ring. *)

\* What the assumption says of the numbers of the slots.
LEMMA SlotsFacts == /\ NumBlocks \in Nat \ {0} /\ NumBlocks - 1 \in Nat
                    /\ 0 \in Slots /\ NumBlocks - 1 \in Slots
                    /\ \A b : b \in Slots <=> b \in Nat /\ b < NumBlocks
BY BlockCacheAssumption DEF Slots

Succ(i) == IF i = NumBlocks - 1 THEN 0 ELSE i + 1

\* o gives the slots in the order of the ring, from l on.
RingBy(o, l, n, p) ==
  /\ o \in [Slots -> Slots] /\ o[0] = l
  /\ \A b \in Slots : \E i \in Slots : o[i] = b
  /\ \A i, j \in Slots : o[i] = o[j] => i = j
  /\ \A i \in Slots : n[o[i]] = o[Succ(i)] /\ p[o[Succ(i)]] = o[i]

IsRing(l, n, p) ==
  n \in [Slots -> Slots] /\ p \in [Slots -> Slots] /\ \E o : RingBy(o, l, n, p)

\* A ring may be told from any of its slots: from the next one ...
LEMMA RingFromNext ==
  ASSUME NEW l, NEW n, NEW p, IsRing(l, n, p)
  PROVE  IsRing(n[l], n, p) /\ p[n[l]] = l /\ l \in Slots /\ n[l] \in Slots
<1> USE SlotsFacts
<1>1. PICK o : RingBy(o, l, n, p)
  BY DEF IsRing
<1> DEFINE q == [i \in Slots |-> o[Succ(i)]]
<1>2. \A i \in Slots : Succ(i) \in Slots
  BY DEF Succ
<1>3. q \in [Slots -> Slots] /\ q[0] = n[l]
  BY <1>1, <1>2 DEF RingBy
<1>4. ASSUME NEW b \in Slots PROVE \E i \in Slots : q[i] = b
  <2>1. PICK i \in Slots : o[i] = b
    BY <1>1 DEF RingBy
  <2>2. CASE i = 0
    <3>1. Succ(NumBlocks - 1) = 0
      BY DEF Succ
    <3> QED
      BY <2>1, <2>2, <3>1
  <2>3. CASE i # 0
    <3>1. i - 1 \in Slots /\ Succ(i - 1) = i
      BY <2>3 DEF Succ
    <3> QED
      BY <2>1, <3>1
  <2> QED
    BY <2>2, <2>3
<1>5. ASSUME NEW i \in Slots, NEW j \in Slots, q[i] = q[j] PROVE i = j
  <2>1. Succ(i) = Succ(j)
    BY <1>1, <1>2, <1>5 DEF RingBy
  <2> QED
    BY <2>1 DEF Succ
<1>6. ASSUME NEW i \in Slots PROVE n[q[i]] = q[Succ(i)] /\ p[q[Succ(i)]] = q[i]
  BY <1>1, <1>2 DEF RingBy
<1>7. RingBy(q, n[l], n, p)
  BY <1>3, <1>4, <1>5, <1>6 DEF RingBy
<1>8. p[n[l]] = l /\ l \in Slots /\ n[l] \in Slots
  BY <1>1, <1>2 DEF RingBy
<1> QED
  BY <1>7, <1>8 DEF IsRing

\* ... or the one before.
LEMMA RingFromPrev ==
  ASSUME NEW l, NEW n, NEW p, IsRing(l, n, p)
  PROVE  IsRing(p[l], n, p) /\ n[p[l]] = l /\ p[l] \in Slots
<1> USE SlotsFacts
<1>1. PICK o : RingBy(o, l, n, p)
  BY DEF IsRing
<1> DEFINE Pred(i) == IF i = 0 THEN NumBlocks - 1 ELSE i - 1
           q == [i \in Slots |-> o[Pred(i)]]
<1>2. \A i \in Slots : /\ Pred(i) \in Slots /\ Succ(i) \in Slots
                       /\ Succ(Pred(i)) = i /\ Pred(Succ(i)) = i
  BY DEF Succ
<1>2a. Succ(NumBlocks - 1) = 0 /\ Pred(0) = NumBlocks - 1
  BY DEF Succ
<1> HIDE DEF Pred
<1>3. q \in [Slots -> Slots] /\ q[0] = p[l]
  BY <1>1, <1>2, <1>2a DEF RingBy
<1>4. ASSUME NEW b \in Slots PROVE \E i \in Slots : q[i] = b
  <2>1. PICK i \in Slots : o[i] = b
    BY <1>1 DEF RingBy
  <2>2. Succ(i) \in Slots /\ q[Succ(i)] = b
    BY <1>2, <2>1
  <2> QED
    BY <2>2
<1>5. ASSUME NEW i \in Slots, NEW j \in Slots, q[i] = q[j] PROVE i = j
  <2>1. Pred(i) = Pred(j)
    BY <1>1, <1>2, <1>5 DEF RingBy
  <2> QED
    BY <1>2, <2>1
<1>6. ASSUME NEW i \in Slots PROVE n[q[i]] = q[Succ(i)] /\ p[q[Succ(i)]] = q[i]
  <2>1. q[i] = o[Pred(i)] /\ q[Succ(i)] = o[i]
    BY <1>2
  <2>2. n[o[Pred(i)]] = o[Succ(Pred(i))] /\ p[o[Succ(Pred(i))]] = o[Pred(i)]
    BY <1>1, <1>2 DEF RingBy
  <2> QED
    BY <1>2, <2>1, <2>2
<1>7. RingBy(q, p[l], n, p)
  BY <1>3, <1>4, <1>5, <1>6 DEF RingBy
<1>8. n[p[l]] = l /\ p[l] \in Slots
  <2>1. l = o[0] /\ p[o[Succ(NumBlocks - 1)]] = o[NumBlocks - 1]
        /\ n[o[NumBlocks - 1]] = o[Succ(NumBlocks - 1)] /\ o[NumBlocks - 1] \in Slots
    BY <1>1 DEF RingBy
  <2> QED
    BY <1>2a, <2>1
<1> QED
  BY <1>7, <1>8 DEF IsRing

\* The links when b is unlinked and linked in again before l.
Moved(n, p, l, b, n2, p2) ==
  LET n1 == [n EXCEPT ![p[b]] = n[b]]
      p1 == [p EXCEPT ![n[b]] = p[b]]
  IN /\ n2 = [n1 EXCEPT ![b] = l, ![p1[l]] = b]
     /\ p2 = [p1 EXCEPT ![b] = p1[l], ![l] = b]

\* A slot that is unlinked and linked in before l leaves a ring of all slots.
LEMMA RingMove ==
  ASSUME NEW l, NEW n, NEW p, IsRing(l, n, p), NEW b \in Slots, b # l,
         NEW n2, NEW p2, Moved(n, p, l, b, n2, p2)
  PROVE  IsRing(l, n2, p2) /\ p2[l] = b
<1> USE SlotsFacts
<1> DEFINE n1 == [n EXCEPT ![p[b]] = n[b]]
           p1 == [p EXCEPT ![n[b]] = p[b]]
<1>0. /\ n2 = [n1 EXCEPT ![b] = l, ![p1[l]] = b]
      /\ p2 = [p1 EXCEPT ![b] = p1[l], ![l] = b]
  BY DEF Moved
<1>1. PICK o : RingBy(o, l, n, p)
  BY DEF IsRing
<1>2. PICK k \in Slots : o[k] = b
  BY <1>1 DEF RingBy
<1> DEFINE N == NumBlocks
           last == IF k = N - 1 THEN o[k - 1] ELSE o[N - 1]
           q == [i \in Slots |-> IF i < k THEN o[i] ELSE IF i = N - 1 THEN b ELSE o[i + 1]]
<1>3. k \in 1 .. N - 1 /\ k - 1 \in Slots /\ N >= 2 /\ Succ(k) \in Slots /\ Succ(k - 1) = k
  <2>1. k # 0
    BY <1>1, <1>2 DEF RingBy
  <2> QED
    BY <2>1 DEF Succ
<1>4. p[b] = o[k - 1] /\ n[b] = o[Succ(k)] /\ o[k - 1] \in Slots /\ o[Succ(k)] \in Slots /\ l \in Slots
  BY <1>1, <1>2, <1>3 DEF RingBy
<1>5. p1[l] = last /\ last \in Slots /\ last # b
  <2>1. CASE k = N - 1
    <3>1. Succ(k) = 0 /\ o[Succ(k)] = l
      BY <1>1, <2>1 DEF Succ, RingBy
    <3>2. p1[l] = o[k - 1]
      BY <1>4, <3>1 DEF IsRing
    <3> QED
      BY <1>1, <1>2, <1>3, <2>1, <3>2 DEF RingBy
  <2>2. CASE k # N - 1
    <3>1. Succ(k) = k + 1 /\ k + 1 \in Slots /\ o[k + 1] # l
      BY <1>1, <1>3, <2>2 DEF Succ, RingBy
    <3>2. p[l] = o[N - 1]
      BY <1>1 DEF RingBy, Succ
    <3>3. p1[l] = o[N - 1]
      BY <1>4, <3>1, <3>2 DEF IsRing
    <3> QED
      BY <1>1, <1>2, <1>3, <2>2, <3>3 DEF RingBy
  <2> QED
    BY <2>1, <2>2
<1>6. n2 \in [Slots -> Slots] /\ p2 \in [Slots -> Slots]
  BY <1>0, <1>4, <1>5 DEF IsRing
<1>7. \A x \in Slots : n2[x] = IF x = last THEN b ELSE IF x = b THEN l
                              ELSE IF x = o[k - 1] THEN o[Succ(k)] ELSE n[x]
  BY <1>0, <1>4, <1>5 DEF IsRing
<1>8. \A x \in Slots : p2[x] = IF x = l THEN b ELSE IF x = b THEN last
                              ELSE IF x = o[Succ(k)] THEN o[k - 1] ELSE p[x]
  BY <1>0, <1>4, <1>5 DEF IsRing
<1>9. q \in [Slots -> Slots] /\ q[0] = l
  <2>1. \A i \in Slots : o[i] \in Slots
    BY <1>1 DEF RingBy
  <2>2. \A i \in Slots : ~(i < k) /\ i # N - 1 => i + 1 \in Slots
    OBVIOUS
  <2>3. q \in [Slots -> Slots]
    BY <2>1, <2>2
  <2> QED
    BY <1>1, <1>3, <2>3 DEF RingBy
<1>10. ASSUME NEW c \in Slots PROVE \E i \in Slots : q[i] = c
  <2>1. PICK i \in Slots : o[i] = c
    BY <1>1 DEF RingBy
  <2>2. CASE i < k
    BY <2>1, <2>2
  <2>3. CASE i = k
    BY <1>2, <1>3, <2>1, <2>3
  <2>4. CASE i > k
    <3>1. i - 1 \in Slots /\ ~(i - 1 < k) /\ i - 1 # N - 1 /\ (i - 1) + 1 = i
      BY <1>3, <2>4
    <3> QED
      BY <2>1, <3>1
  <2> QED
    BY <1>3, <2>2, <2>3, <2>4
<1> DEFINE At(i) == IF i < k THEN i ELSE IF i = N - 1 THEN k ELSE i + 1
<1>11. \A i \in Slots : At(i) \in Slots /\ q[i] = o[At(i)]
  BY <1>2, <1>3
<1>12. ASSUME NEW i \in Slots, NEW j \in Slots, q[i] = q[j] PROVE i = j
  <2>1. At(i) = At(j)
    BY <1>1, <1>11, <1>12 DEF RingBy
  <2> QED
    BY <1>3, <2>1
<1>13. ASSUME NEW i \in Slots PROVE n2[q[i]] = q[Succ(i)] /\ p2[q[Succ(i)]] = q[i]
  <2> HIDE DEF last
  <2>0. /\ \A x, y \in Slots : o[x] = o[y] => x = y
        /\ \A x \in Slots : o[x] \in Slots /\ n[o[x]] = o[Succ(x)] /\ p[o[Succ(x)]] = o[x]
        /\ o[0] = l /\ o[k] = b
    BY <1>1, <1>2 DEF RingBy
  <2>1. CASE i = N - 1
    <3>1. q[i] = b /\ Succ(i) = 0 /\ q[0] = l
      BY <1>3, <1>9, <2>1 DEF Succ
    <3> QED
      BY <1>4, <1>5, <1>7, <1>8, <3>1
  <2>2. CASE i = N - 2
    <3>1. Succ(i) = N - 1 /\ q[N - 1] = b
      BY <1>3, <2>2 DEF Succ
    <3>2. q[i] = last
      BY <1>3, <2>2 DEF last
    <3> QED
      BY <1>4, <1>5, <1>7, <1>8, <3>1, <3>2
  <2>3. CASE i < N - 2 /\ i < k - 1
    <3>1. q[i] = o[i] /\ Succ(i) = i + 1 /\ q[i + 1] = o[i + 1] /\ i + 1 \in Slots
      BY <1>3, <2>3 DEF Succ
    <3>2. i # k - 1 /\ i # k /\ i # N - 1 /\ i + 1 # k /\ i + 1 # 0 /\ i + 1 # Succ(k) /\ o[i] # last
      BY <1>3, <2>0, <2>3 DEF Succ, last
    <3>3. o[i] # b /\ o[i] # o[k - 1] /\ o[i + 1] # l /\ o[i + 1] # b /\ o[i + 1] # o[Succ(k)]
      BY <1>3, <2>0, <3>1, <3>2
    <3>4. n2[o[i]] = n[o[i]]
      BY <1>7, <2>0, <3>2, <3>3
    <3>5. p2[o[i + 1]] = p[o[i + 1]]
      BY <1>8, <2>0, <3>1, <3>3
    <3> QED
      BY <2>0, <3>1, <3>4, <3>5
  <2>4. CASE i < N - 2 /\ i = k - 1
    <3>1. q[i] = o[i] /\ Succ(i) = i + 1 /\ q[i + 1] = o[k + 1] /\ k + 1 \in Slots /\ Succ(k) = k + 1
      BY <1>3, <2>4 DEF Succ
    <3>2. o[i] # last /\ i # k /\ k + 1 # 0 /\ k + 1 # k
      BY <1>3, <2>0, <2>4 DEF last
    <3>3. o[i] = o[k - 1] /\ o[i] # b /\ o[k + 1] # l /\ o[k + 1] # b /\ o[k + 1] = o[Succ(k)]
      BY <1>3, <2>0, <2>4, <3>1, <3>2
    <3>4. n2[o[i]] = o[Succ(k)] /\ p2[o[k + 1]] = o[k - 1]
      BY <1>7, <1>8, <2>0, <3>1, <3>2, <3>3
    <3> QED
      BY <3>1, <3>3, <3>4
  <2>5. CASE i < N - 2 /\ i > k - 1
    <3>1. q[i] = o[i + 1] /\ Succ(i) = i + 1 /\ q[i + 1] = o[i + 2] /\ i + 1 \in Slots /\ i + 2 \in Slots
          /\ Succ(i + 1) = i + 2
      BY <1>3, <2>5 DEF Succ
    <3>2. o[i + 1] # last /\ i + 1 # k /\ i + 1 # k - 1 /\ i + 2 # 0 /\ i + 2 # k /\ i + 2 # Succ(k)
      BY <1>3, <2>0, <2>5 DEF last, Succ
    <3>3. /\ o[i + 1] # b /\ o[i + 1] # o[k - 1]
          /\ o[i + 2] # l /\ o[i + 2] # b /\ o[i + 2] # o[Succ(k)]
      BY <1>3, <2>0, <3>1, <3>2
    <3>4. n2[o[i + 1]] = n[o[i + 1]] /\ p2[o[i + 2]] = p[o[i + 2]]
      BY <1>7, <1>8, <2>0, <3>1, <3>2, <3>3
    <3> QED
      BY <2>0, <3>1, <3>4
  <2> QED
    BY <1>3, <2>1, <2>2, <2>3, <2>4, <2>5
<1>14. RingBy(q, l, n2, p2)
  BY <1>9, <1>10, <1>12, <1>13 DEF RingBy
<1>15. p2[l] = b
  BY <1>4, <1>8
<1> QED
  BY <1>6, <1>14, <1>15 DEF IsRing

-----------------------------------------------------------------------------
(* Caches. *)

Blocks == [dev : Devs \cup {NO_DEV}, blk : Blks \cup {0}, count : Int, dirty : BOOLEAN,
           data : Values]
Caches == [block : [Slots -> Blocks], prev : [Slots -> Slots], next : [Slots -> Slots],
           lru : Slots, super : [Devs -> {"unmounted", "dirty", "clean"}],
           disk : [Addrs -> Values]]

\* The slot b has the block at a.
Has(c, b, a) == c.block[b].dev = a[1] /\ c.block[b].blk = a[2]

\* One slot: it is free and clean, or has a block of a device; a dirty one is of a mounted
\* device, and one that is not dirty is as on the device.
SlotOk(c, s) ==
  /\ s.dev \in Devs => s.blk \in Blks
  /\ s.count # 0 => s.dev \in Devs
  /\ s.dirty => s.dev \in Devs /\ c.super[s.dev] # "unmounted"
  /\ s.dev \in Devs /\ ~s.dirty => s.data = c.disk[<<s.dev, s.blk>>]

BlockOk(c, b) == SlotOk(c, c.block[b])

\* No two slots have the same block.
Distinct(c) ==
  \A x, y \in Slots :
    (/\ c.block[x].dev \in Devs
     /\ c.block[x].dev = c.block[y].dev /\ c.block[x].blk = c.block[y].blk) => x = y

\* What holds of the cache between two calls of its functions.
Good(c) == /\ c \in Caches
           /\ IsRing(c.lru, c.next, c.prev)
           /\ Distinct(c)
           /\ \A b \in Slots : BlockOk(c, b)

\* What the blocks hold, as Disk sees them.
View(c) == [a \in Addrs |->
  IF Holding(c, a) = {} THEN c.disk[a]
  ELSE c.block[CHOOSE b \in Holding(c, a) : TRUE].data]

\* f is that: what the slot says, if there is one, or else what the device says.
Shows(c, f) ==
  /\ f \in [Addrs -> Values]
  /\ \A a \in Addrs : /\ \A b \in Slots : Has(c, b, a) => f[a] = c.block[b].data
                      /\ (\A b \in Slots : ~Has(c, b, a)) => f[a] = c.disk[a]

\* Holding is the set of the slots that have the block.
LEMMA HoldingHas ==
  ASSUME NEW c, NEW a \in Addrs
  PROVE  Holding(c, a) = {b \in Slots : Has(c, b, a)}
BY DEF Holding, Has, Addrs

\* View is what the slots and the devices say ...
LEMMA ViewShows ==
  ASSUME NEW c, Good(c)
  PROVE  Shows(c, View(c))
<1>1. ASSUME NEW a \in Addrs, NEW b \in Slots, Has(c, b, a)
      PROVE  View(c)[a] = c.block[b].data
  <2>1. b \in Holding(c, a)
    BY <1>1, HoldingHas
  <2> DEFINE x == CHOOSE y \in Holding(c, a) : TRUE
  <2>2. x \in Holding(c, a)
    BY <2>1
  <2>3. x \in Slots /\ Has(c, x, a)
    BY <2>2, HoldingHas
  <2>4. a[1] \in Devs
    BY DEF Addrs
  <2>5. x = b
    BY <1>1, <2>3, <2>4 DEF Good, Distinct, Has
  <2>6. View(c)[a] = c.block[x].data
    BY <2>1 DEF View
  <2> QED
    BY <2>5, <2>6
<1>2. ASSUME NEW a \in Addrs, \A b \in Slots : ~Has(c, b, a)
      PROVE  View(c)[a] = c.disk[a]
  <2>1. Holding(c, a) = {}
    BY <1>2, HoldingHas
  <2> QED
    BY <2>1 DEF View
<1>3. \A a \in Addrs : View(c)[a] \in Values
  BY <1>1, <1>2 DEF Good, Caches, Blocks
<1>4. View(c) \in [Addrs -> Values]
  BY <1>3 DEF View
<1> QED
  BY <1>1, <1>2, <1>4 DEF Shows

\* ... and nothing else is.
LEMMA ShowsIsView ==
  ASSUME NEW c, Good(c), NEW f, Shows(c, f)
  PROVE  View(c) = f
<1>1. Shows(c, View(c))
  BY ViewShows
<1>2. ASSUME NEW a \in Addrs PROVE View(c)[a] = f[a]
  <2>1. CASE \E b \in Slots : Has(c, b, a)
    BY <1>1, <2>1 DEF Shows
  <2>2. CASE \A b \in Slots : ~Has(c, b, a)
    BY <1>1, <2>2 DEF Shows
  <2> QED
    BY <2>1, <2>2
<1>3. View(c) \in [Addrs -> Values] /\ f \in [Addrs -> Values]
  BY <1>1 DEF Shows
<1> QED
  BY <1>2, <1>3

-----------------------------------------------------------------------------
(* recently_used() *)

\* recently_used() keeps the ring, and changes nothing but the links.
LEMMA RecentlyUsed ==
  ASSUME NEW c \in Caches, IsRing(c.lru, c.next, c.prev), NEW b \in Slots, NEW most \in BOOLEAN,
         NEW r, r = recently_used(c, b, most)
  PROVE  /\ r \in Caches /\ IsRing(r.lru, r.next, r.prev)
         /\ r.block = c.block /\ r.super = c.super /\ r.disk = c.disk
<1> DEFINE l  == IF b = c.lru THEN c.next[b] ELSE c.lru
           n1 == [c.next EXCEPT ![c.prev[b]] = c.next[b]]
           p1 == [c.prev EXCEPT ![c.next[b]] = c.prev[b]]
           n2 == [n1 EXCEPT ![b] = l, ![p1[l]] = b]
           p2 == [p1 EXCEPT ![b] = p1[l], ![l] = b]
           m  == IF most THEN l ELSE b
<1>1. r = [c EXCEPT !.prev = p2, !.next = n2, !.lru = m]
  BY DEF recently_used
<1>2. c.next \in [Slots -> Slots] /\ c.prev \in [Slots -> Slots] /\ c.lru \in Slots
  BY DEF Caches
<1>3. IsRing(l, c.next, c.prev)
  BY RingFromNext
<1>4. IsRing(m, n2, p2)
  <2>1. CASE b # l
    <3>1. IsRing(l, n2, p2) /\ p2[l] = b
      <4>1. Moved(c.next, c.prev, l, b, n2, p2)
        BY DEF Moved
      <4> HIDE DEF l, n1, p1, n2, p2
      <4> QED
        BY <1>3, <2>1, <4>1, RingMove
    <3>2. IsRing(p2[l], n2, p2)
      BY <3>1, RingFromPrev
    <3> QED
      BY <3>1, <3>2
  <2>2. CASE b = l
    <3>1. b = c.lru /\ c.next[b] = b
      BY <2>2
    <3>2. c.prev[b] = b
      BY <3>1, RingFromNext
    <3>3. n1 = c.next /\ p1 = c.prev
      BY <1>2, <3>1, <3>2
    <3>4. n2 = c.next /\ p2 = c.prev
      BY <1>2, <2>2, <3>1, <3>2, <3>3
    <3> QED
      BY <1>3, <2>2, <3>4
  <2> QED
    BY <2>1, <2>2
<1>5. m \in Slots /\ n2 \in [Slots -> Slots] /\ p2 \in [Slots -> Slots]
  BY <1>2, <1>4 DEF IsRing
<1> HIDE DEF l, n1, p1, n2, p2, m
<1> QED
  BY <1>1, <1>4, <1>5 DEF Caches
-----------------------------------------------------------------------------
(* The search of block_get() *)

\* Order, the walk along next from lru, goes round the ring.
LEMMA OrderIsRing ==
  ASSUME NEW c, IsRing(c.lru, c.next, c.prev)
  PROVE  RingBy(Order(c), c.lru, c.next, c.prev)
<1> USE SlotsFacts
<1> DEFINE w[i \in Slots] == IF i = 0 THEN c.lru ELSE c.next[w[i - 1]]
<1>1. Order(c) = w
  BY DEF Order
<1>2. PICK o : RingBy(o, c.lru, c.next, c.prev)
  BY DEF IsRing
<1>3. \A i \in Slots : i # 0 => i - 1 \in Slots /\ Succ(i - 1) = i
  BY DEF Succ
<1>4. o = [i \in Slots |-> IF i = 0 THEN c.lru ELSE c.next[o[i - 1]]]
  <2>1. \A i \in Slots : o[i] = IF i = 0 THEN c.lru ELSE c.next[o[i - 1]]
    BY <1>2, <1>3 DEF RingBy
  <2> QED
    BY <1>2, <2>1 DEF RingBy
<1>5. w = [i \in Slots |-> IF i = 0 THEN c.lru ELSE c.next[w[i - 1]]]
  BY <1>4 DEF w
<1> HIDE DEF w
<1> DEFINE A == {i \in Slots : w[i] = o[i]}
<1>6. 0 \in A
  BY <1>4, <1>5
<1>7. \A i \in 0 .. (NumBlocks - 1) - 1 : i \in A => i + 1 \in A
  <2> SUFFICES ASSUME NEW i \in 0 .. (NumBlocks - 1) - 1, i \in A PROVE i + 1 \in A
    OBVIOUS
  <2>1. i + 1 \in Slots /\ i + 1 # 0 /\ (i + 1) - 1 = i /\ i \in Slots
    OBVIOUS
  <2>2. w[i + 1] = c.next[w[i]] /\ o[i + 1] = c.next[o[i]]
    BY <1>4, <1>5, <2>1
  <2> QED
    BY <2>1, <2>2
<1> HIDE DEF A
<1>8. \A i \in 0 .. NumBlocks - 1 : i \in A
  BY <1>6, <1>7, UpTo
<1>9. \A i \in Slots : w[i] = o[i]
  BY <1>8 DEF A, Slots
<1>10. w = o
  BY <1>5, <1>9, <1>2 DEF RingBy
<1> QED
  BY <1>1, <1>2, <1>10

\* block_get() finds the block if it is there, and else a free slot if there is one.
LEMMA SlotFound ==
  ASSUME NEW c, IsRing(c.lru, c.next, c.prev), NEW a
  PROVE  /\ Holding(c, a) # {} => Slot(c, a) \in Holding(c, a)
         /\ Holding(c, a) = {} /\ Free(c) # {} => Slot(c, a) \in Free(c)
<1> USE SlotsFacts
<1> DEFINE o == Order(c)
           At(S) == {i \in Slots : o[i] \in S}
<1>1. RingBy(o, c.lru, c.next, c.prev)
  BY OrderIsRing
<1> HIDE DEF o
<1>2. ASSUME NEW S, S \subseteq Slots, S # {}
      PROVE  At(S) # {} /\ At(S) \subseteq 0 .. NumBlocks - 1
  <2>1. PICK b \in S : TRUE
    BY <1>2
  <2>2. PICK i \in Slots : o[i] = b
    BY <1>1, <1>2 DEF RingBy
  <2> QED
    BY <2>1, <2>2 DEF Slots
<1>3. ASSUME Holding(c, a) # {}
      PROVE  Slot(c, a) \in Holding(c, a)
  <2> DEFINE S == Holding(c, a)
             P(i) == \A j \in At(S) : j <= i
  <2>1. S \subseteq Slots
    BY DEF Holding
  <2>2. \E i \in At(S) : P(i)
    <3> HIDE DEF S
    <3>1. S # {}
      BY <1>3 DEF S
    <3>2. At(S) # {} /\ At(S) \subseteq 0 .. NumBlocks - 1
      BY <1>2, <2>1, <3>1
    <3> HIDE DEF At
    <3> QED
      BY <3>2, Greatest
  <2>3. (CHOOSE i \in At(S) : P(i)) \in At(S)
    BY <2>2
  <2>4. Slot(c, a) = o[CHOOSE i \in At(S) : P(i)]
    BY <1>3 DEF Slot, o
  <2> HIDE DEF P
  <2> QED
    BY <2>3, <2>4
<1>4. ASSUME Holding(c, a) = {}, Free(c) # {}
      PROVE  Slot(c, a) \in Free(c)
  <2> DEFINE S == Free(c)
             P(i) == \A j \in At(S) : i <= j
  <2>1. S \subseteq Slots
    BY DEF Free
  <2>2. \E i \in At(S) : P(i)
    <3> HIDE DEF S
    <3>1. S # {}
      BY <1>4 DEF S
    <3>2. At(S) # {} /\ At(S) \subseteq 0 .. NumBlocks - 1
      BY <1>2, <2>1, <3>1
    <3>3. At(S) \subseteq Nat
      BY <3>2
    <3> HIDE DEF At
    <3> QED
      BY <3>2, <3>3, Least
  <2>3. (CHOOSE i \in At(S) : P(i)) \in At(S)
    BY <2>2
  <2>4. Slot(c, a) = o[CHOOSE i \in At(S) : P(i)]
    BY <1>4 DEF Slot, o
  <2> HIDE DEF P
  <2> QED
    BY <2>3, <2>4
<1> QED
  BY <1>3, <1>4
-----------------------------------------------------------------------------
(* Writing blocks *)

\* What writing blocks may change of a cache, and nothing of what its blocks hold.
Cleaned(c, e) ==
  /\ Good(e) /\ View(e) = View(c)
  /\ \A b \in Slots : /\ e.block[b].dev = c.block[b].dev /\ e.block[b].blk = c.block[b].blk
                      /\ e.block[b].count = c.block[b].count
                      /\ e.block[b].dirty => c.block[b].dirty
  /\ \A d \in Devs : e.super[d] = "unmounted" <=> c.super[d] = "unmounted"

\* What two writes leave alone, both together leave alone.
LEMMA CleanedTwice ==
  ASSUME NEW c, NEW e, NEW f, Cleaned(c, e), Cleaned(e, f)
  PROVE  Cleaned(c, f)
BY DEF Cleaned

\* block_rw(WRITE) of a dirty block, field by field.
Wrote(c, b, e) ==
  /\ e \in Caches /\ e.prev = c.prev /\ e.next = c.next /\ e.lru = c.lru
  /\ \A x \in Slots : x # b => e.block[x] = c.block[x]
  /\ e.block[b] = [c.block[b] EXCEPT !.dirty = FALSE]
  /\ <<c.block[b].dev, c.block[b].blk>> \in Addrs
  /\ \A a \in Addrs : e.disk[a] = IF Has(c, b, a) THEN c.block[b].data ELSE c.disk[a]
  /\ \A d \in Devs : e.super[d] = IF d = c.block[b].dev /\ c.super[d] # "unmounted"
                                   THEN "dirty" ELSE c.super[d]

\* block_rw(WRITE) does that.
LEMMA WriteFields ==
  ASSUME NEW c, Good(c), NEW b \in Slots, c.block[b].dirty
  PROVE  Wrote(c, b, block_rw(c, b, FALSE))
<1> DEFINE e  == block_rw(c, b, FALSE)
           s  == c.block[b]
           at == <<s.dev, s.blk>>
           k  == [c.disk EXCEPT ![at] = s.data]
           u  == [d \in Devs |-> IF d = s.dev /\ c.super[d] # "unmounted" THEN "dirty" ELSE c.super[d]]
           t  == [c.block EXCEPT ![b] = [s EXCEPT !.dirty = FALSE]]
<1>1. /\ c \in Caches /\ c.block \in [Slots -> Blocks] /\ s \in Blocks
      /\ c.disk \in [Addrs -> Values] /\ c.super \in [Devs -> {"unmounted", "dirty", "clean"}]
  BY DEF Good, Caches
<1>2. e = [c EXCEPT !.block = t, !.disk = k, !.super = u]
  <2> DEFINE t1 == [c.block EXCEPT ![b] = [@ EXCEPT !.dirty = FALSE]]
             t2 == [t1 EXCEPT ![b] = [@ EXCEPT !.data = s.data]]
  <2>1. t1 = t
    BY <1>1
  <2>2. t[b] = [t[b] EXCEPT !.data = s.data]
    BY <1>1 DEF Blocks
  <2>3. t2 = t
    BY <1>1, <2>1, <2>2
  <2>4. e = [c EXCEPT !.block = t2, !.disk = k, !.super = u]
    BY <1>1 DEF block_rw, Caches
  <2> QED
    BY <2>3, <2>4
<1>3. s.dev \in Devs /\ s.blk \in Blks
  BY DEF Good, BlockOk, SlotOk
<1>4. at \in Addrs
  BY <1>3 DEF Addrs
<1>5. t \in [Slots -> Blocks] /\ k \in [Addrs -> Values] /\ u \in [Devs -> {"unmounted", "dirty", "clean"}]
  BY <1>1 DEF Blocks
<1>6. \A a \in Addrs : (a = at) <=> Has(c, b, a)
  BY DEF Has, Addrs
<1> HIDE DEF t, k, u
<1>7. /\ e \in Caches /\ e.prev = c.prev /\ e.next = c.next /\ e.lru = c.lru
      /\ e.block = t /\ e.disk = k /\ e.super = u
  BY <1>1, <1>2, <1>5 DEF Caches
<1>8. \A x \in Slots : t[x] = IF x = b THEN [s EXCEPT !.dirty = FALSE] ELSE c.block[x]
  BY <1>1 DEF t
<1>9. \A a \in Addrs : k[a] = IF Has(c, b, a) THEN s.data ELSE c.disk[a]
  BY <1>1, <1>6 DEF k
<1>10. \A d \in Devs : u[d] = IF d = s.dev /\ c.super[d] # "unmounted" THEN "dirty" ELSE c.super[d]
  BY DEF u
<1> HIDE DEF e
<1>11. Wrote(c, b, e)
  BY <1>4, <1>7, <1>8, <1>9, <1>10 DEF Wrote
<1> QED
  BY <1>11 DEF e

\* Nothing of what the blocks hold changes, and the block is clean.
LEMMA WriteKeeps ==
  ASSUME NEW c, Good(c), NEW b \in Slots
  PROVE  Cleaned(c, block_rw(c, b, FALSE)) /\ ~block_rw(c, b, FALSE).block[b].dirty
<1> DEFINE e == block_rw(c, b, FALSE)
<1>0. /\ ~c.block[b].dirty => e = c
      /\ c.block[b].dirty => Wrote(c, b, e)
  <2>1. ~c.block[b].dirty => e = c
    BY DEF block_rw
  <2> QED
    BY <2>1, WriteFields
<1> SUFFICES Cleaned(c, e) /\ ~e.block[b].dirty
  OBVIOUS
<1> HIDE DEF e
<1>1. CASE ~c.block[b].dirty
  <2>1. e = c
    BY <1>0, <1>1
  <2> QED
    BY <1>1, <2>1 DEF Cleaned
<1>2. CASE c.block[b].dirty
  <2>0. Wrote(c, b, e)
    BY <1>0, <1>2
  <2>1. /\ e \in Caches /\ e.prev = c.prev /\ e.next = c.next /\ e.lru = c.lru
        /\ \A x \in Slots : x # b => e.block[x] = c.block[x]
        /\ e.block[b] = [c.block[b] EXCEPT !.dirty = FALSE]
        /\ \A a \in Addrs : e.disk[a] = IF Has(c, b, a) THEN c.block[b].data ELSE c.disk[a]
        /\ \A d \in Devs : e.super[d] = IF d = c.block[b].dev /\ c.super[d] # "unmounted"
                                        THEN "dirty" ELSE c.super[d]
    BY <2>0 DEF Wrote
  <2>2. c.block[b] \in Blocks
    BY DEF Good, Caches
  <2>3. \A x \in Slots : /\ e.block[x].dev = c.block[x].dev /\ e.block[x].blk = c.block[x].blk
                         /\ e.block[x].count = c.block[x].count /\ e.block[x].data = c.block[x].data
                         /\ e.block[x].dirty => c.block[x].dirty
    <3> SUFFICES ASSUME NEW x \in Slots
                 PROVE  /\ e.block[x].dev = c.block[x].dev /\ e.block[x].blk = c.block[x].blk
                        /\ e.block[x].count = c.block[x].count /\ e.block[x].data = c.block[x].data
                        /\ e.block[x].dirty => c.block[x].dirty
      OBVIOUS
    <3>1. CASE x = b
      BY <2>1, <2>2, <3>1 DEF Blocks
    <3>2. CASE x # b
      BY <2>1, <3>2
    <3> QED
      BY <3>1, <3>2
  <2>4. ~e.block[b].dirty
    BY <2>1, <2>2 DEF Blocks
  <2>5. \A d \in Devs : e.super[d] = "unmounted" <=> c.super[d] = "unmounted"
    BY <2>1
  <2>6. IsRing(e.lru, e.next, e.prev)
    BY <2>1 DEF Good
  <2>7. Distinct(e)
    <3>1. Distinct(c)
      BY DEF Good
    <3> SUFFICES ASSUME NEW x \in Slots, NEW y \in Slots, e.block[x].dev \in Devs,
                        e.block[x].dev = e.block[y].dev, e.block[x].blk = e.block[y].blk
                 PROVE  x = y
      BY DEF Distinct
    <3>2. /\ c.block[x].dev \in Devs /\ c.block[x].dev = c.block[y].dev
          /\ c.block[x].blk = c.block[y].blk
      BY <2>3
    <3> QED
      BY <3>1, <3>2 DEF Distinct
  <2>8. ASSUME NEW x \in Slots PROVE BlockOk(e, x)
    <3>1. BlockOk(c, x)
      BY DEF Good
    <3>2. CASE c.block[x].dev \notin Devs
      BY <2>3, <3>1, <3>2 DEF BlockOk, SlotOk
    <3>3. CASE c.block[x].dev \in Devs
      <4> DEFINE a == <<c.block[x].dev, c.block[x].blk>>
      <4>1. a \in Addrs /\ a = <<e.block[x].dev, e.block[x].blk>>
        BY <2>3, <3>1, <3>3 DEF BlockOk, SlotOk, Addrs
      <4>2. x = b => Has(c, b, a)
        BY DEF Has
      <4>3. x # b => ~Has(c, b, a)
        <5>1. Distinct(c)
          BY DEF Good
        <5>2. a[1] = c.block[x].dev /\ a[2] = c.block[x].blk
          OBVIOUS
        <5> HIDE DEF a
        <5>3. Has(c, b, a) => c.block[x].dev = c.block[b].dev /\ c.block[x].blk = c.block[b].blk
          BY <5>2 DEF Has
        <5> QED
          BY <3>3, <5>1, <5>3 DEF Distinct
      <4>4. ASSUME ~e.block[x].dirty PROVE e.block[x].data = e.disk[a]
        <5>1. e.disk[a] = IF Has(c, b, a) THEN c.block[b].data ELSE c.disk[a]
          BY <2>1, <4>1
        <5>2. CASE x = b
          BY <2>3, <4>2, <5>1, <5>2
        <5>3. CASE x # b
          <6>1. ~c.block[x].dirty
            BY <2>1, <4>4, <5>3
          <6>2. c.block[x].data = c.disk[a]
            BY <3>1, <3>3, <6>1 DEF BlockOk, SlotOk
          <6> QED
            BY <2>3, <4>3, <5>1, <5>3, <6>2
        <5> QED
          BY <5>2, <5>3
      <4> QED
        BY <2>3, <2>5, <3>1, <3>3, <4>1, <4>4 DEF BlockOk, SlotOk
    <3> QED
      BY <3>2, <3>3
  <2>9. Good(e)
    BY <2>1, <2>6, <2>7, <2>8 DEF Good
  <2>10. \A x \in Slots, a \in Addrs : Has(e, x, a) <=> Has(c, x, a)
    BY <2>3 DEF Has
  <2>11. Shows(e, View(c))
    <3>1. Shows(c, View(c))
      BY ViewShows
    <3>2. ASSUME NEW a \in Addrs, \A x \in Slots : ~Has(e, x, a)
          PROVE  View(c)[a] = e.disk[a]
      <4>1. \A x \in Slots : ~Has(c, x, a)
        BY <2>10, <3>2
      <4>2. View(c)[a] = c.disk[a]
        BY <3>1, <4>1 DEF Shows
      <4> QED
        BY <2>1, <4>1, <4>2
    <3> QED
      BY <2>3, <2>10, <3>1, <3>2 DEF Shows
  <2>12. View(e) = View(c)
    BY <2>9, <2>11, ShowsIsView
  <2> QED
    BY <2>3, <2>4, <2>5, <2>9, <2>12 DEF Cleaned
<1> QED
  BY <1>1, <1>2

\* block_rw(WRITE) of every block of the devices in D.
LEMMA WriteBackKeeps ==
  ASSUME NEW c, Good(c), NEW D
  PROVE  /\ Cleaned(c, WriteBack(c, D))
         /\ \A b \in Slots : c.block[b].dev \in D => ~WriteBack(c, D).block[b].dirty
<1> USE SlotsFacts
<1> DEFINE w[b \in 0 .. NumBlocks] ==
             IF b = 0 THEN c
             ELSE IF c.block[b - 1].dev \in D THEN block_rw(w[b - 1], b - 1, FALSE)
             ELSE w[b - 1]
           S == {x \in Caches : Good(x)}
           Turn(i, x) == IF c.block[i - 1].dev \in D THEN block_rw(x, i - 1, FALSE) ELSE x
           G == [t \in (1 .. NumBlocks) \X S |-> Turn(t[1], t[2])]
<1>1. WriteBack(c, D) = w[NumBlocks]
  BY DEF WriteBack
<1>2. ASSUME NEW i \in 1 .. NumBlocks, NEW x \in S
      PROVE  Turn(i, x) \in S
  <2>1. i - 1 \in Slots
    OBVIOUS
  <2>2. Cleaned(x, block_rw(x, i - 1, FALSE))
    BY <2>1, WriteKeeps
  <2>3. Good(block_rw(x, i - 1, FALSE))
    BY <2>2 DEF Cleaned
  <2> QED
    BY <2>3 DEF Good
<1>3. c \in S
  BY DEF Good
<1> HIDE DEF S, Turn
<1>4. G \in [(1 .. NumBlocks) \X S -> S]
  BY <1>2
<1>5. PICK f \in [0 .. NumBlocks -> S] : Turns(NumBlocks, c, G, f)
  <2> HIDE DEF G
  <2> QED
    BY <1>3, <1>4, LoopExists
<1>6. f = [i \in 0 .. NumBlocks |-> IF i = 0 THEN c ELSE Turn(i, f[i - 1])]
  <2>1. \A i \in 0 .. NumBlocks : i # 0 => G[<<i, f[i - 1]>>] = Turn(i, f[i - 1])
    OBVIOUS
  <2> HIDE DEF G
  <2>2. \A i \in 0 .. NumBlocks : f[i] = IF i = 0 THEN c ELSE Turn(i, f[i - 1])
    BY <1>5, <2>1 DEF Turns
  <2> QED
    BY <2>2
<1>7. w = [i \in 0 .. NumBlocks |-> IF i = 0 THEN c ELSE Turn(i, w[i - 1])]
  BY <1>6 DEF w, Turn
<1> HIDE DEF w
<1>8. w[0] = c /\ \A i \in 1 .. NumBlocks : w[i] = Turn(i, w[i - 1])
  BY <1>7
<1> DEFINE A == {i \in 0 .. NumBlocks :
                   /\ Cleaned(c, w[i])
                   /\ \A b \in Slots : b < i /\ c.block[b].dev \in D => ~w[i].block[b].dirty}
<1>9. 0 \in A
  <2>1. Cleaned(c, c)
    BY DEF Cleaned
  <2> QED
    BY <1>8, <2>1
<1>10. ASSUME NEW i \in 0 .. NumBlocks - 1, i \in A
       PROVE  i + 1 \in A
  <2>1. i + 1 \in 1 .. NumBlocks /\ (i + 1) - 1 = i /\ i \in Slots
    OBVIOUS
  <2>2. Cleaned(c, w[i]) /\ \A b \in Slots : b < i /\ c.block[b].dev \in D => ~w[i].block[b].dirty
    BY <1>10
  <2>3. w[i + 1] = IF c.block[i].dev \in D THEN block_rw(w[i], i, FALSE) ELSE w[i]
    BY <1>8, <2>1 DEF Turn
  <2>4. CASE c.block[i].dev \in D
    <3>1. Cleaned(w[i], w[i + 1]) /\ ~w[i + 1].block[i].dirty
      <4>1. Good(w[i])
        BY <2>2 DEF Cleaned
      <4> QED
        BY <2>1, <2>3, <2>4, <4>1, WriteKeeps
    <3>2. Cleaned(c, w[i + 1])
      BY <2>2, <3>1, CleanedTwice
    <3>3. \A b \in Slots : b < i + 1 /\ c.block[b].dev \in D => ~w[i + 1].block[b].dirty
      BY <2>1, <2>2, <3>1 DEF Cleaned
    <3> QED
      BY <2>1, <3>2, <3>3
  <2>5. CASE c.block[i].dev \notin D
    <3>1. \A b \in Slots : b < i + 1 /\ c.block[b].dev \in D => b < i
      BY <2>5
    <3> QED
      BY <2>1, <2>2, <2>3, <2>5, <3>1
  <2> QED
    BY <2>4, <2>5
<1> HIDE DEF A
<1>11. NumBlocks \in A
  BY <1>9, <1>10, UpTo
<1> QED
  BY <1>1, <1>11 DEF A

-----------------------------------------------------------------------------
(* Changing one slot *)

ChangeSlot(c, b, s) == [c EXCEPT !.block[b] = s]

\* Only the slot changes.
LEMMA ChangeFields ==
  ASSUME NEW c \in Caches, NEW b \in Slots, NEW s \in Blocks
  PROVE  LET e == ChangeSlot(c, b, s) IN
         /\ e \in Caches /\ e.prev = c.prev /\ e.next = c.next /\ e.lru = c.lru
         /\ e.super = c.super /\ e.disk = c.disk
         /\ e.block[b] = s /\ \A x \in Slots : x # b => e.block[x] = c.block[x]
BY DEF ChangeSlot, Caches

\* A cache stays good when what the slot gets is right and is in no other slot.
LEMMA ChangeGood ==
  ASSUME NEW c, Good(c), NEW b \in Slots, NEW s \in Blocks, SlotOk(c, s),
         s.dev \in Devs => \A x \in Slots : x # b => ~(/\ c.block[x].dev = s.dev
                                                       /\ c.block[x].blk = s.blk)
  PROVE  Good(ChangeSlot(c, b, s))
<1> DEFINE e == ChangeSlot(c, b, s)
<1>1. /\ e \in Caches /\ e.prev = c.prev /\ e.next = c.next /\ e.lru = c.lru
      /\ e.super = c.super /\ e.disk = c.disk
      /\ e.block[b] = s /\ \A x \in Slots : x # b => e.block[x] = c.block[x]
  BY ChangeFields DEF Good
<1> HIDE DEF e
<1>2. IsRing(e.lru, e.next, e.prev)
  BY <1>1 DEF Good
<1>3. Distinct(e)
  <2> SUFFICES ASSUME NEW x \in Slots, NEW y \in Slots, e.block[x].dev \in Devs,
                      e.block[x].dev = e.block[y].dev, e.block[x].blk = e.block[y].blk
               PROVE  x = y
    BY DEF Distinct
  <2>1. Distinct(c)
    BY DEF Good
  <2> QED
    BY <1>1, <2>1 DEF Distinct
<1>4. ASSUME NEW x \in Slots PROVE BlockOk(e, x)
  <2>1. CASE x = b
    BY <1>1, <2>1 DEF BlockOk, SlotOk
  <2>2. CASE x # b
    <3>1. BlockOk(c, x) /\ e.block[x] = c.block[x]
      BY <1>1, <2>2 DEF Good
    <3> QED
      BY <1>1, <3>1 DEF BlockOk, SlotOk
  <2> QED
    BY <2>1, <2>2
<1>5. Good(e)
  BY <1>1, <1>2, <1>3, <1>4 DEF Good
<1> QED
  BY <1>5 DEF e

\* A slot gets the same block with the same contents: its count changes.
LEMMA Recount ==
  ASSUME NEW c, Good(c), NEW b \in Slots, NEW n \in Int, n # 0 => c.block[b].dev \in Devs
  PROVE  /\ Good(ChangeSlot(c, b, [c.block[b] EXCEPT !.count = n]))
         /\ View(ChangeSlot(c, b, [c.block[b] EXCEPT !.count = n])) = View(c)
<1> DEFINE s == c.block[b]
           t == [s EXCEPT !.count = n]
           e == ChangeSlot(c, b, t)
<1>1. s \in Blocks /\ c \in Caches
  BY DEF Good, Caches
<1>2. /\ t \in Blocks /\ t.dev = s.dev /\ t.blk = s.blk /\ t.dirty = s.dirty /\ t.data = s.data
      /\ t.count = n
  BY <1>1 DEF Blocks
<1> HIDE DEF t
<1>3. Good(e)
  <2>1. SlotOk(c, t)
    <3>1. BlockOk(c, b)
      BY DEF Good
    <3> QED
      BY <1>2, <3>1 DEF BlockOk, SlotOk
  <2>2. t.dev \in Devs => \A x \in Slots : x # b => ~(/\ c.block[x].dev = t.dev
                                                      /\ c.block[x].blk = t.blk)
    BY <1>2 DEF Good, Distinct
  <2> QED
    BY <1>2, <2>1, <2>2, ChangeGood
<1>4. /\ e.disk = c.disk /\ e.block[b] = t
      /\ \A x \in Slots : x # b => e.block[x] = c.block[x]
  BY <1>1, <1>2, ChangeFields
<1> HIDE DEF e
<1>5. \A x \in Slots : /\ e.block[x].dev = c.block[x].dev /\ e.block[x].blk = c.block[x].blk
                       /\ e.block[x].data = c.block[x].data
  BY <1>2, <1>4
<1>6. Shows(e, View(c))
  <2>1. Shows(c, View(c))
    BY ViewShows
  <2>2. \A x \in Slots, a \in Addrs : Has(e, x, a) <=> Has(c, x, a)
    BY <1>5 DEF Has
  <2> QED
    BY <1>4, <1>5, <2>1, <2>2 DEF Shows
<1>7. View(e) = View(c)
  BY <1>3, <1>6, ShowsIsView
<1> QED
  BY <1>3, <1>7 DEF e, t

\* A slot whose block is clean is given to another block, as it is on the device, or to
\* none.
LEMMA Replace ==
  ASSUME NEW c, Good(c), NEW b \in Slots, ~c.block[b].dirty,
         NEW t \in Blocks, SlotOk(c, t), ~t.dirty,
         t.dev \in Devs => \A x \in Slots : x # b => ~(/\ c.block[x].dev = t.dev
                                                       /\ c.block[x].blk = t.blk)
  PROVE  Good(ChangeSlot(c, b, t)) /\ View(ChangeSlot(c, b, t)) = View(c)
<1> DEFINE e == ChangeSlot(c, b, t)
<1>1. Good(e)
  BY ChangeGood
<1>2. /\ e.disk = c.disk /\ e.block[b] = t
      /\ \A x \in Slots : x # b => e.block[x] = c.block[x]
  BY ChangeFields DEF Good
<1> HIDE DEF e
<1>3. Shows(c, View(c))
  BY ViewShows
<1>4. ASSUME NEW a \in Addrs
      PROVE  /\ \A x \in Slots : Has(e, x, a) => View(c)[a] = e.block[x].data
             /\ (\A x \in Slots : ~Has(e, x, a)) => View(c)[a] = e.disk[a]
  <2>1. a[1] \in Devs /\ a = <<a[1], a[2]>>
    BY DEF Addrs
  <2>2. Has(c, b, a) => View(c)[a] = c.disk[a]
    <3> SUFFICES ASSUME Has(c, b, a) PROVE View(c)[a] = c.disk[a]
      OBVIOUS
    <3>1. c.block[b].dev \in Devs /\ a = <<c.block[b].dev, c.block[b].blk>>
      BY <2>1 DEF Has
    <3>2. c.block[b].data = c.disk[a]
      BY <3>1 DEF Good, BlockOk, SlotOk
    <3> QED
      BY <1>3, <3>2 DEF Shows
  <2>3. ASSUME \A x \in Slots : x # b => ~Has(c, x, a)
        PROVE  View(c)[a] = c.disk[a]
    <3>1. CASE Has(c, b, a)
      BY <2>2, <3>1
    <3>2. CASE ~Has(c, b, a)
      BY <1>3, <2>3, <3>2 DEF Shows
    <3> QED
      BY <3>1, <3>2
  <2>4. \A x \in Slots : x # b => (Has(e, x, a) <=> Has(c, x, a))
    BY <1>2 DEF Has
  <2>5. ASSUME NEW x \in Slots, Has(e, x, a) PROVE View(c)[a] = e.block[x].data
    <3>1. CASE x # b
      BY <1>2, <1>3, <2>4, <2>5, <3>1 DEF Shows
    <3>2. CASE x = b
      <4>1. t.dev = a[1] /\ t.blk = a[2]
        BY <1>2, <2>5, <3>2 DEF Has
      <4>2. View(c)[a] = c.disk[a]
        BY <2>1, <2>3, <4>1 DEF Has
      <4>3. t.data = c.disk[a]
        BY <2>1, <4>1 DEF SlotOk
      <4> QED
        BY <1>2, <3>2, <4>2, <4>3
    <3> QED
      BY <3>1, <3>2
  <2>6. ASSUME \A x \in Slots : ~Has(e, x, a) PROVE View(c)[a] = e.disk[a]
    BY <1>2, <2>3, <2>4, <2>6
  <2> QED
    BY <2>5, <2>6
<1>5. Shows(e, View(c))
  BY <1>3, <1>4 DEF Shows
<1>6. View(e) = View(c)
  BY <1>1, <1>5, ShowsIsView
<1> QED
  BY <1>1, <1>6 DEF e

\* The block of a mounted device is changed and marked dirty.
AssignSlot(c, b, v) == ChangeSlot(c, b, [c.block[b] EXCEPT !.data = v, !.dirty = TRUE])

\* Disk sees the new contents, and no other change.
LEMMA Assign ==
  ASSUME NEW c, Good(c), NEW b \in Slots, NEW v \in Values, c.block[b].dev \in Devs,
         c.super[c.block[b].dev] # "unmounted"
  PROVE  /\ Good(AssignSlot(c, b, v))
         /\ <<c.block[b].dev, c.block[b].blk>> \in Addrs
         /\ View(AssignSlot(c, b, v)) = [View(c) EXCEPT ![<<c.block[b].dev, c.block[b].blk>>] = v]
<1> DEFINE s  == c.block[b]
           at == <<s.dev, s.blk>>
           t  == [s EXCEPT !.data = v, !.dirty = TRUE]
           e  == ChangeSlot(c, b, t)
           f  == [View(c) EXCEPT ![at] = v]
<1>1. s \in Blocks /\ c \in Caches
  BY DEF Good, Caches
<1>2. /\ t \in Blocks /\ t.dev = s.dev /\ t.blk = s.blk /\ t.dirty = TRUE /\ t.data = v
      /\ t.count = s.count
  BY <1>1 DEF Blocks
<1> HIDE DEF t
<1>3. Good(e)
  <2>1. SlotOk(c, t)
    <3>1. BlockOk(c, b)
      BY DEF Good
    <3> QED
      BY <1>2, <3>1 DEF BlockOk, SlotOk
  <2>2. t.dev \in Devs => \A x \in Slots : x # b => ~(/\ c.block[x].dev = t.dev
                                                      /\ c.block[x].blk = t.blk)
    BY <1>2 DEF Good, Distinct
  <2> QED
    BY <1>2, <2>1, <2>2, ChangeGood
<1>4. /\ e.disk = c.disk /\ e.block[b] = t
      /\ \A x \in Slots : x # b => e.block[x] = c.block[x]
  BY <1>1, <1>2, ChangeFields
<1>5. at \in Addrs
  BY DEF Good, BlockOk, SlotOk, Addrs
<1>6. \A a \in Addrs : (a = at) <=> Has(c, b, a)
  BY DEF Has, Addrs
<1> HIDE DEF e
<1>7. Shows(c, View(c))
  BY ViewShows
<1>8. \A x \in Slots, a \in Addrs : Has(e, x, a) <=> Has(c, x, a)
  BY <1>2, <1>4 DEF Has
<1>9. f \in [Addrs -> Values] /\ \A a \in Addrs : f[a] = IF Has(c, b, a) THEN v ELSE View(c)[a]
  BY <1>6, <1>7 DEF Shows
<1> HIDE DEF f
<1>10. ASSUME NEW a \in Addrs, NEW x \in Slots, Has(e, x, a) PROVE f[a] = e.block[x].data
  <2>1. CASE x = b
    BY <1>2, <1>4, <1>8, <1>9, <1>10, <2>1
  <2>2. CASE x # b
    <3>1. ~Has(c, b, a)
      BY <1>8, <1>10, <2>2 DEF Good, Distinct, Has
    <3> QED
      BY <1>4, <1>7, <1>8, <1>9, <1>10, <2>2, <3>1 DEF Shows
  <2> QED
    BY <2>1, <2>2
<1>11. ASSUME NEW a \in Addrs, \A x \in Slots : ~Has(e, x, a) PROVE f[a] = e.disk[a]
  BY <1>4, <1>7, <1>8, <1>9, <1>11 DEF Shows
<1>12. Shows(e, f)
  BY <1>9, <1>10, <1>11 DEF Shows
<1>13. View(e) = f
  BY <1>3, <1>12, ShowsIsView
<1> QED
  BY <1>3, <1>5, <1>13 DEF e, f, t, AssignSlot

\* recently_used() only moves the slot in the ring.
LEMMA RecentlyUsedGood ==
  ASSUME NEW c, Good(c), NEW b \in Slots, NEW most \in BOOLEAN
  PROVE  /\ Good(recently_used(c, b, most))
         /\ View(recently_used(c, b, most)) = View(c)
         /\ recently_used(c, b, most).block = c.block
         /\ recently_used(c, b, most).super = c.super
<1> DEFINE r == recently_used(c, b, most)
<1>1. c \in Caches /\ IsRing(c.lru, c.next, c.prev)
  BY DEF Good
<1>2. /\ r \in Caches /\ IsRing(r.lru, r.next, r.prev)
      /\ r.block = c.block /\ r.super = c.super /\ r.disk = c.disk
  BY <1>1, RecentlyUsed
<1> HIDE DEF r
<1>3. Good(r)
  BY <1>2 DEF Good, Distinct, BlockOk, SlotOk
<1>4. View(r) = View(c)
  BY <1>2 DEF View, Holding
<1> QED
  BY <1>2, <1>3, <1>4 DEF r

-----------------------------------------------------------------------------
(* block_get() and block_put() *)

AllFree(c) == \A b \in Slots : c.block[b].count = 0

\* The same devices are mounted.
SameMounts(c, e) == \A d \in Devs : e.super[d] = "unmounted" <=> c.super[d] = "unmounted"

\* The cache g has got the block at a, in the slot b.
Got(c, a, b, g) ==
  /\ Good(g) /\ View(g) = View(c) /\ SameMounts(c, g)
  /\ b \in Slots /\ Has(g, b, a) /\ g.block[b].count = 1
  /\ \A x \in Slots : x # b => g.block[x].count = 0

\* The block is in the cache.
LEMMA GetHit ==
  ASSUME NEW c, Good(c), AllFree(c), NEW a \in Addrs, Holding(c, a) # {}
  PROVE  Got(c, a, Slot(c, a), block_get(c, a))
<1> DEFINE b == Slot(c, a)
           t == [c.block[b] EXCEPT !.count = 1]
           e == ChangeSlot(c, b, t)
           g == recently_used(e, b, TRUE)
<1>1. b \in Slots /\ Has(c, b, a) /\ c.block[b].count = 0
  BY SlotFound, HoldingHas DEF Good, AllFree
<1> HIDE DEF b
<1>2. block_get(c, a) = g
  <2>1. c.block \in [Slots -> Blocks]
    BY DEF Good, Caches
  <2>2. [c EXCEPT !.block[b].count = @ + 1] = e
    BY <1>1, <2>1 DEF ChangeSlot
  <2> QED
    BY <2>2 DEF block_get, b
<1>3. c.block[b].dev \in Devs
  BY <1>1 DEF Has, Addrs
<1>4. Good(e) /\ View(e) = View(c)
  BY <1>1, <1>3, Recount
<1>5. c.block[b] \in Blocks
  BY <1>1 DEF Good, Caches
<1>6. t \in Blocks /\ t.dev = c.block[b].dev /\ t.blk = c.block[b].blk /\ t.count = 1
  BY <1>5 DEF Blocks
<1> HIDE DEF t
<1>7. /\ e.super = c.super /\ e.block[b] = t
      /\ \A x \in Slots : x # b => e.block[x] = c.block[x]
  BY <1>1, <1>6, ChangeFields DEF Good
<1> HIDE DEF e
<1>8. Good(g) /\ View(g) = View(e) /\ g.block = e.block /\ g.super = e.super
  BY <1>1, <1>4, RecentlyUsedGood
<1> HIDE DEF g
<1>9. Has(g, b, a) /\ g.block[b].count = 1 /\ \A x \in Slots : x # b => g.block[x].count = 0
  BY <1>1, <1>6, <1>7, <1>8 DEF Has, AllFree
<1>10. SameMounts(c, g)
  BY <1>7, <1>8 DEF SameMounts
<1>11. Got(c, a, b, g)
  BY <1>1, <1>4, <1>8, <1>9, <1>10 DEF Got
<1> QED
  BY <1>2, <1>11 DEF b

\* A slot that is made ready for a block.
Mine(s, d, k) == [s EXCEPT !.dev = d, !.blk = k, !.count = 1, !.dirty = TRUE]

\* Its fields.
LEMMA MineFields ==
  ASSUME NEW s \in Blocks, NEW d \in Devs, NEW k \in Blks
  PROVE  /\ Mine(s, d, k) \in Blocks
         /\ Mine(s, d, k).dev = d /\ Mine(s, d, k).blk = k /\ Mine(s, d, k).count = 1
         /\ Mine(s, d, k).dirty = TRUE
<1>1. Mine(s, d, k) \in Blocks
  <2>1. PICK n \in Int : n = 1
    OBVIOUS
  <2>2. [s EXCEPT !.dev = d, !.blk = k, !.count = n, !.dirty = TRUE] \in Blocks
    BY DEF Blocks
  <2> QED
    BY <2>1, <2>2 DEF Mine
<1>2. /\ Mine(s, d, k).dev = d /\ Mine(s, d, k).blk = k /\ Mine(s, d, k).count = 1
      /\ Mine(s, d, k).dirty = TRUE
  BY DEF Blocks, Mine
<1> QED
  BY <1>1, <1>2

\* Two slots that agree on all fields are equal.
LEMMA SameFields ==
  ASSUME NEW s \in Blocks, NEW t \in Blocks, s.dev = t.dev, s.blk = t.blk, s.count = t.count,
         s.dirty = t.dirty, s.data = t.data
  PROVE  s = t
BY DEF Blocks

\* It is not: a free slot is written and gets it.
LEMMA GetMiss ==
  ASSUME NEW c, Good(c), AllFree(c), NEW a \in Addrs, Holding(c, a) = {}
  PROVE  Got(c, a, Slot(c, a), block_get(c, a))
<1> DEFINE b    == Slot(c, a)
           e    == block_rw(c, b, FALSE)
           mine == Mine(c.block[b], a[1], a[2])
           f    == [e EXCEPT !.block[b] = mine]
           h    == block_rw(f, b, TRUE)
           g    == recently_used(h, b, TRUE)
           t    == [dev |-> a[1], blk |-> a[2], count |-> 1, dirty |-> FALSE, data |-> e.disk[a]]
<1>1. b \in Slots
  <2>1. 0 \in Free(c)
    BY SlotsFacts DEF AllFree, Free
  <2>2. b \in Free(c)
    BY <2>1, SlotFound DEF Good
  <2> QED
    BY <2>2 DEF Free
<1>2. block_get(c, a) = g
  BY DEF block_get, Mine
<1> HIDE DEF b
<1>3. Cleaned(c, e) /\ ~e.block[b].dirty
  BY <1>1, WriteKeeps
<1> HIDE DEF e
<1>4. Good(e) /\ e \in Caches
  BY <1>3 DEF Cleaned, Good
<1>5. a[1] \in Devs /\ a[2] \in Blks /\ a = <<a[1], a[2]>>
  BY DEF Addrs
<1>6. c.block[b] \in Blocks
  BY <1>1 DEF Good, Caches
<1>7. /\ mine \in Blocks /\ mine.dev = a[1] /\ mine.blk = a[2] /\ mine.count = 1
      /\ mine.dirty = TRUE
  <2>1. PICK s \in Blocks, d \in Devs, k \in Blks : s = c.block[b] /\ d = a[1] /\ k = a[2]
    BY <1>5, <1>6
  <2>2. mine = Mine(s, d, k)
    BY <2>1
  <2>m. /\ Mine(s, d, k) \in Blocks
        /\ Mine(s, d, k).dev = d /\ Mine(s, d, k).blk = k /\ Mine(s, d, k).count = 1
        /\ Mine(s, d, k).dirty = TRUE
    BY MineFields
  <2> HIDE DEF mine
  <2>3. mine \in Blocks /\ mine.dev = d /\ mine.blk = k /\ mine.count = 1
    BY <2>2, <2>m
  <2>4. mine.dirty = TRUE
    BY <2>2, <2>m
  <2> QED
    BY <2>1, <2>3, <2>4
<1>8. t \in Blocks
  BY <1>4, <1>5 DEF Blocks, Caches
<1>9. h = ChangeSlot(e, b, t)
  <2>1. /\ f \in Caches /\ f.prev = e.prev /\ f.next = e.next /\ f.lru = e.lru
        /\ f.super = e.super /\ f.disk = e.disk /\ f.block = [e.block EXCEPT ![b] = mine]
    <3> HIDE DEF mine
    <3> QED
      BY <1>1, <1>4, <1>7 DEF Caches
  <2>2. f.block[b] = mine
    BY <1>1, <2>1 DEF Caches
  <2> DEFINE t1 == [f.block EXCEPT ![b] = [@ EXCEPT !.dirty = FALSE]]
             t2 == [t1 EXCEPT ![b] = [@ EXCEPT !.data = f.disk[a]]]
             k  == [d \in Devs |-> f.super[d]]
  <2>3. h = [f EXCEPT !.block = t2, !.disk = f.disk, !.super = k]
    <3> HIDE DEF f, mine
    <3>1. f.block[b].dirty = TRUE /\ <<f.block[b].dev, f.block[b].blk>> = a
      BY <1>5, <1>7, <2>2
    <3> QED
      BY ZenonT(60), <1>1, <2>1, <3>1 DEF block_rw, Caches
  <2>4. [[mine EXCEPT !.dirty = FALSE] EXCEPT !.data = e.disk[a]] = t
    <3> DEFINE m == [[mine EXCEPT !.dirty = FALSE] EXCEPT !.data = e.disk[a]]
    <3> HIDE DEF mine
    <3>1. e.disk[a] \in Values
      BY <1>4 DEF Caches
    <3>2. m \in Blocks
      BY <1>7, <3>1 DEF Blocks
    <3>3. /\ m.dev = a[1] /\ m.blk = a[2] /\ m.count = 1 /\ m.dirty = FALSE
          /\ m.data = e.disk[a]
      BY <1>7 DEF Blocks
    <3> HIDE DEF m
    <3>4. m = t
      BY <1>8, <3>2, <3>3, SameFields
    <3> QED
      BY <3>4 DEF m
  <2>5. k = e.super /\ f.disk = e.disk
    BY <2>1 DEF Caches
  <2>6. t2 = [e.block EXCEPT ![b] = t]
    <3> HIDE DEF f, mine, t
    <3>1. f.block \in [Slots -> Blocks] /\ e.block \in [Slots -> Blocks]
      BY <1>4, <2>1 DEF Caches
    <3>2. t1 = [f.block EXCEPT ![b] = [mine EXCEPT !.dirty = FALSE]]
      BY <1>1, <2>2, <3>1
    <3>3. t1[b] = [mine EXCEPT !.dirty = FALSE]
      BY <1>1, <3>1, <3>2
    <3>4. t2 = [f.block EXCEPT ![b] = t]
      BY <1>1, <2>4, <2>5, <3>1, <3>2, <3>3
    <3> QED
      BY <1>1, <2>1, <3>1, <3>4
  <2> HIDE DEF h, f, t, mine, k, t1, t2
  <2>7. h = [f EXCEPT !.block = [e.block EXCEPT ![b] = t], !.disk = e.disk, !.super = e.super]
    BY <2>3, <2>5, <2>6
  <2> QED
    BY <1>4, <2>1, <2>7 DEF ChangeSlot, Caches
<1>10. \A x \in Slots : ~Has(e, x, a)
  <2>1. \A x \in Slots : ~Has(c, x, a)
    BY HoldingHas
  <2> QED
    BY <1>3, <2>1 DEF Cleaned, Has
<1>11. /\ t.dev = a[1] /\ t.blk = a[2] /\ t.count = 1 /\ ~t.dirty /\ t.data = e.disk[a]
  OBVIOUS
<1> HIDE DEF mine, f, h, g, t
<1>12. Good(h) /\ View(h) = View(e)
  <2>1. SlotOk(e, t)
    BY <1>5, <1>11 DEF SlotOk
  <2>2. \A x \in Slots : x # b => ~(e.block[x].dev = t.dev /\ e.block[x].blk = t.blk)
    BY <1>10, <1>11 DEF Has
  <2> QED
    BY <1>1, <1>3, <1>4, <1>8, <1>9, <1>11, <2>1, <2>2, Replace
<1>13. /\ h.super = e.super /\ h.block[b] = t
       /\ \A x \in Slots : x # b => h.block[x] = e.block[x]
  BY <1>1, <1>4, <1>8, <1>9, ChangeFields
<1>14. Good(g) /\ View(g) = View(h) /\ g.block = h.block /\ g.super = h.super
  BY <1>1, <1>12, RecentlyUsedGood DEF g
<1>15. Has(g, b, a) /\ g.block[b].count = 1
  BY <1>1, <1>11, <1>13, <1>14 DEF Has
<1>16. \A x \in Slots : x # b => g.block[x].count = 0
  BY <1>3, <1>13, <1>14 DEF AllFree, Cleaned
<1>17. SameMounts(c, g)
  BY <1>3, <1>13, <1>14 DEF SameMounts, Cleaned
<1>18. View(g) = View(c)
  BY <1>3, <1>12, <1>14 DEF Cleaned
<1>19. Got(c, a, b, g)
  BY <1>1, <1>14, <1>15, <1>16, <1>17, <1>18 DEF Got
<1> QED
  BY <1>2, <1>19 DEF b

\* block_get() returns a slot that has the block, in use once, and changes no contents.
LEMMA BlockGet ==
  ASSUME NEW c, Good(c), AllFree(c), NEW a \in Addrs
  PROVE  Got(c, a, Slot(c, a), block_get(c, a))
BY GetHit, GetMiss

\* e is c after the block in slot b has been put.
PutFrom(c, b, e) ==
  /\ Good(e) /\ View(e) = View(c) /\ SameMounts(c, e)
  /\ e.block[b].count = c.block[b].count - 1
  /\ \A x \in Slots : x # b => e.block[x].count = c.block[x].count

\* block_put() of a block in use.
LEMMA BlockPut ==
  ASSUME NEW c, Good(c), NEW b \in Slots, c.block[b].count # 0, NEW important \in BOOLEAN
  PROVE  PutFrom(c, b, block_put(c, b, important))
<1> DEFINE n == c.block[b].count - 1
           t == [c.block[b] EXCEPT !.count = n]
           d == ChangeSlot(c, b, t)
           e == block_put(c, b, important)
<1>1. c.block[b] \in Blocks /\ c.block[b].dev \in Devs /\ c \in Caches
  BY DEF Good, Caches, BlockOk, SlotOk
<1>2. n \in Int
  BY <1>1 DEF Blocks
<1>3. t \in Blocks /\ t.count = n
  BY <1>1, <1>2 DEF Blocks
<1>4. e = block_rw(d, b, FALSE) \/ e = d
  <2>1. [c EXCEPT !.block[b].count = @ - 1] = d
    BY <1>1 DEF ChangeSlot
  <2> HIDE DEF d
  <2> QED
    BY <2>1 DEF block_put
<1> HIDE DEF n
<1>5. Good(d) /\ View(d) = View(c)
  BY <1>1, <1>2, Recount
<1> HIDE DEF t, e
<1>6. /\ d.super = c.super /\ d.block[b] = t
      /\ \A x \in Slots : x # b => d.block[x] = c.block[x]
  BY <1>1, <1>3, ChangeFields
<1> HIDE DEF d
<1>7. Cleaned(d, e)
  <2>1. Cleaned(d, block_rw(d, b, FALSE)) /\ Cleaned(d, d)
    BY <1>5, WriteKeeps DEF Cleaned
  <2> QED
    BY <1>4, <2>1
<1>8. Good(e) /\ View(e) = View(c)
  BY <1>5, <1>7 DEF Cleaned
<1>9. SameMounts(c, e)
  BY <1>6, <1>7 DEF Cleaned, SameMounts
<1>10. e.block[b].count = c.block[b].count - 1
  BY <1>3, <1>6, <1>7 DEF Cleaned, n
<1>11. \A x \in Slots : x # b => e.block[x].count = c.block[x].count
  BY <1>6, <1>7 DEF Cleaned
<1> QED
  BY <1>8, <1>9, <1>10, <1>11 DEF e, PutFrom

-----------------------------------------------------------------------------
(* Superblocks *)

\* Another state of a device's superblock; unmounted only if no block is dirty.
WithSuper(c, d, m) == [c EXCEPT !.super[d] = m]

\* Nothing but the device's entry changes.
LEMMA SetSuper ==
  ASSUME NEW c, Good(c), NEW d \in Devs, NEW m \in {"unmounted", "dirty", "clean"},
         m = "unmounted" => \A b \in Slots : c.block[b].dev = d => ~c.block[b].dirty
  PROVE  /\ Good(WithSuper(c, d, m)) /\ View(WithSuper(c, d, m)) = View(c)
         /\ WithSuper(c, d, m).block = c.block /\ WithSuper(c, d, m).super[d] = m
         /\ \A x \in Devs : x # d => WithSuper(c, d, m).super[x] = c.super[x]
<1> DEFINE e == WithSuper(c, d, m)
<1>1. /\ e \in Caches /\ e.prev = c.prev /\ e.next = c.next /\ e.lru = c.lru
      /\ e.block = c.block /\ e.disk = c.disk
      /\ e.super[d] = m /\ \A x \in Devs : x # d => e.super[x] = c.super[x]
  BY DEF Good, Caches, WithSuper
<1> HIDE DEF e
<1>2. \A b \in Slots : BlockOk(e, b)
  BY <1>1 DEF Good, BlockOk, SlotOk
<1>3. Good(e)
  BY <1>1, <1>2 DEF Good, Distinct
<1>4. View(e) = View(c)
  BY <1>1 DEF View, Holding
<1> QED
  BY <1>1, <1>3, <1>4 DEF e

\* super_write() writes a dirty superblock to its block, through the cache.
LEMMA SuperWrite ==
  ASSUME NEW c, Good(c), AllFree(c), NEW d \in Devs, NEW v \in Values, c.super[d] = "dirty"
  PROVE  LET e == super_write(c, d, v) IN
         /\ Good(e) /\ AllFree(e) /\ SameMounts(c, e)
         /\ View(e) = [View(c) EXCEPT ![<<d, SUPER_BLOCK>>] = v]
<1> DEFINE a == <<d, SUPER_BLOCK>>
           b == Slot(c, a)
           g == block_get(c, a)
           t == [g.block[b] EXCEPT !.data = v, !.dirty = TRUE]
           w == ChangeSlot(g, b, t)
           p == block_put(w, b, TRUE)
           e == [p EXCEPT !.super[d] = "clean"]
<1>1. a \in Addrs /\ a[1] = d /\ a[2] = SUPER_BLOCK
  BY BlockCacheAssumption DEF Addrs
<1> HIDE DEF a
<1>2. Got(c, a, b, g)
  BY <1>1, BlockGet
<1> HIDE DEF b, g
<1>3. /\ Good(g) /\ View(g) = View(c) /\ b \in Slots /\ g \in Caches /\ g.block[b] \in Blocks
      /\ g.block[b].dev = d /\ g.block[b].blk = SUPER_BLOCK /\ g.super[d] # "unmounted"
  BY <1>1, <1>2 DEF Got, Has, SameMounts, Good, Caches
<1>4. super_write(c, d, v) = e
  <2>1. [g EXCEPT !.block[b].data = v, !.block[b].dirty = TRUE] = w
    <3>1. g.block \in [Slots -> Blocks]
      BY <1>3 DEF Caches
    <3> DEFINE t1 == [g.block EXCEPT ![b] = [@ EXCEPT !.data = v]]
               t2 == [t1 EXCEPT ![b] = [@ EXCEPT !.dirty = TRUE]]
    <3>2. t2 = [g.block EXCEPT ![b] = t]
      <4>1. t1[b] = [g.block[b] EXCEPT !.data = v]
        BY <1>3, <3>1
      <4>2. t2 = [t1 EXCEPT ![b] = t]
        BY <1>3, <3>1, <4>1
      <4> HIDE DEF t
      <4> QED
        BY <1>3, <3>1, <4>2
    <3>3. [g EXCEPT !.block[b].data = v, !.block[b].dirty = TRUE] = [g EXCEPT !.block = t2]
      BY <1>3, <3>1 DEF Caches
    <3> HIDE DEF t2, t
    <3> QED
      BY <3>2, <3>3 DEF ChangeSlot
  <2> HIDE DEF w
  <2> QED
    BY <2>1 DEF super_write, a, b, g
<1>5. Good(w) /\ View(w) = [View(g) EXCEPT ![<<g.block[b].dev, g.block[b].blk>>] = v]
  <2>1. w = AssignSlot(g, b, v)
    BY DEF AssignSlot
  <2> HIDE DEF w
  <2> QED
    BY <1>3, <2>1, Assign
<1>6. t \in Blocks /\ t.count = g.block[b].count
  BY <1>3 DEF Blocks
<1> HIDE DEF t
<1>7. /\ w.super = g.super /\ w.block[b] = t
      /\ \A x \in Slots : x # b => w.block[x] = g.block[x]
  BY <1>3, <1>6, ChangeFields
<1> HIDE DEF w
<1>8. w.block[b].count = 1 /\ \A x \in Slots : x # b => w.block[x].count = 0
  BY <1>2, <1>6, <1>7 DEF Got
<1>9. /\ Good(p) /\ View(p) = View(w) /\ SameMounts(w, p)
      /\ p.block[b].count = 0 /\ \A x \in Slots : x # b => p.block[x].count = 0
  <2>1. PutFrom(w, b, p)
    <3>1. w.block[b].count # 0 /\ TRUE \in BOOLEAN
      BY <1>8
    <3> QED
      BY <1>3, <1>5, <3>1, BlockPut
  <2> HIDE DEF p
  <2> QED
    BY <1>8, <2>1 DEF PutFrom
<1> HIDE DEF p
<1>10. /\ Good(e) /\ View(e) = View(p) /\ e.block = p.block
       /\ e.super[d] = "clean" /\ \A x \in Devs : x # d => e.super[x] = p.super[x]
  <2>1. e = WithSuper(p, d, "clean")
    BY DEF WithSuper
  <2> HIDE DEF e
  <2>2. PICK m \in {"unmounted", "dirty", "clean"} : m = "clean" /\ m # "unmounted"
    OBVIOUS
  <2> QED
    BY <1>9, <2>1, <2>2, SetSuper
<1> HIDE DEF e
<1>11. AllFree(e)
  BY <1>9, <1>10 DEF AllFree
<1>12. SameMounts(c, e)
  BY <1>2, <1>7, <1>9, <1>10 DEF SameMounts, Got
<1>13. View(e) = [View(c) EXCEPT ![<<d, SUPER_BLOCK>>] = v]
  BY <1>3, <1>5, <1>9, <1>10
<1> QED
  BY <1>4, <1>10, <1>11, <1>12, <1>13

\* The caches between two calls of the file system, with no block in use.
Resting == {c \in Caches : Good(c) /\ AllFree(c)}

\* The content f with v at the addresses in at.
Overlaid(at, v, f) == [a \in Addrs |-> IF a \in at THEN v ELSE f[a]]

\* One turn of the loop that writes the superblocks.
LEMMA WriteSuperKeeps ==
  ASSUME NEW w \in [c : Resting, at : SUBSET Addrs], NEW d \in Devs, NEW v \in Values
  PROVE  /\ WriteSuper(w, d, v) \in [c : Resting, at : SUBSET Addrs]
         /\ SameMounts(w.c, WriteSuper(w, d, v).c)
         /\ \A f \in [Addrs -> Values] :
              View(w.c) = Overlaid(w.at, v, f)
              => View(WriteSuper(w, d, v).c) = Overlaid(WriteSuper(w, d, v).at, v, f)
<1> DEFINE r == WriteSuper(w, d, v)
           e == super_write(w.c, d, v)
           at == w.at \cup {<<d, SUPER_BLOCK>>}
<1>r. WriteSuper(w, d, v) = r
  OBVIOUS
<1> HIDE DEF r
<1>1. Good(w.c) /\ AllFree(w.c) /\ w.c \in Resting /\ w.at \subseteq Addrs
  BY DEF Resting
<1>2. CASE w.c.super[d] # "dirty"
  <2>1. r = w
    BY <1>2 DEF WriteSuper, r
  <2> QED
    BY <1>r, <2>1 DEF SameMounts
<1>3. CASE w.c.super[d] = "dirty"
  <2>1. r = [c |-> e, at |-> at]
    BY <1>3 DEF WriteSuper, r
  <2>2. /\ Good(e) /\ AllFree(e) /\ SameMounts(w.c, e)
        /\ View(e) = [View(w.c) EXCEPT ![<<d, SUPER_BLOCK>>] = v]
    BY <1>1, <1>3, SuperWrite
  <2>3. e \in Resting
    BY <2>2 DEF Resting, Good
  <2>4. at \in SUBSET Addrs
    BY <1>1, BlockCacheAssumption DEF Addrs
  <2> HIDE DEF e
  <2>5. r.c = e /\ r.at = at /\ r \in [c : Resting, at : SUBSET Addrs]
    BY <2>1, <2>3, <2>4
  <2>6. ASSUME NEW f \in [Addrs -> Values],
               View(w.c) = Overlaid(w.at, v, f)
        PROVE  View(e) = Overlaid(at, v, f)
    BY <2>2, <2>6 DEF Overlaid
  <2> QED
    BY <1>r, <2>2, <2>5, <2>6
<1> QED
  BY <1>2, <1>3

\* The order WriteSupers takes has every device.
OrderOfDevs(o) ==
  o \in [1 .. Cardinality(Devs) -> Devs] /\ \A d \in Devs : \E i \in DOMAIN o : o[i] = d

\* There is such an order, as there are finitely many devices.
LEMMA DevsInOrder ==
  /\ Cardinality(Devs) \in Nat
  /\ OrderOfDevs(CHOOSE o \in [1 .. Cardinality(Devs) -> Devs] :
                   \A d \in Devs : \E i \in DOMAIN o : o[i] = d)
<1>1. Cardinality(Devs) \in Nat /\ ExistsBijection(1 .. Cardinality(Devs), Devs)
  BY BlockCacheAssumption, FS_CardinalityType
<1>2. PICK o \in Bijection(1 .. Cardinality(Devs), Devs) : TRUE
  BY <1>1 DEF ExistsBijection
<1>3. OrderOfDevs(o)
  BY <1>2 DEF Bijection, Injection, Surjection, OrderOfDevs
<1> QED
  BY <1>1, <1>3 DEF OrderOfDevs

\* The superblocks that are written hold v, and nothing else changes.
LEMMA WriteSupersKeeps ==
  ASSUME NEW c \in Resting, NEW v \in Values
  PROVE  /\ WriteSupers(c, v) \in [c : Resting, at : SUBSET Addrs]
         /\ SameMounts(c, WriteSupers(c, v).c)
         /\ View(WriteSupers(c, v).c)
              = [a \in Addrs |-> IF a \in WriteSupers(c, v).at THEN v ELSE View(c)[a]]
<1> DEFINE n     == Cardinality(Devs)
           order == CHOOSE o \in [1 .. n -> Devs] : \A d \in Devs : \E i \in DOMAIN o : o[i] = d
           x     == [c |-> c, at |-> {}]
           w[i \in 0 .. n] == IF i = 0 THEN x ELSE WriteSuper(w[i - 1], order[i], v)
           S     == [c : Resting, at : SUBSET Addrs]
           Turn(i, s) == WriteSuper(s, order[i], v)
           G     == [t \in (1 .. n) \X S |-> Turn(t[1], t[2])]
           V     == View(c)
<1>1. WriteSupers(c, v) = w[n]
  BY DEF WriteSupers
<1>2. n \in Nat /\ order \in [1 .. n -> Devs]
  BY DevsInOrder DEF OrderOfDevs
<1>3. V \in [Addrs -> Values]
  BY ViewShows DEF Resting, Shows
<1> HIDE DEF n, order, S, V
<1>4. ASSUME NEW i \in 1 .. n, NEW s \in S
      PROVE  /\ Turn(i, s) \in S /\ SameMounts(s.c, Turn(i, s).c)
             /\ View(s.c) = Overlaid(s.at, v, V)
                => View(Turn(i, s).c) = Overlaid(Turn(i, s).at, v, V)
  <2>1. PICK d \in Devs : d = order[i]
    BY <1>2
  <2>2. Turn(i, s) = WriteSuper(s, d, v)
    BY <2>1
  <2> HIDE DEF Turn
  <2>3. s \in [c : Resting, at : SUBSET Addrs]
    BY DEF S
  <2>4. WriteSuper(s, d, v) \in S /\ SameMounts(s.c, WriteSuper(s, d, v).c)
    BY <2>3, WriteSuperKeeps DEF S
  <2>5. View(s.c) = Overlaid(s.at, v, V)
        => View(WriteSuper(s, d, v).c) = Overlaid(WriteSuper(s, d, v).at, v, V)
    BY <1>3, <2>3, WriteSuperKeeps
  <2> QED
    BY <2>2, <2>4, <2>5
<1>5. x \in S /\ x.c = c /\ x.at = {}
  BY DEF S
<1> HIDE DEF Turn, x
<1>6. G \in [(1 .. n) \X S -> S]
  BY <1>4
<1>7. PICK f \in [0 .. n -> S] : Turns(n, x, G, f)
  <2> HIDE DEF G
  <2> QED
    BY <1>2, <1>5, <1>6, LoopExists
<1>8. f = [i \in 0 .. n |-> IF i = 0 THEN x ELSE Turn(i, f[i - 1])]
  <2>1. \A i \in 0 .. n : i # 0 => G[<<i, f[i - 1]>>] = Turn(i, f[i - 1])
    BY <1>2
  <2> HIDE DEF G
  <2>2. \A i \in 0 .. n : f[i] = IF i = 0 THEN x ELSE Turn(i, f[i - 1])
    BY <1>7, <2>1 DEF Turns
  <2> QED
    BY <2>2
<1>9. w = [i \in 0 .. n |-> IF i = 0 THEN x ELSE Turn(i, w[i - 1])]
  BY <1>8 DEF w, Turn
<1> HIDE DEF w
<1>10. w[0] = x /\ \A i \in 1 .. n : w[i] = Turn(i, w[i - 1])
  BY <1>2, <1>9
<1> DEFINE A == {i \in 0 .. n :
                   /\ w[i] \in S /\ SameMounts(c, w[i].c)
                   /\ View(w[i].c) = Overlaid(w[i].at, v, V)}
<1>11. 0 \in A
  <2>1. SameMounts(c, c)
    BY DEF SameMounts
  <2>2. w[0] \in S /\ w[0].c = c /\ w[0].at = {}
    BY <1>5, <1>10
  <2>3. View(c) = Overlaid(w[0].at, v, V)
    BY <1>3, <2>2 DEF V, Overlaid
  <2>4. 0 \in 0 .. n
    BY <1>2
  <2> QED
    BY <2>1, <2>2, <2>3, <2>4
<1>12. ASSUME NEW i \in 0 .. n - 1, i \in A PROVE i + 1 \in A
  <2>1. i + 1 \in 1 .. n /\ i + 1 \in 0 .. n /\ (i + 1) - 1 = i
    BY <1>2
  <2>2. /\ w[i] \in S /\ SameMounts(c, w[i].c)
        /\ View(w[i].c) = Overlaid(w[i].at, v, V)
    BY <1>12
  <2>3. w[i + 1] = Turn(i + 1, w[i])
    BY <1>10, <2>1
  <2>4. /\ w[i + 1] \in S /\ SameMounts(w[i].c, w[i + 1].c)
        /\ View(w[i + 1].c) = Overlaid(w[i + 1].at, v, V)
    BY <1>4, <2>1, <2>2, <2>3
  <2>5. SameMounts(c, w[i + 1].c)
    BY <2>2, <2>4 DEF SameMounts
  <2> QED
    BY <2>1, <2>4, <2>5
<1> HIDE DEF A
<1>13. n \in A
  <2>1. n \in Nat /\ n \in 0 .. n
    BY <1>2
  <2>2. \A i \in 0 .. n - 1 : i \in A => i + 1 \in A
    BY <1>12
  <2>3. \A i \in 0 .. n : i \in A
    BY <1>11, <2>1, <2>2, UpTo
  <2> QED
    BY <2>1, <2>3
<1> QED
  BY <1>1, <1>13 DEF A, S, V, Overlaid

-----------------------------------------------------------------------------
(* dev_purge() *)

\* A slot that is given to no device.
Unused(s) == [s EXCEPT !.dev = NO_DEV, !.blk = 0, !.count = 0, !.dirty = FALSE]

\* It is free and clean.
LEMMA UnusedFields ==
  ASSUME NEW s \in Blocks
  PROVE  /\ Unused(s) \in Blocks /\ Unused(s).dev = NO_DEV /\ Unused(s).count = 0
         /\ Unused(s).dirty = FALSE
<1>1. Unused(s) \in Blocks
  <2>1. PICK n \in Int, k \in Blks \cup {0} : n = 0 /\ k = 0
    OBVIOUS
  <2>2. [s EXCEPT !.dev = NO_DEV, !.blk = k, !.count = n, !.dirty = FALSE] \in Blocks
    BY DEF Blocks
  <2> QED
    BY <2>1, <2>2 DEF Unused
<1>2. Unused(s).dev = NO_DEV /\ Unused(s).count = 0 /\ Unused(s).dirty = FALSE
  BY DEF Blocks, Unused
<1> QED
  BY <1>1, <1>2

\* One turn: the slot is given to no device, and moved.
Purged(c, b, s) == recently_used(ChangeSlot(c, b, Unused(s)), b, FALSE)

\* The other slots are as they were, and no contents are lost if the slot was clean.
LEMMA PurgedFields ==
  ASSUME NEW c, Good(c), NEW b \in Slots, NEW s \in Blocks
  PROVE  /\ Good(Purged(c, b, s)) /\ Purged(c, b, s).super = c.super
         /\ Purged(c, b, s).block[b] = Unused(s)
         /\ \A x \in Slots : x # b => Purged(c, b, s).block[x] = c.block[x]
         /\ ~c.block[b].dirty => View(Purged(c, b, s)) = View(c)
<1> DEFINE u == Unused(s)
           e == ChangeSlot(c, b, u)
           r == recently_used(e, b, FALSE)
<1>1. u \in Blocks /\ u.dev \notin Devs /\ u.count = 0 /\ u.dirty = FALSE
  BY UnusedFields, BlockCacheAssumption
<1>2. Purged(c, b, s) = r
  BY DEF Purged
<1>3. SlotOk(c, u)
  BY <1>1 DEF SlotOk
<1> HIDE DEF u
<1>4. Good(e)
  BY <1>1, <1>3, ChangeGood
<1>5. ~c.block[b].dirty => View(e) = View(c)
  BY <1>1, <1>3, Replace
<1>6. /\ e.super = c.super /\ e.block[b] = u
      /\ \A x \in Slots : x # b => e.block[x] = c.block[x]
  BY <1>1, ChangeFields DEF Good
<1> HIDE DEF e
<1>7. Good(r) /\ View(r) = View(e) /\ r.block = e.block /\ r.super = e.super
  <2>1. FALSE \in BOOLEAN
    OBVIOUS
  <2> QED
    BY <1>4, <2>1, RecentlyUsedGood
<1> HIDE DEF r
<1> QED
  BY <1>2, <1>5, <1>6, <1>7 DEF u

\* The device has no slot any more, the other slots are as they were.
LEMMA PurgeKeeps ==
  ASSUME NEW c, Good(c), AllFree(c), NEW d \in Devs,
         \A b \in Slots : c.block[b].dev = d => ~c.block[b].dirty
  PROVE  /\ Good(dev_purge(c, d)) /\ AllFree(dev_purge(c, d))
         /\ View(dev_purge(c, d)) = View(c) /\ dev_purge(c, d).super = c.super
         /\ \A b \in Slots : dev_purge(c, d).block[b].dev # d
<1> USE SlotsFacts
<1> DEFINE unused(b) == [c.block[b] EXCEPT !.dev = NO_DEV, !.blk = 0, !.count = 0, !.dirty = FALSE]
           p[b \in 0 .. NumBlocks] ==
             IF b = 0 THEN c
             ELSE IF c.block[b - 1].dev = d
             THEN recently_used([p[b - 1] EXCEPT !.block[b - 1] = unused(b - 1)], b - 1, FALSE)
             ELSE p[b - 1]
           S == {x \in Caches : Good(x)}
           Turn(i, x) == IF c.block[i - 1].dev = d THEN Purged(x, i - 1, c.block[i - 1]) ELSE x
           G == [t \in (1 .. NumBlocks) \X S |-> Turn(t[1], t[2])]
<1>1. dev_purge(c, d) = p[NumBlocks]
  BY DEF dev_purge
<1>2. \A b \in Slots : c.block[b] \in Blocks
  BY DEF Good, Caches
<1>3. ASSUME NEW i \in 1 .. NumBlocks, NEW x \in S
      PROVE  Turn(i, x) \in S
  <2>1. i - 1 \in Slots /\ c.block[i - 1] \in Blocks
    BY <1>2
  <2>2. Good(Purged(x, i - 1, c.block[i - 1]))
    BY <2>1, PurgedFields
  <2> QED
    BY <2>2 DEF Good
<1>4. c \in S
  BY DEF Good
<1>5. \A i \in 1 .. NumBlocks, x \in S :
        Turn(i, x) = IF c.block[i - 1].dev = d
                     THEN recently_used([x EXCEPT !.block[i - 1] = unused(i - 1)], i - 1, FALSE)
                     ELSE x
  BY DEF Purged, ChangeSlot, Unused
<1> HIDE DEF S, Turn, unused
<1>6. G \in [(1 .. NumBlocks) \X S -> S]
  BY <1>3
<1>7. PICK f \in [0 .. NumBlocks -> S] : Turns(NumBlocks, c, G, f)
  <2> HIDE DEF G
  <2> QED
    BY <1>4, <1>6, LoopExists
<1>8. \A i \in 0 .. NumBlocks : f[i] = IF i = 0 THEN c ELSE Turn(i, f[i - 1])
  <2>1. \A i \in 0 .. NumBlocks : i # 0 => G[<<i, f[i - 1]>>] = Turn(i, f[i - 1])
    OBVIOUS
  <2> HIDE DEF G
  <2> QED
    BY <1>7, <2>1 DEF Turns
<1> HIDE DEF G
<1>9. f = [b \in 0 .. NumBlocks |->
             IF b = 0 THEN c
             ELSE IF c.block[b - 1].dev = d
             THEN recently_used([f[b - 1] EXCEPT !.block[b - 1] = unused(b - 1)], b - 1, FALSE)
             ELSE f[b - 1]]
  <2>1. ASSUME NEW b \in 0 .. NumBlocks
        PROVE  f[b] = IF b = 0 THEN c
                      ELSE IF c.block[b - 1].dev = d
                      THEN recently_used([f[b - 1] EXCEPT !.block[b - 1] = unused(b - 1)], b - 1, FALSE)
                      ELSE f[b - 1]
    <3>1. CASE b = 0
      BY <1>8, <3>1
    <3>2. CASE b # 0
      <4>1. b \in 1 .. NumBlocks /\ f[b - 1] \in S
        BY <3>2
      <4> QED
        BY <1>5, <1>8, <3>2, <4>1
    <3> QED
      BY <3>1, <3>2
  <2> QED
    BY <2>1
<1>10. p = [b \in 0 .. NumBlocks |->
             IF b = 0 THEN c
             ELSE IF c.block[b - 1].dev = d
             THEN recently_used([p[b - 1] EXCEPT !.block[b - 1] = unused(b - 1)], b - 1, FALSE)
             ELSE p[b - 1]]
  BY <1>9 DEF p
<1> HIDE DEF p
<1>t. ASSUME NEW b \in 1 .. NumBlocks, p[b - 1] \in S
      PROVE  p[b] = Turn(b, p[b - 1])
  <2>1. b \in 0 .. NumBlocks /\ b # 0
    OBVIOUS
  <2>2. p[b] = IF c.block[b - 1].dev = d
               THEN recently_used([p[b - 1] EXCEPT !.block[b - 1] = unused(b - 1)], b - 1, FALSE)
               ELSE p[b - 1]
    BY <1>10, <2>1
  <2> QED
    BY <1>5, <1>t, <2>2
<1> DEFINE A == {i \in 0 .. NumBlocks :
                   /\ Good(p[i]) /\ View(p[i]) = View(c) /\ p[i].super = c.super
                   /\ \A b \in Slots :
                        p[i].block[b] = IF b < i /\ c.block[b].dev = d THEN Unused(c.block[b])
                                        ELSE c.block[b]}
<1>11. 0 \in A
  BY <1>10
<1>12. ASSUME NEW i \in 0 .. NumBlocks - 1, i \in A
       PROVE  i + 1 \in A
  <2>1. i + 1 \in 1 .. NumBlocks /\ i + 1 \in 0 .. NumBlocks /\ (i + 1) - 1 = i /\ i \in Slots
    OBVIOUS
  <2>2. /\ Good(p[i]) /\ View(p[i]) = View(c) /\ p[i].super = c.super
        /\ \A b \in Slots : p[i].block[b] = IF b < i /\ c.block[b].dev = d THEN Unused(c.block[b])
                                            ELSE c.block[b]
    BY <1>12
  <2>3. p[i] \in S
    BY <2>2 DEF S, Good
  <2>4. p[i + 1] = Turn(i + 1, p[i])
    BY <1>t, <2>1, <2>3
  <2>5. CASE c.block[i].dev = d
    <3>1. p[i + 1] = Purged(p[i], i, c.block[i])
      BY <2>1, <2>4, <2>5 DEF Turn
    <3>2. ~p[i].block[i].dirty
      BY <2>1, <2>2, <2>5
    <3>3. /\ Good(p[i + 1]) /\ p[i + 1].super = p[i].super /\ View(p[i + 1]) = View(p[i])
          /\ p[i + 1].block[i] = Unused(c.block[i])
          /\ \A x \in Slots : x # i => p[i + 1].block[x] = p[i].block[x]
      BY <1>2, <2>1, <2>2, <3>1, <3>2, PurgedFields
    <3>4. ASSUME NEW b \in Slots
          PROVE  p[i + 1].block[b] = IF b < i + 1 /\ c.block[b].dev = d THEN Unused(c.block[b])
                                     ELSE c.block[b]
      <4>1. CASE b = i
        BY <2>1, <2>5, <3>3, <4>1
      <4>2. CASE b # i
        <5>1. b < i + 1 <=> b < i
          BY <2>1, <4>2
        <5> QED
          BY <2>2, <3>3, <4>2, <5>1
      <4> QED
        BY <4>1, <4>2
    <3> QED
      BY <2>1, <2>2, <3>3, <3>4
  <2>6. CASE c.block[i].dev # d
    <3>1. p[i + 1] = p[i]
      BY <2>1, <2>4, <2>6 DEF Turn
    <3>2. \A b \in Slots : b < i + 1 /\ c.block[b].dev = d <=> b < i /\ c.block[b].dev = d
      BY <2>1, <2>6
    <3> QED
      BY <2>1, <2>2, <3>1, <3>2
  <2> QED
    BY <2>5, <2>6
<1> HIDE DEF A
<1>13. NumBlocks \in A
  <2>1. \A i \in 0 .. NumBlocks - 1 : i \in A => i + 1 \in A
    BY <1>12
  <2>2. \A i \in 0 .. NumBlocks : i \in A
    BY <1>11, <2>1, UpTo
  <2> QED
    BY <2>2
<1> DEFINE e == p[NumBlocks]
<1>14. /\ Good(e) /\ View(e) = View(c) /\ e.super = c.super
       /\ \A b \in Slots : e.block[b] = IF c.block[b].dev = d THEN Unused(c.block[b])
                                        ELSE c.block[b]
  BY <1>13 DEF A
<1> HIDE DEF e
<1>15. ASSUME NEW b \in Slots PROVE e.block[b].count = 0 /\ e.block[b].dev # d
  <2>1. Unused(c.block[b]).dev = NO_DEV /\ Unused(c.block[b]).count = 0
    BY <1>2, UnusedFields
  <2>2. NO_DEV # d
    BY BlockCacheAssumption
  <2> QED
    BY <1>14, <2>1, <2>2 DEF AllFree
<1>16. AllFree(e)
  BY <1>15 DEF AllFree
<1> QED
  BY <1>1, <1>14, <1>15, <1>16 DEF e

-----------------------------------------------------------------------------
(* The cache is always good. *)

\* The remainders of block_init() are the neighbours in the ring 0 .. NumBlocks - 1.
LEMMA Remainder ==
  /\ \A b \in Slots : (b + 1) % NumBlocks = Succ(b)
  /\ \A b \in Slots : (Succ(b) + NumBlocks - 1) % NumBlocks = b
  /\ \A b \in Slots : (b + NumBlocks - 1) % NumBlocks \in Slots
<1> USE SlotsFacts
<1>1. ASSUME NEW n \in Nat \ {0}, NEW x \in 0 .. n - 1
      PROVE  x % n = x /\ (x + n) % n = x
  OBVIOUS
<1>m. \A x \in Slots : x % NumBlocks = x /\ (x + NumBlocks) % NumBlocks = x
  BY <1>1 DEF Slots
<1>2. ASSUME NEW b \in Slots
      PROVE  /\ (b + 1) % NumBlocks = Succ(b)
             /\ (Succ(b) + NumBlocks - 1) % NumBlocks = b
             /\ (b + NumBlocks - 1) % NumBlocks \in Slots
  <2>1. CASE b = NumBlocks - 1
    <3>1. Succ(b) = 0 /\ b + 1 = 0 + NumBlocks /\ Succ(b) + NumBlocks - 1 = b
      BY <2>1 DEF Succ
    <3>2. b = 0 => b + NumBlocks - 1 = b
      BY <2>1
    <3>3. b # 0 => b + NumBlocks - 1 = (b - 1) + NumBlocks /\ b - 1 \in Slots
      BY <2>1
    <3> QED
      BY <1>m, <3>1, <3>2, <3>3
  <2>2. CASE b # NumBlocks - 1
    <3>1. Succ(b) = b + 1 /\ b + 1 \in Slots /\ Succ(b) + NumBlocks - 1 = b + NumBlocks
      BY <2>2 DEF Succ
    <3>2. b = 0 => b + NumBlocks - 1 = NumBlocks - 1
      BY <2>2
    <3>3. b # 0 => b + NumBlocks - 1 = (b - 1) + NumBlocks /\ b - 1 \in Slots
      BY <2>2
    <3>4. (b + 1) % NumBlocks = Succ(b) /\ (Succ(b) + NumBlocks - 1) % NumBlocks = b
      BY <1>m, <3>1
    <3>5. (b + NumBlocks - 1) % NumBlocks \in Slots
      BY <1>m, <3>2, <3>3
    <3> QED
      BY <3>4, <3>5
  <2> QED
    BY <2>1, <2>2
<1> QED
  BY <1>2

\* block_init() and super_init() leave a good cache.
LEMMA InitGood == CacheInit => Good(cache)
<1> SUFFICES ASSUME CacheInit PROVE Good(cache)
  OBVIOUS
<1> USE SlotsFacts
<1>1. PICK v \in Values :
        cache = [block  |-> [b \in Slots |-> [dev |-> NO_DEV, blk |-> 0, count |-> 0,
                                              dirty |-> FALSE, data |-> v]],
                 prev   |-> [b \in Slots |-> (b + NumBlocks - 1) % NumBlocks],
                 next   |-> [b \in Slots |-> (b + 1) % NumBlocks],
                 lru    |-> 0,
                 super  |-> [x \in Devs |-> "unmounted"],
                 disk   |-> [a \in Addrs |-> v]]
  BY DEF CacheInit
<1>2. cache \in Caches
  <2>1. \A b \in Slots : (b + 1) % NumBlocks \in Slots /\ (b + NumBlocks - 1) % NumBlocks \in Slots
    <3>1. \A b \in Slots : Succ(b) \in Slots
      BY DEF Succ
    <3> QED
      BY <3>1, Remainder
  <2>2. [b \in Slots |-> (b + 1) % NumBlocks] \in [Slots -> Slots]
    BY <2>1
  <2>3. [b \in Slots |-> (b + NumBlocks - 1) % NumBlocks] \in [Slots -> Slots]
    BY <2>1
  <2>4. [dev |-> NO_DEV, blk |-> 0, count |-> 0, dirty |-> FALSE, data |-> v] \in Blocks
    BY DEF Blocks
  <2>5. /\ [x \in Devs |-> "unmounted"] \in [Devs -> {"unmounted", "dirty", "clean"}]
        /\ [a \in Addrs |-> v] \in [Addrs -> Values]
    OBVIOUS
  <2> HIDE DEF Blocks
  <2>6. [b \in Slots |-> [dev |-> NO_DEV, blk |-> 0, count |-> 0, dirty |-> FALSE, data |-> v]]
          \in [Slots -> Blocks]
    BY <2>4
  <2> QED
    BY <1>1, <2>2, <2>3, <2>5, <2>6 DEF Caches
<1>3. IsRing(cache.lru, cache.next, cache.prev)
  <2> DEFINE o == [i \in Slots |-> i]
  <2>1. \A i \in Slots : Succ(i) \in Slots
    BY DEF Succ
  <2>2. \A b \in Slots : cache.next[b] = Succ(b) /\ cache.prev[Succ(b)] = b
    BY <1>1, <2>1, Remainder
  <2>3. cache.lru = 0
    BY <1>1
  <2>4. RingBy(o, cache.lru, cache.next, cache.prev)
    BY <2>1, <2>2, <2>3 DEF RingBy
  <2>5. cache.next \in [Slots -> Slots] /\ cache.prev \in [Slots -> Slots]
    BY <1>2 DEF Caches
  <2> QED
    BY <2>4, <2>5 DEF IsRing
<1>4. \A b \in Slots : /\ cache.block[b].dev \notin Devs /\ cache.block[b].count = 0
                       /\ cache.block[b].dirty = FALSE
  BY <1>1, BlockCacheAssumption
<1>5. Distinct(cache) /\ \A b \in Slots : BlockOk(cache, b)
  BY <1>4 DEF Distinct, BlockOk, SlotOk
<1> QED
  BY <1>2, <1>3, <1>5 DEF Good

\* What each action does: the cache stays good, and Disk takes a step.
Kept == Good(cache') /\ (Promise!Get \/ Promise!Write \/ Promise!Other)

\* What the refinement mapping gives for the cache, before and after a step.
LEMMA Seen == /\ Contents = View(cache)
              /\ Contents' = View(cache')
BY DEF Contents, View, Holding

\* block_get() of a block returns what Disk has there.
LEMMA GetStep ==
  ASSUME Good(cache), NEW a \in Addrs, Get(a)
  PROVE  Kept
<1>1. Got(cache, a, Slot(cache, a), cache')
  BY BlockGet DEF Get, Idle, AllFree
<1>2. /\ call'.op = "get" /\ call'.at = {a}
      /\ call'.val = cache'.block[Slot(cache, a)].data
  BY DEF Get
<1>3. /\ Good(cache') /\ View(cache') = View(cache)
      /\ Slot(cache, a) \in Slots /\ Has(cache', Slot(cache, a), a)
  BY <1>1 DEF Got
<1>4. View(cache')[a] = cache'.block[Slot(cache, a)].data
  BY <1>3, ViewShows DEF Shows
<1>5. Promise!Get
  BY <1>2, <1>3, <1>4, Seen DEF Promise!Get
<1> QED
  BY <1>3, <1>5 DEF Kept

\* A change through a slot in use is a write of its block.
LEMMA ModifyStep ==
  ASSUME Good(cache), NEW b \in Slots, NEW v \in Values, Modify(b, v)
  PROVE  Kept
<1>1. cache.block[b] \in Blocks /\ cache.block[b].count # 0
  BY DEF Good, Caches, Modify, Blocks
<1>2. cache.block[b].dev \in Devs
  BY <1>1 DEF Good, BlockOk, SlotOk
<1>3. cache' = AssignSlot(cache, b, v)
  <2> DEFINE t1 == [cache.block EXCEPT ![b] = [@ EXCEPT !.data = v]]
             t2 == [t1 EXCEPT ![b] = [@ EXCEPT !.dirty = TRUE]]
             t  == [cache.block[b] EXCEPT !.data = v, !.dirty = TRUE]
  <2>1. cache \in Caches /\ cache.block \in [Slots -> Blocks]
    BY DEF Good, Caches
  <2>2. t2 = [cache.block EXCEPT ![b] = t]
    <3>1. t1[b] = [cache.block[b] EXCEPT !.data = v]
      BY <2>1
    <3>2. t2 = [t1 EXCEPT ![b] = t]
      BY <2>1, <3>1
    <3> HIDE DEF t
    <3> QED
      BY <2>1, <3>2
  <2>3. cache' = [cache EXCEPT !.block = t2]
    BY <2>1 DEF Caches, Modify
  <2> HIDE DEF t2, t
  <2> QED
    BY <2>2, <2>3 DEF ChangeSlot, AssignSlot, t
<1>4. cache.super[cache.block[b].dev] # "unmounted"
  BY DEF Modify
<1> DEFINE at == <<cache.block[b].dev, cache.block[b].blk>>
<1>5. /\ Good(cache') /\ View(cache') = [View(cache) EXCEPT ![at] = v] /\ at \in Addrs
  BY <1>2, <1>3, <1>4, Assign
<1>6. call'.op = "write" /\ call'.at = {at} /\ call'.val = v
  BY DEF Modify
<1> HIDE DEF at
<1>7. View(cache) \in [Addrs -> Values]
  BY ViewShows DEF Shows
<1>8. View(cache') = [a \in Addrs |-> IF a \in {at} THEN v ELSE View(cache)[a]]
  BY <1>5, <1>7
<1>9. Promise!Write
  BY <1>6, <1>8, Seen DEF Promise!Write
<1> QED
  BY <1>5, <1>9 DEF Kept

\* block_put() changes no contents, whether or not it writes the block.
LEMMA PutStep ==
  ASSUME Good(cache), NEW b \in Slots, NEW important \in BOOLEAN, Put(b, important)
  PROVE  Kept
<1>1. cache.block[b].count # 0
  BY DEF Put
<1>2. PutFrom(cache, b, cache')
  BY <1>1, BlockPut DEF Put
<1>3. Promise!Other
  BY <1>2, Seen DEF PutFrom, Put, Promise!Other
<1> QED
  BY <1>2, <1>3 DEF Kept, PutFrom

\* mount() reads the superblock and changes no contents.
LEMMA MountStep ==
  ASSUME Good(cache), NEW d \in Devs, Mount(d)
  PROVE  Kept
<1> DEFINE a == <<d, SUPER_BLOCK>>
           b == Slot(cache, a)
           g == block_get(cache, a)
           c == block_put(g, b, TRUE)
<1>1. a \in Addrs
  BY BlockCacheAssumption DEF Addrs
<1>2. cache' = WithSuper(c, d, "dirty")
  BY DEF Mount, WithSuper
<1> HIDE DEF a
<1>3. Got(cache, a, b, g)
  BY <1>1, BlockGet DEF Mount, Idle, AllFree
<1> HIDE DEF b, g
<1>4. PutFrom(g, b, c)
  <2>1. TRUE \in BOOLEAN /\ g.block[b].count # 0 /\ Good(g) /\ b \in Slots
    BY <1>3 DEF Got
  <2> QED
    BY <2>1, BlockPut
<1>5. Good(c) /\ View(c) = View(cache)
  BY <1>3, <1>4 DEF Got, PutFrom
<1> HIDE DEF c
<1>6. Good(cache') /\ View(cache') = View(cache)
  <2>1. PICK m \in {"unmounted", "dirty", "clean"} : m = "dirty" /\ m # "unmounted"
    OBVIOUS
  <2> QED
    BY <1>2, <1>5, <2>1, SetSuper
<1>7. Promise!Other
  BY <1>6, Seen DEF Promise!Other, Mount
<1> QED
  BY <1>6, <1>7 DEF Kept

\* umount() writes the superblock and forgets only clean blocks.
LEMMA UmountStep ==
  ASSUME Good(cache), NEW d \in Devs, NEW v \in Values, Umount(d, v)
  PROVE  Kept
<1> DEFINE a == <<d, SUPER_BLOCK>>
           c == WithSuper(cache, d, "dirty")
           w == super_write(c, d, v)
           x == WriteBack(w, {d})
           y == dev_purge(x, d)
<1>1. cache' = WithSuper(y, d, "unmounted")
  BY DEF Umount, WithSuper
<1>2. Good(c) /\ View(c) = View(cache) /\ c.block = cache.block /\ c.super[d] = "dirty"
  <2>1. PICK m \in {"unmounted", "dirty", "clean"} : m = "dirty" /\ m # "unmounted"
    OBVIOUS
  <2> QED
    BY <2>1, SetSuper
<1>3. AllFree(c)
  BY <1>2 DEF AllFree, Umount, Idle
<1> HIDE DEF c
<1>4. Good(w) /\ AllFree(w) /\ View(w) = [View(c) EXCEPT ![a] = v]
  BY <1>2, <1>3, SuperWrite
<1> HIDE DEF w
<1>5. /\ Cleaned(w, x)
      /\ \A b \in Slots : w.block[b].dev \in {d} => ~x.block[b].dirty
  BY <1>4, WriteBackKeeps
<1> HIDE DEF x
<1>6. /\ Good(x) /\ View(x) = View(w) /\ AllFree(x)
      /\ \A b \in Slots : x.block[b].dev = d => ~x.block[b].dirty
  BY <1>4, <1>5 DEF Cleaned, AllFree
<1>7. Good(y) /\ View(y) = View(x) /\ \A b \in Slots : y.block[b].dev # d
  BY <1>6, PurgeKeeps
<1> HIDE DEF y
<1>8. Good(cache') /\ View(cache') = View(y)
  <2>1. PICK m \in {"unmounted", "dirty", "clean"} : m = "unmounted"
    OBVIOUS
  <2>2. Good(y) /\ \A b \in Slots : y.block[b].dev = d => ~y.block[b].dirty
    BY <1>7
  <2>3. Good(WithSuper(y, d, m)) /\ View(WithSuper(y, d, m)) = View(y)
    BY <2>2, SetSuper
  <2> QED
    BY <1>1, <2>1, <2>3
<1>9. call'.op = "write" /\ call'.at = {a} /\ call'.val = v
  BY DEF Umount
<1>10. View(cache) \in [Addrs -> Values]
  BY ViewShows DEF Shows
<1>11. a \in Addrs
  BY BlockCacheAssumption DEF Addrs
<1> HIDE DEF a
<1>12. View(cache') = [View(cache) EXCEPT ![a] = v]
  BY <1>2, <1>4, <1>6, <1>7, <1>8
<1>13. View(cache') = [z \in Addrs |-> IF z \in {a} THEN v ELSE View(cache)[z]]
  BY <1>10, <1>11, <1>12
<1>14. Promise!Write
  BY <1>9, <1>13, Seen DEF Promise!Write
<1> QED
  BY <1>8, <1>14 DEF Kept

\* After sync every block is clean.
LEMMA SyncStep ==
  ASSUME Good(cache), NEW v \in Values, Sync(v)
  PROVE  Kept /\ \A b \in Slots : ~cache'.block[b].dirty
<1> DEFINE w == WriteSupers(cache, v)
           e == WriteBack(w.c, Devs)
<1>1. cache' = e /\ call' = [op |-> "write", at |-> w.at, val |-> v]
  BY DEF Sync
<1>2. cache \in Resting
  BY DEF Resting, Good, AllFree, Sync, Idle
<1>3. /\ w \in [c : Resting, at : SUBSET Addrs]
      /\ View(w.c) = [a \in Addrs |-> IF a \in w.at THEN v ELSE View(cache)[a]]
  BY <1>2, WriteSupersKeeps
<1> HIDE DEF w
<1>4. Good(w.c)
  BY <1>3 DEF Resting
<1>5. Cleaned(w.c, e) /\ \A b \in Slots : w.c.block[b].dev \in Devs => ~e.block[b].dirty
  BY <1>4, WriteBackKeeps
<1> HIDE DEF e
<1>6. Good(e) /\ View(e) = View(w.c)
  BY <1>5 DEF Cleaned
<1>7. ASSUME NEW b \in Slots, e.block[b].dirty PROVE FALSE
  <2>1. e.block[b].dev \in Devs
    BY <1>6, <1>7 DEF Good, BlockOk, SlotOk
  <2> QED
    BY <1>5, <1>7, <2>1 DEF Cleaned
<1>8. call'.op = "write" /\ call'.at = w.at /\ call'.val = v
  BY <1>1
<1>9. Promise!Write
  BY <1>1, <1>3, <1>6, <1>8, Seen DEF Promise!Write
<1> QED
  BY <1>1, <1>6, <1>7, <1>9 DEF Kept

\* No action breaks the invariant or the promise.
LEMMA NextKept ==
  ASSUME Good(cache), CacheNext
  PROVE  Kept
<1>1. CASE \E d \in Devs, n \in Blks \ {SUPER_BLOCK} : Get(<<d, n>>)
  <2>1. PICK d \in Devs, n \in Blks : Get(<<d, n>>)
    BY <1>1
  <2>2. <<d, n>> \in Addrs
    BY DEF Addrs
  <2> QED
    BY <2>1, <2>2, GetStep
<1>2. CASE \E b \in Slots, v \in Values : Modify(b, v)
  BY <1>2, ModifyStep
<1>3. CASE \E b \in Slots, important \in BOOLEAN : Put(b, important)
  BY <1>3, PutStep
<1>4. CASE \E d \in Devs : Mount(d)
  BY <1>4, MountStep
<1>5. CASE \E d \in Devs, v \in Values : Umount(d, v)
  BY <1>5, UmountStep
<1>6. CASE \E v \in Values : Sync(v)
  BY <1>6, SyncStep
<1> QED
  BY <1>1, <1>2, <1>3, <1>4, <1>5, <1>6 DEF CacheNext

\* The inductive invariant.
LEMMA AlwaysGood == CacheSpec => []Good(cache)
<1>1. Good(cache) /\ [CacheNext]_cacheVars => Good(cache)'
  <2>1. CASE CacheNext
    BY <2>1, NextKept DEF Kept
  <2>2. CASE UNCHANGED cacheVars
    BY <2>2 DEF cacheVars
  <2> QED
    BY <2>1, <2>2
<1> QED
  BY <1>1, InitGood, PTL DEF CacheSpec

-----------------------------------------------------------------------------
(* What the runs check *)

\* recently_used() and dev_purge() keep all slots in one ring, whichever of lru, its
\* neighbours and the slot are the same.
THEOREM RingCorrect == CacheSpec => []RingOfAll
<1>1. Good(cache) => RingOfAll
  <2> SUFFICES ASSUME Good(cache) PROVE RingOfAll
    OBVIOUS
  <2> DEFINE o == Order(cache)
  <2>1. RingBy(o, cache.lru, cache.next, cache.prev)
    BY OrderIsRing DEF Good
  <2> HIDE DEF o
  <2>2. {o[i] : i \in Slots} = Slots
    BY <2>1 DEF RingBy
  <2>3. ASSUME NEW b \in Slots PROVE cache.prev[cache.next[b]] = b
    BY <2>1 DEF RingBy
  <2> QED
    BY <2>2, <2>3 DEF RingOfAll, o
<1> QED
  BY <1>1, AlwaysGood, PTL

\* block_get() never makes a second copy of a block, so that what is written through one
\* is seen by all.
THEOREM OneCopyCorrect == CacheSpec => []OneCopy
<1>1. Good(cache) => OneCopy
  <2> SUFFICES ASSUME Good(cache), NEW a \in Addrs PROVE Cardinality(Holding(cache, a)) <= 1
    BY DEF OneCopy
  <2>1. \A x, y \in Holding(cache, a) : x = y
    <3> SUFFICES ASSUME NEW x \in Holding(cache, a), NEW y \in Holding(cache, a) PROVE x = y
      OBVIOUS
    <3>1. x \in Slots /\ y \in Slots /\ Has(cache, x, a) /\ Has(cache, y, a) /\ a[1] \in Devs
      BY HoldingHas DEF Addrs
    <3> QED
      BY <3>1 DEF Good, Distinct, Has
  <2>2. CASE Holding(cache, a) = {}
    BY <2>2, FS_EmptySet
  <2>3. CASE Holding(cache, a) # {}
    <3>1. PICK x \in Holding(cache, a) : Holding(cache, a) = {x}
      BY <2>1, <2>3
    <3>2. Cardinality({x}) = 1
      BY FS_Singleton
    <3> QED
      BY <3>1, <3>2
  <2> QED
    BY <2>2, <2>3
<1> QED
  BY <1>1, AlwaysGood, PTL

\* umount() leaves no dirty block of its device behind.
THEOREM DirtyCorrect == CacheSpec => []DirtyMounted
<1>1. Good(cache) => DirtyMounted
  BY DEF Good, BlockOk, SlotOk, DirtyMounted
<1> QED
  BY <1>1, AlwaysGood, PTL

\* do_fs_sync() writes the blocks after the superblocks, which dirty blocks of their own.
THEOREM SyncCorrect == CacheSpec => SyncWritesAll
<1>1. Good(cache) /\ [CacheNext]_cacheVars
      => [(\E v \in Values : Sync(v)) => \A b \in Slots : ~cache'.block[b].dirty]_cacheVars
  BY SyncStep
<1> QED
  BY <1>1, AlwaysGood, PTL DEF CacheSpec, SyncWritesAll

\* The cache implements Disk, call by call.
THEOREM CacheImplementsDisk == CacheSpec => ImplementsDisk
<1>1. CacheInit => Promise!Init
  <2> SUFFICES ASSUME CacheInit PROVE Promise!Init
    OBVIOUS
  <2>1. View(cache) \in [Addrs -> Values]
    BY InitGood, ViewShows DEF Shows
  <2> QED
    BY <2>1, Seen DEF Promise!Init
<1>2. Good(cache) /\ [CacheNext]_cacheVars
      => [Promise!Get \/ Promise!Write \/ Promise!Other]_(Promise!diskVars)
  <2>1. CASE CacheNext
    BY <2>1, NextKept DEF Kept
  <2>2. CASE UNCHANGED cacheVars
    <3>1. Contents' = Contents
      BY <2>2, Seen DEF cacheVars
    <3> QED
      BY <2>2, <3>1 DEF cacheVars, Promise!diskVars
  <2> QED
    BY <2>1, <2>2
<1> QED
  BY <1>1, <1>2, AlwaysGood, PTL DEF CacheSpec, ImplementsDisk, Promise!Spec
=============================================================================
