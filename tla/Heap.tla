-------------------------------- MODULE Heap --------------------------------
(***************************************************************************)
(* The kernel heap (src/kernel/malloc.c): a ring of slabs, each with a     *)
(* header before it, in pages that pg_next_addr() places.  Every call runs *)
(* with interrupts locked, so it is one step.  Addresses are counted in    *)
(* units of which a page has PG_SIZE and a header HEADER.                  *)
(***************************************************************************)
EXTENDS Paging

CONSTANTS
  PG_SIZE,
  HEADER,    \* sizeof(slab_t)
  Sizes      \* what is asked for

ASSUME HeapAssumption ==
  /\ PG_SIZE \in Nat /\ HEADER \in Nat \ {0} /\ HEADER < PG_SIZE
  /\ Sizes \subseteq Nat \ {0}

VARIABLES
  heap,  \* heap.slab[a]: the slab at address a; heap.pages: the heap's pages
  live   \* history: <<address, size>> of what has been allocated and not been freed

heapVars == <<heap, live>>

SLAB_FIRST   == KernelHeap * PG_SIZE
SLAB_LAST(h) == h.slab[SLAB_FIRST].prev
NextPage(pages) == pg_next_addr(0 .. sys_pgs - 1 \cup pages, KernelHeap, TRUE)

\* heap_init()
HeapInit ==
  /\ heap = [pages |-> {KernelHeap},
             slab  |-> [a \in {SLAB_FIRST} |-> [used |-> FALSE, size |-> PG_SIZE - HEADER,
                                                prev |-> a, next |-> a]]]
  /\ live = {}

WithSlab(h, a, s) == [h EXCEPT !.slab = [b \in DOMAIN @ \cup {a} |-> IF b = a THEN s ELSE @[b]]]

common_sbrk_forgets_header(h, increment) ==
  LET n   == (increment + PG_SIZE - 1) \div PG_SIZE
      p[j \in 0 .. n] == IF j = 0 THEN h.pages ELSE LET q == p[j - 1] IN q \cup {NextPage(q)}
      old == NextPage(h.pages) * PG_SIZE
      new == WithSlab(h, old, [used |-> FALSE, size |-> n * PG_SIZE - HEADER,
                               prev |-> SLAB_LAST(h), next |-> SLAB_FIRST])
  IN [new EXCEPT !.pages = p[n], !.slab[SLAB_LAST(h)].next = old, !.slab[SLAB_FIRST].prev = old]

\* common_sbrk(): a new last slab, at the address that was to be mapped next.
common_sbrk(h, increment) ==
  LET n   == (increment + HEADER + PG_SIZE - 1) \div PG_SIZE
      p[j \in 0 .. n] == IF j = 0 THEN h.pages ELSE LET q == p[j - 1] IN q \cup {NextPage(q)}
      old == NextPage(h.pages) * PG_SIZE
      new == WithSlab(h, old, [used |-> FALSE, size |-> n * PG_SIZE - HEADER,
                               prev |-> SLAB_LAST(h), next |-> SLAB_FIRST])
  IN [new EXCEPT !.pages = p[n], !.slab[SLAB_LAST(h)].next = old, !.slab[SLAB_FIRST].prev = old]

split_loses_header(h, a, size) ==
  LET b == a + HEADER + size
      s == h.slab[a]
  IN [WithSlab(h, b, [used |-> FALSE, size |-> s.size - size, prev |-> a, next |-> s.next])
        EXCEPT !.slab[a].size = size, !.slab[s.next].prev = b, !.slab[a].next = b]

split(h, a, size) ==
  LET b == a + HEADER + size
      s == h.slab[a]
  IN [WithSlab(h, b, [used |-> FALSE, size |-> s.size - (size + HEADER), prev |-> a, next |-> s.next])
        EXCEPT !.slab[a].size = size, !.slab[s.next].prev = b, !.slab[a].next = b]

\* merge(): with the next slab.
merge(h, a) ==
  LET b == h.slab[a].next
      c == h.slab[b].next
      m == [h EXCEPT !.slab[a].size = @ + HEADER + h.slab[b].size,
                     !.slab[a].next = c, !.slab[c].prev = a]
  IN [m EXCEPT !.slab = [x \in DOMAIN @ \ {b} |-> @[x]]]

Fits_ignores_used(h, size) == {a \in DOMAIN h.slab : h.slab[a].size >= size}
Fits(h, size) == {a \in DOMAIN h.slab : ~h.slab[a].used /\ h.slab[a].size >= size}

\* The slab common_malloc() takes, and the heap with it in use: the first that fits,
\* which is the lowest as long as the heap has no gap.
Take(h, size) ==
  LET a == Min(Fits(h, size))
      s == IF h.slab[a].size > size + HEADER THEN split(h, a, size) ELSE h
  IN [at |-> a, h |-> [s EXCEPT !.slab[a].used = TRUE]]

\* The heap in which common_malloc() finds it: at the last slab that does not fit,
\* common_sbrk() adds one.
Grow(h, size) == IF Fits(h, size) # {} THEN h ELSE common_sbrk(h, size)

\* common_free()
common_free(h, a) ==
  LET u == [h EXCEPT !.slab[a].used = FALSE]
      b == u.slab[a].next
      m == IF b # SLAB_FIRST /\ ~u.slab[b].used THEN merge(u, a) ELSE u
      p == m.slab[a].prev
  IN IF p # SLAB_LAST(m) /\ ~m.slab[p].used THEN merge(m, p) ELSE m

-----------------------------------------------------------------------------

\* From the second entry of the heap's second table on, pg_next_addr() leaves gaps and
\* slabs of several pages are not mapped where they should be: the model stops before.
NoGap(h) == h.pages = KernelHeap .. KernelHeap + Cardinality(h.pages) - 1

\* kmalloc()
kmalloc(size) ==
  LET g == Grow(heap, size) IN
  /\ NoGap(g)
  /\ heap' = Take(g, size).h
  /\ live' = live \cup {<<Take(g, size).at, size>>}

\* kfree() of what kmalloc() has returned.
kfree(x) == heap' = common_free(heap, x[1]) /\ live' = live \ {x}

HeapNext == (\E size \in Sizes : kmalloc(size)) \/ (\E x \in live : kfree(x))

HeapSpec == HeapInit /\ [][HeapNext]_heapVars

-----------------------------------------------------------------------------
(* Properties *)

End(a) == a + HEADER + heap.slab[a].size
Break  == (KernelHeap + Cardinality(heap.pages)) * PG_SIZE

\* The slabs tile the heap's pages, in the order of the ring: whatever was split, merged
\* and added, the sizes add up, the links agree with the addresses, and freeing has left
\* no two free slabs side by side.
HeapTiled ==
  \A a \in DOMAIN heap.slab :
    /\ heap.slab[heap.slab[a].next].prev = a
    /\ heap.slab[a].next = IF End(a) = Break THEN SLAB_FIRST ELSE End(a)
    /\ heap.slab[a].next # SLAB_FIRST => heap.slab[a].used \/ heap.slab[heap.slab[a].next].used

\* What has been allocated stays allocated, in a slab of its own that is large enough.
PointersKept ==
  /\ {a \in DOMAIN heap.slab : heap.slab[a].used} = {x[1] : x \in live}
  /\ \A x \in live : heap.slab[x[1]].size >= x[2]
  /\ \A x, y \in live : x[1] = y[1] => x = y

\* common_malloc() ends: a slab that common_sbrk() adds for a size fits it.
MallocEnds == \A size \in Sizes : Fits(Grow(heap, size), size) # {}
=============================================================================
