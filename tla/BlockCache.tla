----------------------------- MODULE BlockCache -----------------------------
(***************************************************************************)
(* The file system's block cache (src/fs/block.c): a table of blocks that  *)
(* is also a ring from the least to the most recently used one, with the   *)
(* superblock table as far as the cache and it depend on each other        *)
(* (src/fs/super.c, mount.c, misc.c): writing a block to its device makes  *)
(* the device's superblock dirty, and writing a superblock goes through    *)
(* the cache.                                                              *)
(*                                                                         *)
(* The file system is one process and waits for every transfer, so a call  *)
(* is one step.  A call is a function from a state of the cache to the     *)
(* next; the whole state is one record.                                    *)
(***************************************************************************)
EXTENDS Naturals, FiniteSets

CONSTANTS
  NumBlocks,   \* NUM_BLOCKS
  Devs, Blks,  \* the devices and the numbers of their blocks
  SUPER_BLOCK, \* the block that holds the superblock
  Values,      \* what a block can hold
  NO_DEV,
  ROBUST       \* config.h: SLOPPY, SANE or PARANOID

ASSUME BlockCacheAssumption ==
  /\ NumBlocks \in Nat \ {0}
  /\ NO_DEV \notin Devs
  /\ IsFiniteSet(Devs)
  /\ SUPER_BLOCK \in Blks
  /\ Values # {}
  /\ ROBUST \in {"SLOPPY", "SANE", "PARANOID"}

Slots == 0 .. NumBlocks - 1
Addrs == Devs \X Blks

VARIABLES
  cache,  \* the cache, see CacheInit
  call    \* history: the call that has just returned

cacheVars == <<cache, call>>

\* block_init() and super_init().  disk is external: what is on the devices.
CacheInit ==
  /\ \E v \in Values :
       cache = [block  |-> [b \in Slots |-> [dev |-> NO_DEV, blk |-> 0, count |-> 0,
                                             dirty |-> FALSE, data |-> v]],
                prev   |-> [b \in Slots |-> (b + NumBlocks - 1) % NumBlocks],
                next   |-> [b \in Slots |-> (b + 1) % NumBlocks],
                lru    |-> 0,
                super  |-> [x \in Devs |-> "unmounted"],
                disk   |-> [a \in Addrs |-> v]]
  /\ call = [op |-> "other"]

-----------------------------------------------------------------------------
(* The ring. *)

\* The slots from the least to the most recently used one.
Order(c) ==
  LET o[i \in Slots] == IF i = 0 THEN c.lru ELSE c.next[o[i - 1]] IN o

\* recently_used(): unlink the slot, then link it in before lru.
recently_used_keeps_lru(c, b, most) ==
  LET n == [c.next EXCEPT ![c.prev[b]] = c.next[b]]
      p == [c.prev EXCEPT ![c.next[b]] = c.prev[b]]
      l == c.lru
  IN [c EXCEPT !.prev = [p EXCEPT ![b] = p[l], ![l] = b],
               !.next = [n EXCEPT ![b] = l, ![p[l]] = b],
               !.lru  = IF most THEN l ELSE b]

recently_used(c, b, most) ==
  LET l == IF b = c.lru THEN c.next[b] ELSE c.lru
      n == [c.next EXCEPT ![c.prev[b]] = c.next[b]]
      p == [c.prev EXCEPT ![c.next[b]] = c.prev[b]]
  IN [c EXCEPT !.prev = [p EXCEPT ![b] = p[l], ![l] = b],
               !.next = [n EXCEPT ![b] = l, ![p[l]] = b],
               !.lru  = IF most THEN l ELSE b]

-----------------------------------------------------------------------------
(* Transfers.  They succeed here: a driver's error is ignored by block_rw,    *)
(* which marks the block clean whatever happened.                             *)

block_rw_read_dirties(c, b, read) ==
  LET s == c.block[b] IN
  IF ~s.dirty THEN c
  ELSE [c EXCEPT
         !.block[b].dirty = read,
         !.block[b].data = IF read THEN c.disk[<<s.dev, s.blk>>] ELSE @,
         !.disk  = IF ~read THEN [@ EXCEPT ![<<s.dev, s.blk>>] = s.data] ELSE @,
         !.super = [d \in Devs |-> IF ~read /\ d = s.dev /\ @[d] # "unmounted"
                                   THEN "dirty" ELSE @[d]]]

\* block_rw(): a block that is not dirty is not transferred.  A write makes the
\* device's superblock dirty, if super_get() finds it.
block_rw(c, b, read) ==
  LET s == c.block[b] IN
  IF ~s.dirty THEN c
  ELSE [c EXCEPT
         !.block[b].dirty = FALSE,
         !.block[b].data = IF read THEN c.disk[<<s.dev, s.blk>>] ELSE @,
         !.disk  = IF ~read THEN [@ EXCEPT ![<<s.dev, s.blk>>] = s.data] ELSE @,
         !.super = [d \in Devs |-> IF ~read /\ d = s.dev /\ @[d] # "unmounted"
                                   THEN "dirty" ELSE @[d]]]

\* block_rw(WRITE) for each slot whose device is in D.
WriteBack(c, D) ==
  LET w[b \in 0 .. NumBlocks] ==
        IF b = 0 THEN c
        ELSE IF c.block[b - 1].dev \in D THEN block_rw(w[b - 1], b - 1, FALSE)
        ELSE w[b - 1]
  IN w[NumBlocks]

\* dev_purge(): the device's slots become free and least recently used.
dev_purge(c, dev) ==
  LET unused(b) == [c.block[b] EXCEPT !.dev = NO_DEV, !.blk = 0, !.count = 0, !.dirty = FALSE]
      p[b \in 0 .. NumBlocks] ==
        IF b = 0 THEN c
        ELSE IF c.block[b - 1].dev = dev
        THEN recently_used([p[b - 1] EXCEPT !.block[b - 1] = unused(b - 1)], b - 1, FALSE)
        ELSE p[b - 1]
  IN p[NumBlocks]

-----------------------------------------------------------------------------
(* Getting and putting a block. *)

Holding(c, a) == {b \in Slots : <<c.block[b].dev, c.block[b].blk>> = a}
Free(c)       == {b \in Slots : c.block[b].count = 0}

\* The slot block_get() returns: the first that holds the block in a search from
\* the most recently used one, or else the least recently used free one.
Slot(c, a) ==
  LET o     == Order(c)
      At(S) == {i \in Slots : o[i] \in S}
  IN IF Holding(c, a) # {}
     THEN o[CHOOSE i \in At(Holding(c, a)) : \A j \in At(Holding(c, a)) : j <= i]
     ELSE o[CHOOSE i \in At(Free(c)) : \A j \in At(Free(c)) : i <= j]

block_get_drops_dirty(c, a) ==
  LET b    == Slot(c, a)
      mine == [c.block[b] EXCEPT !.dev = a[1], !.blk = a[2], !.count = 1, !.dirty = TRUE]
  IN IF Holding(c, a) # {}
     THEN recently_used([c EXCEPT !.block[b].count = @ + 1], b, TRUE)
     ELSE recently_used(block_rw([c EXCEPT !.block[b] = mine], b, TRUE), b, TRUE)

block_get_in_use_only(c, a) ==
  LET o    == Order(c)
      hit  == Holding(c, a) \ Free(c)
      free == {i \in Slots : o[i] \in Free(c)}
      b    == IF hit # {} THEN CHOOSE x \in hit : TRUE
              ELSE o[CHOOSE i \in free : \A j \in free : i <= j]
      mine == [c.block[b] EXCEPT !.dev = a[1], !.blk = a[2], !.count = 1, !.dirty = TRUE]
  IN IF hit # {}
     THEN recently_used([c EXCEPT !.block[b].count = @ + 1], b, TRUE)
     ELSE recently_used(
            block_rw([block_rw(c, b, FALSE) EXCEPT !.block[b] = mine], b, TRUE),
            b, TRUE)

block_get(c, a) ==
  LET b    == Slot(c, a)
      mine == [c.block[b] EXCEPT !.dev = a[1], !.blk = a[2], !.count = 1, !.dirty = TRUE]
  IN IF Holding(c, a) # {}
     THEN recently_used([c EXCEPT !.block[b].count = @ + 1], b, TRUE)
     ELSE recently_used(
            block_rw([block_rw(c, b, FALSE) EXCEPT !.block[b] = mine], b, TRUE),
            b, TRUE)

\* block_put(): the last put may write the block, as config.h's ROBUST says.
block_put(c, b, important) ==
  LET d == [c EXCEPT !.block[b].count = @ - 1] IN
  IF d.block[b].count = 0 /\ (ROBUST = "PARANOID" \/ (ROBUST = "SANE" /\ important))
  THEN block_rw(d, b, FALSE)
  ELSE d

\* super_write(): v is the superblock in the table.
super_write(c, d, v) ==
  LET a == <<d, SUPER_BLOCK>>
      b == Slot(c, a)
      g == block_get(c, a)
      w == [g EXCEPT !.block[b].data = v, !.block[b].dirty = TRUE]
  IN IF c.super[d] # "dirty" THEN c
     ELSE [block_put(w, b, TRUE) EXCEPT !.super[d] = "clean"]

-----------------------------------------------------------------------------
(* The calls the file system makes, and what it does between them. *)

\* The file system puts a block before it gets another.  Only super_read() and
\* super_write() get superblocks.
Idle == \A b \in Slots : cache.block[b].count = 0

Get(a) ==
  /\ Idle
  /\ cache' = block_get(cache, a)
  /\ call' = [op |-> "get", at |-> {a}, val |-> cache'.block[Slot(cache, a)].data]

\* A block in use is changed and marked dirty: inode_rw, rw_fildes.  They work on
\* files of mounted devices only.
Modify(b, v) ==
  /\ cache.block[b].count > 0
  /\ cache.super[cache.block[b].dev] # "unmounted"
  /\ cache' = [cache EXCEPT !.block[b].data = v, !.block[b].dirty = TRUE]
  /\ call' = [op |-> "write", at |-> {<<cache.block[b].dev, cache.block[b].blk>>}, val |-> v]

Put(b, important) ==
  /\ cache.block[b].count > 0
  /\ cache' = block_put(cache, b, important)
  /\ call' = [op |-> "other"]

\* mount() and mount_root(): super_read() gets and puts the superblock, then the
\* device enters the table with a dirty superblock.
Mount(d) ==
  LET a == <<d, SUPER_BLOCK>> IN
  /\ cache.super[d] = "unmounted"
  /\ Idle
  /\ LET c == block_put(block_get(cache, a), Slot(cache, a), TRUE)
     IN cache' = [c EXCEPT !.super[d] = "dirty"]
  /\ call' = [op |-> "other"]

\* umount() and umount_root(): the superblock is marked as clean and written, the blocks
\* are written and forgotten.
Umount(d, v) ==
  /\ cache.super[d] # "unmounted"
  /\ Idle
  /\ LET w == super_write([cache EXCEPT !.super[d] = "dirty"], d, v)
     IN cache' = [dev_purge(WriteBack(w, {d}), d) EXCEPT !.super[d] = "unmounted"]
  /\ call' = [op |-> "write", at |-> {<<d, SUPER_BLOCK>>}, val |-> v]

\* The superblocks that are dirty when their turn comes, written one after the other, and
\* their blocks: writing one can evict a block of a device whose turn is still to come.
WriteSuper(w, d, v) ==
  IF w.c.super[d] # "dirty" THEN w
  ELSE [c |-> super_write(w.c, d, v), at |-> w.at \cup {<<d, SUPER_BLOCK>>}]

WriteSupers(c, v) ==
  LET order == CHOOSE o \in [1 .. Cardinality(Devs) -> Devs] : \A d \in Devs : \E i \in DOMAIN o : o[i] = d
      w[i \in 0 .. Cardinality(Devs)] ==
        IF i = 0 THEN [c |-> c, at |-> {}] ELSE WriteSuper(w[i - 1], order[i], v)
  IN w[Cardinality(Devs)]

Sync_blocks_first(v) ==
  /\ Idle
  /\ LET w == WriteSupers(WriteBack(cache, Devs), v)
     IN cache' = w.c /\ call' = [op |-> "write", at |-> w.at, val |-> v]

\* do_fs_sync(): the superblocks, then (here: no change) the inodes, then every
\* block, "This must be done last".
Sync(v) ==
  /\ Idle
  /\ LET w == WriteSupers(cache, v)
     IN cache' = WriteBack(w.c, Devs) /\ call' = [op |-> "write", at |-> w.at, val |-> v]

CacheNext ==
  \/ \E d \in Devs, n \in Blks \ {SUPER_BLOCK} : Get(<<d, n>>)
  \/ \E b \in Slots, v \in Values : Modify(b, v)
  \/ \E b \in Slots, important \in BOOLEAN : Put(b, important)
  \/ \E d \in Devs : Mount(d)
  \/ \E d \in Devs, v \in Values : Umount(d, v)
  \/ \E v \in Values : Sync(v)

CacheSpec == CacheInit /\ [][CacheNext]_cacheVars

-----------------------------------------------------------------------------
(* Properties *)

Contents == [a \in Addrs |->
  IF Holding(cache, a) = {} THEN cache.disk[a]
  ELSE cache.block[CHOOSE b \in Holding(cache, a) : TRUE].data]

Promise == INSTANCE Disk WITH contents <- Contents

\* The cache implements Disk: getting a block gives what was last written to it, whether
\* its slot was evicted, purged, written or hit in between.
ImplementsDisk == Promise!Spec

\* The links form one ring of all slots, and prev is the inverse of next: recently_used
\* loses no slot, whichever of lru, its neighbours and the slot are the same.
RingOfAll ==
  LET o == Order(cache) IN
  /\ {o[i] : i \in Slots} = Slots
  /\ \A b \in Slots : cache.prev[cache.next[b]] = b

\* A block is in one slot at most.
OneCopy == \A a \in Addrs : Cardinality(Holding(cache, a)) <= 1

\* Only blocks of mounted devices are dirty: after umount the medium can be changed.
DirtyMounted ==
  \A b \in Slots : cache.block[b].dirty => cache.super[cache.block[b].dev] # "unmounted"

\* Once sync has returned no block waits to be written.
SyncWritesAll == [][(\E v \in Values : Sync(v))
                      => \A b \in Slots : ~cache'.block[b].dirty]_cacheVars
=============================================================================
