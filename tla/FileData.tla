------------------------------ MODULE FileData ------------------------------
(***************************************************************************)
(* The data of a file (src/fs/inode.c, read.c, fildes.c): which block has  *)
(* a file's n-th one, reading and writing through an open descriptor.  The *)
(* block cache is what BlockCache shows it to be, the device itself.       *)
(***************************************************************************)
EXTENDS Integers, Sequences, FiniteSets

CONSTANTS
  BLOCK_SIZE, NUM_DIRECT, NUM_INDIRECT,  \* the geometry: 1024, 12, 256
  DataBytes,                                \* what is written
  MaxWrites                              \* bound

ASSUME FileDataAssumption == {BLOCK_SIZE, NUM_DIRECT, NUM_INDIRECT} \subseteq Nat \ {0, 1}

VARIABLES dev, descr, last, written
\* dev[b]: a block, a function from 0 of data or of block numbers
\* descr: the descriptor's mode and offset
\* last: history: the last call, and what it read; written[n]: history: the file's bytes

dataVars == <<dev, descr, last, written>>

JUNK     == -1     \* what lies in memory behind a block or a buffer
O_RDONLY == 4
SINGLE   == NUM_DIRECT
DOUBLE   == NUM_DIRECT + NUM_INDIRECT
TRIPLE   == DOUBLE + NUM_INDIRECT * NUM_INDIRECT   \* first block behind the double ones
Cells    == 0 .. BLOCK_SIZE - 1
Ptrs     == 0 .. NUM_INDIRECT - 1

\* The blocks: 1, 2 and the NUM_INDIRECT after them hold block numbers, the others data.
BlockNums    == 1 .. NUM_INDIRECT + 2 + TRIPLE
DataBlock(n) == NUM_INDIRECT + 3 + n

\* The inode.
i_block == [n \in 0 .. NUM_DIRECT + 1 |->
              IF n < NUM_DIRECT THEN DataBlock(n) ELSE IF n = NUM_DIRECT THEN 1 ELSE 2]

\* The file as mke2fs lays it out, all zeros.
Ext2 ==
  [b \in BlockNums |->
     IF b = 1 THEN [k \in Ptrs |-> DataBlock(SINGLE + k)]
     ELSE IF b = 2 THEN [k \in Ptrs |-> 3 + k]
     ELSE IF b >= DataBlock(0) THEN [c \in Cells |-> 0]
     ELSE [k \in Ptrs |-> DataBlock(DOUBLE + (b - 3) * NUM_INDIRECT + k)]]

-----------------------------------------------------------------------------

\* block_find()'s loop: from the top block down, with the entry that div selects.  That of
\* a double indirect block is looked for as if the single indirect ones were in it.
Down(n) ==
  LET top  == IF n < DOUBLE THEN i_block[NUM_DIRECT] ELSE i_block[NUM_DIRECT + 1]
      m    == n - NUM_DIRECT
      divs == {1, NUM_INDIRECT, NUM_INDIRECT * NUM_INDIRECT}
      div  == CHOOSE d \in divs : d \in 1 .. m \cup {1} /\ \A e \in divs : e <= m => e <= d
      s[k \in 0 .. 3] ==
        IF k = 0 THEN [blk |-> top, n |-> m, div |-> div, found |-> FALSE]
        ELSE LET p == s[k - 1] IN
             IF p.found THEN p
             ELSE [blk |-> dev[p.blk][p.n \div p.div], n |-> p.n % p.div,
                   div |-> p.div \div NUM_INDIRECT, found |-> p.n < NUM_INDIRECT]
  IN s[3].blk

block_find_one_more(n) == IF n <= NUM_DIRECT THEN i_block[n] ELSE Down(n)
\* block_find(), of the direct and the single and double indirect blocks
block_find(n) == IF n < NUM_DIRECT THEN i_block[n] ELSE Down(n)

\* The k-th turn of rw_fildes()'s loop over nbyte bytes from off on: the block, where its
\* data begin in the block and in the buffer, and how many there are.
Turn(off, nbyte, k) ==
  [block |-> off \div BLOCK_SIZE + k,
   index |-> IF k = 0 THEN off % BLOCK_SIZE ELSE 0,
   done  |-> k * BLOCK_SIZE,
   size  |-> IF nbyte - k * BLOCK_SIZE < BLOCK_SIZE THEN nbyte - k * BLOCK_SIZE ELSE BLOCK_SIZE]

Passes(nbyte) == 0 .. (nbyte - 1) \div BLOCK_SIZE

ByteAt(data, c) == IF c \in DOMAIN data THEN data[c] ELSE JUNK

\* What a read leaves in the buffer: behind the end of a block it reads on in memory.
Read(off, nbyte) ==
  [i \in 0 .. nbyte - 1 |->
     LET k == i \div BLOCK_SIZE
         t == Turn(off, nbyte, k)
     IN ByteAt(dev[block_find(t.block)], t.index + i - t.done)]

\* The device after a write of buf: where a block's data begin and where the buffer's do
\* are exchanged (read.c:74).
Written(off, buf) ==
  LET nbyte == Len(buf) IN
  [b \in DOMAIN dev |->
     LET K == {k \in Passes(nbyte) : block_find(Turn(off, nbyte, k).block) = b} IN
     IF K = {} THEN dev[b]
     ELSE LET t == Turn(off, nbyte, CHOOSE k \in K : TRUE)
          IN [c \in DOMAIN dev[b] |-> IF c \in t.done .. t.done + t.size - 1
                                      THEN ByteAt(buf, t.index + c - t.done + 1) ELSE dev[b][c]]]

\* do_fs_open() keeps its third argument as the descriptor's mode.
DataInit ==
  /\ dev = Ext2
  /\ \E mode \in {0, O_RDONLY} : descr = [mode |-> mode, offset |-> 0]
  /\ last = [op |-> "open", offset |-> 0, buf |-> <<>>]
  /\ written = [count |-> 0, at |-> [i \in 0 .. TRIPLE * BLOCK_SIZE - 1 |-> 0]]

do_fs_lseek(off) ==
  /\ descr' = [descr EXCEPT !.offset = off]
  /\ last' = [op |-> "lseek", offset |-> off, buf |-> <<>>]
  /\ UNCHANGED <<dev, written>>

\* "O_RDWR | read ? O_RDONLY : O_WRONLY" is O_RDONLY, for a write too.
Permitted == descr.mode = O_RDONLY

do_fs_read(nbyte) ==
  /\ descr.offset + nbyte <= TRIPLE * BLOCK_SIZE    \* bound: no further than the file
  /\ last' = IF Permitted THEN [op |-> "read", offset |-> descr.offset, buf |-> Read(descr.offset, nbyte)]
             ELSE [op |-> "EPERM", offset |-> descr.offset, buf |-> <<>>]
  /\ descr' = IF Permitted THEN [descr EXCEPT !.offset = @ + nbyte] ELSE descr
  /\ UNCHANGED <<dev, written>>

\* A range that rw_fildes() writes where it belongs: within one block, from its start on,
\* and not in a double indirect block.
Placed(off, nbyte) == /\ off % BLOCK_SIZE = 0 /\ nbyte <= BLOCK_SIZE
                      /\ off \div BLOCK_SIZE < DOUBLE

\* Other writes damage memory, or the wrong block; a buffer's bytes are from 1 on.
do_fs_write(buf) ==
  /\ written.count < MaxWrites
  /\ Permitted => Placed(descr.offset, Len(buf))
  /\ IF Permitted
     THEN /\ dev' = Written(descr.offset, buf)
          /\ descr' = [descr EXCEPT !.offset = @ + Len(buf)]
          /\ written' = [count |-> written.count + 1,
                         at |-> [i \in DOMAIN written.at |->
                                   IF i \in descr.offset .. descr.offset + Len(buf) - 1
                                   THEN buf[i - descr.offset + 1] ELSE written.at[i]]]
          /\ last' = [op |-> "write", offset |-> descr.offset, buf |-> buf]
     ELSE /\ last' = [op |-> "EPERM", offset |-> descr.offset, buf |-> <<>>]
          /\ UNCHANGED <<dev, descr, written>>

Offsets == 0 .. TRIPLE * BLOCK_SIZE - 1

DataNext ==
  \/ \E off \in Offsets : do_fs_lseek(off)
  \/ \E nbyte \in 1 .. 2 * BLOCK_SIZE + 1 : do_fs_read(nbyte)
  \/ \E n \in 1 .. BLOCK_SIZE : \E buf \in [1 .. n -> DataBytes] : do_fs_write(buf)

DataSpec == DataInit /\ [][DataNext]_dataVars

-----------------------------------------------------------------------------
(* Properties *)

\* A read returns what has last been written at its offset, through any mix of reads,
\* writes and seeks, over block boundaries and from the direct into the indirect blocks.
\* Excepted are reads that go beyond a block which they began inside, and reads of the
\* double indirect blocks.
DataRight ==
  LET begin  == last.offset
      nbyte  == Cardinality(DOMAIN last.buf)
      inside == begin % BLOCK_SIZE
  IN last.op = "read" /\ (inside = 0 \/ inside + nbyte <= BLOCK_SIZE)
                      /\ (begin + nbyte - 1) \div BLOCK_SIZE < DOUBLE
     => \A i \in 0 .. nbyte - 1 : last.buf[i] = written.at[begin + i]
=============================================================================
