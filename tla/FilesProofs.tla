---------------------------- MODULE FilesProofs -----------------------------
(***************************************************************************)
(* The counts of inodes and of driver opens, for any tables, directories,  *)
(* paths and processes: proofs about Files.  While a call runs it holds up *)
(* to two inodes that no table refers to, so the invariant of the calls    *)
(* has those two as parameters.  Last, that the data of a file are what    *)
(* was written: a proof about FileData, which has nothing to do with these *)
(* tables.                                                                 *)
(***************************************************************************)
EXTENDS Files, FileData, Loops

-----------------------------------------------------------------------------
(* The inductive invariant. *)

InodeOrNull == InodePtr \cup {NULL}
PtrOrNull   == FilePtr \cup {NULL}

Slots    == [ino : Inos \cup {0}, count : Nat, dirty : BOOLEAN, links : Nat]
FilePtrs == [inode : InodeOrNull, count : Nat]
Procs    == [root : InodeOrNull, work : InodeOrNull, descr : [Fildes -> PtrOrNull]]

Tables == [inode : [InodePtr -> Slots], device : [Inos -> Nat],
           file_ptr : [PtrOrNull -> FilePtrs], proc : [Pids -> Procs],
           err : BOOLEAN, panic : BOOLEAN, opens : Int,
           lost : [InodePtr -> Nat], super : InodeOrNull, down : BOOLEAN]

\* OneSlotPerInode and CleanOnDevice, of the tables t.
OneSlot(t) ==
  \A i, j \in InodePtr : t.inode[i].ino = t.inode[j].ino => i = j \/ t.inode[i].ino = 0

DeviceRight(t) ==
  \A i \in InodePtr : t.inode[i].ino # 0 /\ ~t.inode[i].dirty =>
                        t.device[t.inode[i].ino] = t.inode[i].links

IdleClean(t) == \A i \in InodePtr : t.inode[i].count = 0 => ~t.inode[i].dirty

UsedHasIno(t) == \A i \in InodePtr : t.inode[i].count > 0 => t.inode[i].ino # 0

LostBounded(t) == \A i \in InodePtr : t.lost[i] <= MaxLost + 1

Tidy(t) == t \in Tables /\ OneSlot(t) /\ DeviceRight(t) /\ IdleClean(t)
           /\ UsedHasIno(t) /\ LostBounded(t)

One(i, x) == IF i = x THEN 1 ELSE 0

\* CountsMatch, while a call holds the inodes x and y.
Counted(t, x, y) ==
  \A i \in InodePtr :
    t.inode[i].count = References(t, i) + t.lost[i] + One(i, x) + One(i, y)

Good(t, x, y) == Tidy(t) /\ Counted(t, x, y)

OpensMatch(t) == t.opens = Cardinality(DevPtrs(t)) + Cardinality(DevLost(t))

\* A file pointer that is not used has no inode.
FreePtrs(t) == \A f \in FilePtr : t.file_ptr[f].count = 0 => t.file_ptr[f].inode = NULL

\* A process has both its directories or none; the file system has them always.
Dirs(t) == /\ \A p \in Pids : t.proc[p].root = NULL <=> t.proc[p].work = NULL
           /\ t.proc[FS_PID].root # NULL

\* Between two calls.
Steady(t) == Good(t, NULL, NULL) /\ OpensMatch(t) /\ FreePtrs(t) /\ Dirs(t)

\* OPEN_DESCR(fildes) is an entry of process fildes, so that no other entry is set,
\* until a fork copies them.
Diagonal(t) == \A p \in Pids, d \in Fildes : t.proc[p].descr[d] # NULL => p = d

IInv == Steady(fs) /\ ~fs.err /\ (Regular => Diagonal(fs))

-----------------------------------------------------------------------------
(* Counting. *)

\* What FilesAssumption says of the sizes and the names.
LEMMA Constant ==
  /\ NumInodes \in Nat \ {0} /\ NumFilePtrs \in Nat \ {0} /\ NumProcs \in Nat \ {0}
  /\ LINK_MAX \in Nat /\ MaxLost \in Nat
  /\ 2 * NumProcs + NumFilePtrs + MaxLost + 5 < 256
  /\ Fildes \subseteq Pids /\ Callers \subseteq Pids /\ FS_PID \in Pids /\ FS_PID \notin Callers
  /\ NULL \notin InodePtr /\ NULL \notin FilePtr
  /\ EXT2_ROOT_INO \in Inos /\ 0 \notin Inos
  BY FilesAssumption DEF Fildes, Pids, InodePtr, FilePtr, NULL

\* A set that differs from another at most in d.
LEMMA Recount ==
  ASSUME NEW D, IsFiniteSet(D), NEW A, A \subseteq D, NEW B, B \subseteq D,
         NEW d \in D, A \ {d} = B \ {d}
  PROVE  /\ Cardinality(A) \in Nat /\ Cardinality(B) \in Nat
         /\ Cardinality(B) + (IF d \in A THEN 1 ELSE 0)
            = Cardinality(A) + (IF d \in B THEN 1 ELSE 0)
<1>1. IsFiniteSet(A) /\ IsFiniteSet(B) /\ Cardinality(A) \in Nat /\ Cardinality(B) \in Nat
  BY FS_Subset, FS_CardinalityType
<1>2. Cardinality(A \ {d}) = IF d \in A THEN Cardinality(A) - 1 ELSE Cardinality(A)
  BY <1>1, FS_RemoveElement
<1>3. Cardinality(B \ {d}) = IF d \in B THEN Cardinality(B) - 1 ELSE Cardinality(B)
  BY <1>1, FS_RemoveElement
<1> QED
  BY <1>1, <1>2, <1>3

\* The sets that References and DriverOpens count in are finite.
LEMMA Finite ==
  /\ IsFiniteSet(Pids) /\ Cardinality(Pids) = NumProcs
  /\ IsFiniteSet(PtrOrNull) /\ Cardinality(PtrOrNull) = NumFilePtrs + 1
  /\ IsFiniteSet(InodePtr \X (1 .. MaxLost + 1))
<1>1. Pids = 0 .. NumProcs - 1 /\ PtrOrNull = 0 .. NumFilePtrs /\ InodePtr = 1 .. NumInodes
  BY Constant DEF Pids, PtrOrNull, FilePtr, NULL, InodePtr
<1>2. IsFiniteSet(0 .. NumProcs - 1) /\ Cardinality(0 .. NumProcs - 1) = NumProcs
  BY Constant, FS_Interval
<1>3. IsFiniteSet(0 .. NumFilePtrs) /\ Cardinality(0 .. NumFilePtrs) = NumFilePtrs + 1
  BY Constant, FS_Interval
<1>4. IsFiniteSet(InodePtr) /\ IsFiniteSet(1 .. MaxLost + 1)
  BY <1>1, Constant, FS_Interval
<1>5. IsFiniteSet(InodePtr \X (1 .. MaxLost + 1))
  BY <1>4, FS_Product
<1> QED
  BY <1>1, <1>2, <1>3, <1>5

Roots(t, i)    == {p \in Pids : t.proc[p].root = i}
Works(t, i)    == {p \in Pids : t.proc[p].work = i}
PtrsTo(t, i)   == {f \in PtrOrNull : t.file_ptr[f].inode = i}

\* References is a number, and no greater than there are pointers.
LEMMA RefsBound ==
  ASSUME NEW t, NEW i
  PROVE  /\ Cardinality(Roots(t, i)) \in 0 .. NumProcs
         /\ Cardinality(Works(t, i)) \in 0 .. NumProcs
         /\ Cardinality(PtrsTo(t, i)) \in 0 .. NumFilePtrs + 1
         /\ References(t, i) = Cardinality(Roots(t, i)) + Cardinality(Works(t, i))
                               + Cardinality(PtrsTo(t, i)) + One(t.super, i)
         /\ References(t, i) \in 0 .. 2 * NumProcs + NumFilePtrs + 2
<1>1. Roots(t, i) \subseteq Pids /\ Works(t, i) \subseteq Pids /\ PtrsTo(t, i) \subseteq PtrOrNull
  BY DEF Roots, Works, PtrsTo
<1>2. /\ Cardinality(Roots(t, i)) \in Nat /\ Cardinality(Roots(t, i)) <= NumProcs
      /\ Cardinality(Works(t, i)) \in Nat /\ Cardinality(Works(t, i)) <= NumProcs
      /\ Cardinality(PtrsTo(t, i)) \in Nat /\ Cardinality(PtrsTo(t, i)) <= NumFilePtrs + 1
  BY <1>1, Finite, FS_Subset, FS_CardinalityType
<1>3. References(t, i) = Cardinality(Roots(t, i)) + Cardinality(Works(t, i))
                         + Cardinality(PtrsTo(t, i)) + One(t.super, i)
  BY DEF References, Roots, Works, PtrsTo, PtrOrNull, One
<1> QED
  BY <1>2, <1>3, Constant DEF One

\* A pointer in a table is a reference.
LEMMA RefsSome ==
  ASSUME NEW t, NEW i
  PROVE  /\ \A p \in Pids : t.proc[p].root = i \/ t.proc[p].work = i => References(t, i) >= 1
         /\ \A f \in PtrOrNull : t.file_ptr[f].inode = i => References(t, i) >= 1
         /\ t.super = i => References(t, i) >= 1
<1>1. /\ Cardinality(Roots(t, i)) \in Nat /\ Cardinality(Works(t, i)) \in Nat
      /\ Cardinality(PtrsTo(t, i)) \in Nat
      /\ References(t, i) = Cardinality(Roots(t, i)) + Cardinality(Works(t, i))
                            + Cardinality(PtrsTo(t, i)) + One(t.super, i)
  BY RefsBound, Constant
<1>2. One(t.super, i) \in Nat /\ (t.super = i => One(t.super, i) = 1)
  BY DEF One
<1>3. IsFiniteSet(Roots(t, i)) /\ IsFiniteSet(Works(t, i)) /\ IsFiniteSet(PtrsTo(t, i))
  BY Finite, FS_Subset DEF Roots, Works, PtrsTo
<1>4. ASSUME NEW p \in Pids, t.proc[p].root = i PROVE References(t, i) >= 1
  <2>1. Roots(t, i) # {}
    BY <1>4 DEF Roots
  <2>2. Cardinality(Roots(t, i)) # 0
    BY <1>3, <2>1, FS_EmptySet
  <2> QED
    BY <1>1, <1>2, <2>2
<1>5. ASSUME NEW p \in Pids, t.proc[p].work = i PROVE References(t, i) >= 1
  <2>1. Works(t, i) # {}
    BY <1>5 DEF Works
  <2>2. Cardinality(Works(t, i)) # 0
    BY <1>3, <2>1, FS_EmptySet
  <2> QED
    BY <1>1, <1>2, <2>2
<1>6. ASSUME NEW f \in PtrOrNull, t.file_ptr[f].inode = i PROVE References(t, i) >= 1
  <2>1. PtrsTo(t, i) # {}
    BY <1>6 DEF PtrsTo
  <2>2. Cardinality(PtrsTo(t, i)) # 0
    BY <1>3, <2>1, FS_EmptySet
  <2> QED
    BY <1>1, <1>2, <2>2
<1> QED
  BY <1>1, <1>2, <1>4, <1>5, <1>6

\* References of the same tables.
LEMMA RefsSame ==
  ASSUME NEW t, NEW u, u.proc = t.proc, u.file_ptr = t.file_ptr, u.super = t.super
  PROVE  \A i : References(u, i) = References(t, i)
  BY DEF References

\* A process' root directory, its working directory and a file pointer's inode change.
LEMMA RootMoves ==
  ASSUME NEW t, NEW u, NEW p \in Pids, NEW i,
         \A q \in Pids \ {p} : u.proc[q].root = t.proc[q].root
  PROVE  Cardinality(Roots(u, i)) + One(i, t.proc[p].root)
         = Cardinality(Roots(t, i)) + One(i, u.proc[p].root)
<1>1. Roots(t, i) \subseteq Pids /\ Roots(u, i) \subseteq Pids /\ Roots(t, i) \ {p} = Roots(u, i) \ {p}
  BY DEF Roots
<1>2. /\ (p \in Roots(t, i) <=> i = t.proc[p].root) /\ (p \in Roots(u, i) <=> i = u.proc[p].root)
  BY DEF Roots
<1> QED
  BY <1>1, <1>2, Finite, Recount DEF One

\* The same of a working directory,
LEMMA WorkMoves ==
  ASSUME NEW t, NEW u, NEW p \in Pids, NEW i,
         \A q \in Pids \ {p} : u.proc[q].work = t.proc[q].work
  PROVE  Cardinality(Works(u, i)) + One(i, t.proc[p].work)
         = Cardinality(Works(t, i)) + One(i, u.proc[p].work)
<1>1. Works(t, i) \subseteq Pids /\ Works(u, i) \subseteq Pids /\ Works(t, i) \ {p} = Works(u, i) \ {p}
  BY DEF Works
<1>2. /\ (p \in Works(t, i) <=> i = t.proc[p].work) /\ (p \in Works(u, i) <=> i = u.proc[p].work)
  BY DEF Works
<1> QED
  BY <1>1, <1>2, Finite, Recount DEF One

\* and of a file pointer's inode.
LEMMA PtrMoves ==
  ASSUME NEW t, NEW u, NEW f \in PtrOrNull, NEW i,
         \A g \in PtrOrNull \ {f} : u.file_ptr[g].inode = t.file_ptr[g].inode
  PROVE  Cardinality(PtrsTo(u, i)) + One(i, t.file_ptr[f].inode)
         = Cardinality(PtrsTo(t, i)) + One(i, u.file_ptr[f].inode)
<1>1. /\ PtrsTo(t, i) \subseteq PtrOrNull /\ PtrsTo(u, i) \subseteq PtrOrNull
      /\ PtrsTo(t, i) \ {f} = PtrsTo(u, i) \ {f}
  BY DEF PtrsTo
<1>2. /\ (f \in PtrsTo(t, i) <=> i = t.file_ptr[f].inode)
      /\ (f \in PtrsTo(u, i) <=> i = u.file_ptr[f].inode)
  BY DEF PtrsTo
<1> QED
  BY <1>1, <1>2, Finite, Recount DEF One

-----------------------------------------------------------------------------
(* The inode table's operations. *)

\* What u has of t when only inodes, the device and the marks of failure change.
SameRest(t, u) ==
  /\ u.file_ptr = t.file_ptr /\ u.proc = t.proc /\ u.opens = t.opens
  /\ u.lost = t.lost /\ u.super = t.super /\ u.down = t.down

\* The types of the fields.
LEMMA TablesFields ==
  ASSUME NEW t \in Tables
  PROVE  /\ t.inode \in [InodePtr -> Slots] /\ t.device \in [Inos -> Nat]
         /\ t.file_ptr \in [PtrOrNull -> FilePtrs] /\ t.proc \in [Pids -> Procs]
         /\ t.err \in BOOLEAN /\ t.panic \in BOOLEAN /\ t.opens \in Int
         /\ t.lost \in [InodePtr -> Nat] /\ t.super \in InodeOrNull /\ t.down \in BOOLEAN
  BY DEF Tables

\* The types of a slot's fields.
LEMMA SlotFields ==
  ASSUME NEW t \in Tables, NEW i \in InodePtr
  PROVE  /\ t.inode[i] \in Slots /\ t.inode[i].ino \in Inos \cup {0}
         /\ t.inode[i].count \in Nat /\ t.inode[i].dirty \in BOOLEAN
         /\ t.inode[i].links \in Nat
  BY TablesFields DEF Slots

\* inode_rw(WRITE) leaves the slot clean, and those that were clean stay so.
LEMMA WriteTable ==
  ASSUME NEW t \in Tables, NEW i \in InodePtr, OneSlot(t), DeviceRight(t),
         t.inode[i].dirty => t.inode[i].ino # 0
  PROVE  /\ inode_write(t, i) \in Tables
         /\ SameRest(t, inode_write(t, i))
         /\ inode_write(t, i).err = t.err /\ inode_write(t, i).panic = t.panic
         /\ \A j \in InodePtr :
              /\ inode_write(t, i).inode[j].ino = t.inode[j].ino
              /\ inode_write(t, i).inode[j].count = t.inode[j].count
              /\ inode_write(t, i).inode[j].links = t.inode[j].links
              /\ j # i => inode_write(t, i).inode[j].dirty = t.inode[j].dirty
         /\ ~inode_write(t, i).inode[i].dirty
         /\ DeviceRight(inode_write(t, i))
<1>1. CASE ~t.inode[i].dirty
  <2>1. inode_write(t, i) = t
    BY <1>1 DEF inode_write
  <2> QED
    BY <1>1, <2>1 DEF SameRest
<1>2. CASE t.inode[i].dirty
  <2> DEFINE n == t.inode[i]
             m == [n EXCEPT !.dirty = FALSE]
  <2>1. n \in Slots /\ n.ino \in Inos /\ n.links \in Nat
    BY <1>2, SlotFields
  <2>2. m \in Slots /\ m.ino = n.ino /\ m.count = n.count /\ m.links = n.links /\ ~m.dirty
    BY <2>1 DEF Slots
  <2> HIDE DEF m
  <2> DEFINE u == [t EXCEPT !.device = [t.device EXCEPT ![n.ino] = n.links],
                            !.inode = [t.inode EXCEPT ![i] = m]]
  <2>3. inode_write(t, i) = u
    BY <1>2, TablesFields DEF inode_write, Tables, m
  <2>4. /\ [t.device EXCEPT ![n.ino] = n.links] \in [Inos -> Nat]
        /\ [t.inode EXCEPT ![i] = m] \in [InodePtr -> Slots]
    BY <2>1, <2>2, TablesFields
  <2>5. u \in Tables /\ SameRest(t, u) /\ u.err = t.err /\ u.panic = t.panic
    BY <2>4 DEF Tables, SameRest
  <2>6. /\ u.inode = [t.inode EXCEPT ![i] = m]
        /\ u.device = [t.device EXCEPT ![n.ino] = n.links]
    BY DEF Tables
  <2> HIDE DEF u
  <2>7. /\ u.inode[i] = m /\ \A j \in InodePtr : j # i => u.inode[j] = t.inode[j]
        /\ u.device[n.ino] = n.links /\ \A e \in Inos : e # n.ino => u.device[e] = t.device[e]
    BY <2>1, <2>6, TablesFields
  <2>8. \A j \in InodePtr :
          /\ u.inode[j].ino = t.inode[j].ino
          /\ u.inode[j].count = t.inode[j].count
          /\ u.inode[j].links = t.inode[j].links
          /\ j # i => u.inode[j].dirty = t.inode[j].dirty
    BY <2>2, <2>7
  <2>9. DeviceRight(u)
    <3> SUFFICES ASSUME NEW j \in InodePtr, u.inode[j].ino # 0, ~u.inode[j].dirty
                 PROVE  u.device[u.inode[j].ino] = u.inode[j].links
      BY DEF DeviceRight
    <3>1. CASE j = i
      BY <2>2, <2>7, <3>1
    <3>2. CASE j # i
      <4>1. t.inode[j].ino # n.ino /\ t.inode[j].ino \in Inos
        BY <2>1, <2>8, <3>2, SlotFields DEF OneSlot
      <4>2. t.device[t.inode[j].ino] = t.inode[j].links
        BY <2>8, <3>2 DEF DeviceRight
      <4> QED
        BY <2>7, <2>8, <4>1, <4>2
    <3> QED
      BY <3>1, <3>2
  <2> QED
    BY <2>2, <2>3, <2>5, <2>7, <2>8, <2>9
<1> QED
  BY <1>1, <1>2, SlotFields

\* A slot's new contents: m in slot i.
Slot(t, i, m) == [t EXCEPT !.inode = [t.inode EXCEPT ![i] = m]]

\* What one slot's new contents leave as it was.
LEMMA SlotSet ==
  ASSUME NEW t \in Tables, NEW i \in InodePtr, NEW m \in Slots
  PROVE  /\ Slot(t, i, m) \in Tables /\ SameRest(t, Slot(t, i, m))
         /\ Slot(t, i, m).device = t.device
         /\ Slot(t, i, m).err = t.err /\ Slot(t, i, m).panic = t.panic
         /\ Slot(t, i, m).inode[i] = m
         /\ \A j \in InodePtr : j # i => Slot(t, i, m).inode[j] = t.inode[j]
<1>1. [t.inode EXCEPT ![i] = m] \in [InodePtr -> Slots]
  BY TablesFields
<1>2. Slot(t, i, m) \in Tables /\ SameRest(t, Slot(t, i, m))
  BY <1>1 DEF Tables, SameRest, Slot
<1>3. /\ Slot(t, i, m).device = t.device /\ Slot(t, i, m).inode = [t.inode EXCEPT ![i] = m]
      /\ Slot(t, i, m).err = t.err /\ Slot(t, i, m).panic = t.panic
  BY DEF Tables, Slot
<1> QED
  BY <1>1, <1>2, <1>3, TablesFields

\* One less in the count of slot i, with the inode written when it was the last one.
LEMMA PutTable ==
  ASSUME NEW t, Tidy(t), NEW i \in InodePtr, t.inode[i].count \in 1 .. 255
  PROVE  /\ Tidy(inode_put(t, i)) /\ SameRest(t, inode_put(t, i))
         /\ inode_put(t, i).err = t.err /\ inode_put(t, i).panic = t.panic
         /\ \A j \in InodePtr :
              /\ inode_put(t, i).inode[j].ino = t.inode[j].ino
              /\ inode_put(t, i).inode[j].links = t.inode[j].links
              /\ inode_put(t, i).inode[j].count = t.inode[j].count - One(j, i)
<1> DEFINE n == t.inode[i]
           c == n.count - 1
           m == [n EXCEPT !.count = c]
           d == Slot(t, i, m)
<1>1. t \in Tables /\ n \in Slots /\ n.count \in Nat /\ n.ino \in Inos /\ n.ino # 0
  BY SlotFields DEF Tidy, UsedHasIno
<1>2. c \in Nat /\ (n.count + 255) % 256 = c
  OBVIOUS
<1> HIDE DEF c
<1>3. m \in Slots /\ m.count = c /\ m.ino = n.ino /\ m.links = n.links /\ m.dirty = n.dirty
  BY <1>1, <1>2 DEF Slots
<1> HIDE DEF m
<1>4. /\ d \in Tables /\ SameRest(t, d) /\ d.device = t.device
      /\ d.err = t.err /\ d.panic = t.panic /\ d.inode[i] = m
      /\ \A j \in InodePtr : j # i => d.inode[j] = t.inode[j]
  BY <1>1, <1>3, SlotSet
<1>5. [t EXCEPT !.inode[i].count = c] = d
  BY <1>1, TablesFields DEF Slot, m
<1> HIDE DEF d
<1>6. inode_put(t, i) = IF c > 0 THEN d ELSE inode_write([d EXCEPT !.inode[i].dirty = TRUE], i)
  <2>1. i # NULL
    BY Constant
  <2> DEFINE q == (t.inode[i].count + 255) % 256
             e == [t EXCEPT !.inode[i].count = q]
  <2>2. inode_put(t, i) = IF q > 0 THEN e ELSE inode_write([e EXCEPT !.inode[i].dirty = TRUE], i)
    BY <2>1 DEF inode_put
  <2>3. q = c
    BY <1>2
  <2> HIDE DEF q
  <2>4. e = d
    BY <1>5, <2>3
  <2> HIDE DEF e
  <2> QED
    BY <2>2, <2>3, <2>4
<1>7. \A j \in InodePtr : /\ d.inode[j].ino = t.inode[j].ino /\ d.inode[j].links = t.inode[j].links
                          /\ d.inode[j].count = t.inode[j].count - One(j, i)
                          /\ d.inode[j].dirty = t.inode[j].dirty
  BY <1>1, <1>2, <1>3, <1>4, SlotFields DEF One, c
<1>8. OneSlot(d) /\ LostBounded(d)
  BY <1>1, <1>4, <1>7 DEF Tidy, OneSlot, LostBounded, SameRest
<1>9. DeviceRight(d)
  BY <1>4, <1>7 DEF Tidy, DeviceRight
<1>10. UsedHasIno(d)
  BY <1>1, <1>4, <1>7, SlotFields DEF Tidy, UsedHasIno, One
<1>11. CASE c > 0
  <2>1. IdleClean(d)
    BY <1>3, <1>4, <1>11 DEF Tidy, IdleClean
  <2>2. Tidy(d)
    BY <1>4, <1>8, <1>9, <1>10, <2>1 DEF Tidy
  <2> QED
    BY <1>4, <1>6, <1>7, <1>11, <2>2
<1>12. CASE c = 0
  <2> DEFINE k == [m EXCEPT !.dirty = TRUE]
             e == Slot(d, i, k)
  <2>1. k \in Slots /\ k.count = c /\ k.ino = n.ino /\ k.links = n.links
    BY <1>3 DEF Slots
  <2>2. k.dirty
    BY <1>3 DEF Slots
  <2> HIDE DEF k
  <2>3. /\ e \in Tables /\ SameRest(d, e) /\ e.device = d.device
        /\ e.err = d.err /\ e.panic = d.panic /\ e.inode[i] = k
        /\ \A j \in InodePtr : j # i => e.inode[j] = d.inode[j]
    BY <1>4, <2>1, SlotSet
  <2>4. [d EXCEPT !.inode[i].dirty = TRUE] = e
    BY <1>4, TablesFields DEF Slot, k
  <2> HIDE DEF e
  <2>5. \A j \in InodePtr : e.inode[j].ino = d.inode[j].ino /\ e.inode[j].links = d.inode[j].links
                            /\ e.inode[j].count = d.inode[j].count
    BY <1>3, <1>4, <2>1, <2>3
  <2>6. OneSlot(e)
    BY <1>8, <2>5 DEF OneSlot
  <2>7. DeviceRight(e)
    BY <1>9, <2>2, <2>3 DEF DeviceRight
  <2>8. e.inode[i].ino # 0
    BY <1>1, <2>1, <2>3
  <2> DEFINE u == inode_write(e, i)
  <2>9. /\ u \in Tables /\ SameRest(e, u) /\ u.err = e.err /\ u.panic = e.panic
        /\ \A j \in InodePtr :
              /\ u.inode[j].ino = e.inode[j].ino
              /\ u.inode[j].count = e.inode[j].count
              /\ u.inode[j].links = e.inode[j].links
              /\ j # i => u.inode[j].dirty = e.inode[j].dirty
        /\ ~u.inode[i].dirty /\ DeviceRight(u)
    BY <2>3, <2>6, <2>7, <2>8, WriteTable
  <2>10. inode_put(t, i) = u
    <3>1. ~(c > 0)
      BY <1>12
    <3>2. inode_put(t, i) = inode_write([d EXCEPT !.inode[i].dirty = TRUE], i)
      BY <1>6, <3>1
    <3> QED
      BY <2>4, <3>2
  <2> HIDE DEF u
  <2>11. OneSlot(u) /\ LostBounded(u)
    BY <1>8, <1>4, <2>3, <2>5, <2>9 DEF OneSlot, LostBounded, SameRest
  <2>12. UsedHasIno(u)
    BY <1>10, <2>5, <2>9 DEF UsedHasIno
  <2>13. IdleClean(u)
    <3> SUFFICES ASSUME NEW j \in InodePtr, u.inode[j].count = 0, j # i
                 PROVE  ~u.inode[j].dirty
      BY <2>9 DEF IdleClean
    <3>1. u.inode[j].dirty = t.inode[j].dirty /\ t.inode[j].count = 0
      BY <1>4, <2>3, <2>9
    <3> QED
      BY <3>1 DEF Tidy, IdleClean
  <2>14. Tidy(u)
    BY <2>9, <2>11, <2>12, <2>13 DEF Tidy
  <2>15. SameRest(t, u) /\ u.err = t.err /\ u.panic = t.panic
    BY <1>4, <2>3, <2>9 DEF SameRest
  <2> QED
    BY <1>7, <2>5, <2>9, <2>10, <2>14, <2>15
<1> QED
  BY <1>2, <1>11, <1>12

\* The first of a set is in it.
LEMMA MinIn ==
  ASSUME NEW S, S \subseteq Nat, S # {}
  PROVE  Min(S) \in S
<1>1. \E x \in S : \A y \in S : x <= y
  BY Least
<1> QED
  BY <1>1 DEF Min

\* One more in the count of the slot that has the inode, or of one that gets it.
LEMMA GetTable ==
  ASSUME NEW t, Tidy(t), NEW ino \in Inos
  PROVE  /\ inode_get(t, ino).ip \in InodeOrNull
         /\ Tidy(inode_get(t, ino).t) /\ SameRest(t, inode_get(t, ino).t)
         /\ inode_get(t, ino).t.err = t.err
         /\ inode_get(t, ino).ip = NULL => inode_get(t, ino).t.panic
         /\ inode_get(t, ino).ip # NULL => inode_get(t, ino).t.panic = t.panic
         /\ \A j \in InodePtr :
              /\ inode_get(t, ino).t.inode[j].count = t.inode[j].count + One(j, inode_get(t, ino).ip)
              /\ t.inode[j].count > 0 =>
                   /\ inode_get(t, ino).t.inode[j].ino = t.inode[j].ino
                   /\ inode_get(t, ino).t.inode[j].links = t.inode[j].links
<1> DEFINE has  == {i \in InodePtr : t.inode[i].ino = ino}
           free == {i \in InodePtr : t.inode[i].count = 0}
<1>1. t \in Tables /\ InodePtr \subseteq Nat /\ ino # 0
  BY Constant DEF Tidy, InodePtr
<1>2. CASE has # {}
  <2>1. PICK i \in InodePtr : i = Min(has) /\ t.inode[i].ino = ino
    <3>1. Min(has) \in has
      BY <1>1, <1>2, MinIn
    <3> QED
      BY <3>1
  <2> DEFINE n == t.inode[i]
             m == [n EXCEPT !.count = @ + 1]
             d == Slot(t, i, m)
  <2>2. n \in Slots /\ n.count \in Nat
    BY <1>1, SlotFields
  <2>3. /\ m \in Slots /\ m.count = n.count + 1 /\ m.ino = n.ino /\ m.links = n.links
        /\ m.dirty = n.dirty
    BY <2>2 DEF Slots
  <2>4. [t EXCEPT !.inode[i].count = @ + 1] = d
    BY <1>1, TablesFields DEF Slot
  <2> HIDE DEF m
  <2>5. /\ d \in Tables /\ SameRest(t, d) /\ d.device = t.device
        /\ d.err = t.err /\ d.panic = t.panic /\ d.inode[i] = m
        /\ \A j \in InodePtr : j # i => d.inode[j] = t.inode[j]
    BY <1>1, <2>3, SlotSet
  <2>6. inode_get(t, ino) = [t |-> d, ip |-> i]
    <3> HIDE DEF d
    <3> QED
      BY <1>2, <2>1, <2>4 DEF inode_get
  <2> HIDE DEF d
  <2>7. inode_get(t, ino).t = d /\ inode_get(t, ino).ip = i /\ i # NULL /\ i \in InodeOrNull
    BY <2>6, Constant DEF InodeOrNull
  <2>8. \A j \in InodePtr : /\ d.inode[j].ino = t.inode[j].ino /\ d.inode[j].links = t.inode[j].links
                            /\ d.inode[j].count = t.inode[j].count + One(j, i)
                            /\ d.inode[j].dirty = t.inode[j].dirty
    BY <1>1, <2>3, <2>5, SlotFields DEF One
  <2>9. OneSlot(d) /\ LostBounded(d)
    BY <2>5, <2>8 DEF Tidy, OneSlot, LostBounded, SameRest
  <2>10. DeviceRight(d)
    BY <2>5, <2>8 DEF Tidy, DeviceRight
  <2>11. UsedHasIno(d)
    BY <1>1, <2>1, <2>3, <2>5 DEF Tidy, UsedHasIno
  <2>12. IdleClean(d)
    BY <2>2, <2>3, <2>5 DEF Tidy, IdleClean
  <2>13. Tidy(d)
    BY <2>5, <2>9, <2>10, <2>11, <2>12 DEF Tidy
  <2> QED
    BY <2>5, <2>7, <2>8, <2>13
<1>3. CASE has = {} /\ free # {}
  <2>1. PICK i \in InodePtr : i = Min(free) /\ t.inode[i].count = 0
    <3>1. Min(free) \in free
      BY <1>1, <1>3, MinIn
    <3> QED
      BY <3>1
  <2> DEFINE m == [ino |-> ino, count |-> 1, dirty |-> FALSE, links |-> t.device[ino]]
             d == Slot(t, i, m)
  <2>2. t.device[ino] \in Nat
    BY <1>1, TablesFields
  <2>3. m \in Slots /\ m.count = 1 /\ m.ino = ino /\ m.links = t.device[ino]
    BY <2>2 DEF Slots
  <2>4. ~m.dirty
    OBVIOUS
  <2>5. [t EXCEPT !.inode[i] = m] = d
    BY <1>1, TablesFields DEF Slot
  <2> HIDE DEF d
  <2>6. inode_get(t, ino) = [t |-> d, ip |-> i]
    BY <1>3, <2>1, <2>5 DEF inode_get
  <2> HIDE DEF m
  <2>7. /\ d \in Tables /\ SameRest(t, d) /\ d.device = t.device
        /\ d.err = t.err /\ d.panic = t.panic /\ d.inode[i] = m
        /\ \A j \in InodePtr : j # i => d.inode[j] = t.inode[j]
    BY <1>1, <2>3, SlotSet DEF d
  <2>8. inode_get(t, ino).t = d /\ inode_get(t, ino).ip = i /\ i # NULL /\ i \in InodeOrNull
    BY <2>6, Constant DEF InodeOrNull
  <2>9. \A j \in InodePtr : /\ d.inode[j].count = t.inode[j].count + One(j, i)
                            /\ t.inode[j].count > 0 =>
                                 d.inode[j].ino = t.inode[j].ino /\ d.inode[j].links = t.inode[j].links
    <3>1. d.inode[i].count = 1 /\ t.inode[i].count = 0
      BY <2>1, <2>3, <2>7
    <3>2. \A j \in InodePtr : t.inode[j].count \in Nat
      BY <1>1, SlotFields
    <3> QED
      BY <2>7, <3>1, <3>2 DEF One
  <2>10. OneSlot(d)
    <3>1. \A j \in InodePtr : t.inode[j].ino # ino
      BY <1>3
    <3> QED
      BY <2>3, <2>7, <3>1 DEF Tidy, OneSlot
  <2>11. DeviceRight(d)
    BY <2>3, <2>7 DEF Tidy, DeviceRight
  <2>12. UsedHasIno(d)
    BY <1>1, <2>3, <2>7 DEF Tidy, UsedHasIno
  <2>13. IdleClean(d)
    BY <2>4, <2>7 DEF Tidy, IdleClean
  <2>14. Tidy(d)
    BY <2>7, <2>10, <2>11, <2>12, <2>13 DEF Tidy, LostBounded, SameRest
  <2> QED
    BY <2>7, <2>8, <2>9, <2>14
<1>4. CASE has = {} /\ free = {}
  <2> DEFINE d == [t EXCEPT !.panic = TRUE]
  <2>1. inode_get(t, ino) = [t |-> d, ip |-> NULL]
    BY <1>4 DEF inode_get
  <2>2. d \in Tables /\ SameRest(t, d) /\ d.device = t.device /\ d.inode = t.inode /\ d.err = t.err
    BY <1>1 DEF Tables, SameRest
  <2>3. d.panic
    BY <1>1 DEF Tables
  <2> HIDE DEF d
  <2>4. inode_get(t, ino).t = d /\ inode_get(t, ino).ip = NULL
    BY <2>1
  <2>5. Tidy(d)
    BY <2>2 DEF Tidy, OneSlot, DeviceRight, UsedHasIno, IdleClean, LostBounded, SameRest
  <2>6. \A j \in InodePtr : One(j, NULL) = 0 /\ t.inode[j].count \in Nat
    BY <1>1, Constant, SlotFields DEF One
  <2> QED
    BY <2>2, <2>3, <2>4, <2>5, <2>6 DEF InodeOrNull
<1> QED
  BY <1>2, <1>3, <1>4

-----------------------------------------------------------------------------
(* The inodes that a call holds. *)

\* What a call does to the inode table leaves the inodes that the tables refer to where
\* they are.
Kept(t, u) ==
  /\ SameRest(t, u)
  /\ \A i \in InodePtr : References(t, i) + t.lost[i] > 0 =>
       u.inode[i].ino = t.inode[i].ino /\ u.inode[i].links = t.inode[i].links

\* One such change after the other, and none.
LEMMA KeptTwice ==
  ASSUME NEW t, NEW u, NEW v, Kept(t, u), Kept(u, v)
  PROVE  Kept(t, v)
<1>1. u.lost = t.lost /\ \A i : References(u, i) = References(t, i)
  BY RefsSame DEF Kept, SameRest
<1>2. SameRest(t, v)
  BY DEF Kept, SameRest
<1> QED
  BY <1>1, <1>2 DEF Kept

\* Tables keep what they have themselves.
LEMMA KeptSelf ==
  ASSUME NEW t
  PROVE  Kept(t, t)
  BY DEF Kept, SameRest

\* The terms of Counted.
LEMMA GoodTerms ==
  ASSUME NEW t, NEW x, NEW y, Good(t, x, y), NEW i \in InodePtr
  PROVE  /\ t.inode[i].count \in 0 .. 255
         /\ References(t, i) \in Nat /\ t.lost[i] \in Nat
         /\ One(i, x) \in 0 .. 1 /\ One(i, y) \in 0 .. 1
         /\ t.inode[i].count = References(t, i) + t.lost[i] + One(i, x) + One(i, y)
         /\ i = x \/ i = y => t.inode[i].count \in 1 .. 255
<1>1. References(t, i) \in 0 .. 2 * NumProcs + NumFilePtrs + 2
  BY RefsBound
<1>2. t.lost[i] \in 0 .. MaxLost + 1
  BY Constant, TablesFields DEF Good, Tidy, LostBounded
<1>3. One(i, x) \in 0 .. 1 /\ One(i, y) \in 0 .. 1 /\ (i = x => One(i, x) = 1) /\ (i = y => One(i, y) = 1)
  BY DEF One
<1>4. t.inode[i].count = References(t, i) + t.lost[i] + One(i, x) + One(i, y)
  BY DEF Good, Counted
<1>5. t.inode[i].count \in 0 .. 255
  <2>1. PICK r \in Nat, l \in Nat, a \in 0 .. 1, b \in 0 .. 1 :
          /\ r = References(t, i) /\ l = t.lost[i] /\ a = One(i, x) /\ b = One(i, y)
          /\ r <= 2 * NumProcs + NumFilePtrs + 2 /\ l <= MaxLost + 1
    BY <1>1, <1>2, <1>3, Constant
  <2>2. t.inode[i].count = r + l + a + b
    BY <1>4, <2>1
  <2>3. r + l + a + b \in Nat /\ r + l + a + b < 256
    BY <2>1, Constant
  <2> QED
    BY <2>2, <2>3
<1> QED
  BY <1>1, <1>2, <1>3, <1>4, <1>5, Constant

\* An inode that a call holds is in use.
LEMMA HeldInUse ==
  ASSUME NEW t, NEW x \in InodePtr, NEW y, Good(t, x, y)
  PROVE  /\ t \in Tables /\ t.inode[x] \in Slots /\ t.inode[x].count > 0
         /\ t.inode[x].ino \in Inos /\ t.inode[x].dirty \in BOOLEAN
<1>1. t \in Tables /\ UsedHasIno(t)
  BY DEF Good, Tidy
<1>2. /\ t.inode[x] \in Slots /\ t.inode[x].ino \in Inos \cup {0}
      /\ t.inode[x].dirty \in BOOLEAN
  BY <1>1, SlotFields
<1>3. t.inode[x].count \in 1 .. 255
  BY GoodTerms
<1> HIDE DEF Tables, Slots
<1>4. t.inode[x].count > 0
  BY <1>3
<1>5. t.inode[x].ino # 0
  BY <1>1, <1>4 DEF UsedHasIno
<1> QED
  BY <1>1, <1>2, <1>4, <1>5

\* The two held inodes are in no order.
LEMMA GoodSwap ==
  ASSUME NEW t, NEW x, NEW y, Good(t, x, y)
  PROVE  Good(t, y, x)
<1>1. Counted(t, y, x)
  BY GoodTerms DEF Counted
<1> QED
  BY <1>1 DEF Good

\* A held inode is put.
LEMMA PutGood ==
  ASSUME NEW t, NEW x \in InodeOrNull, NEW y, Good(t, x, y)
  PROVE  /\ Good(inode_put(t, x), NULL, y) /\ Kept(t, inode_put(t, x))
         /\ inode_put(t, x).err = t.err /\ inode_put(t, x).panic = t.panic
<1>1. CASE x = NULL
  <2>1. inode_put(t, x) = t
    BY <1>1 DEF inode_put
  <2> QED
    BY <1>1, <2>1, KeptSelf
<1>2. CASE x # NULL
  <2>1. x \in InodePtr /\ t.inode[x].count \in 1 .. 255
    BY <1>2, GoodTerms DEF InodeOrNull
  <2> DEFINE u == inode_put(t, x)
  <2>2. /\ Tidy(u) /\ SameRest(t, u) /\ u.err = t.err /\ u.panic = t.panic
        /\ \A j \in InodePtr :
              /\ u.inode[j].ino = t.inode[j].ino
              /\ u.inode[j].links = t.inode[j].links
              /\ u.inode[j].count = t.inode[j].count - One(j, x)
    BY <2>1, PutTable DEF Good
  <2> HIDE DEF u
  <2>3. \A i : References(u, i) = References(t, i)
    BY <2>2, RefsSame DEF SameRest
  <2>4. Counted(u, NULL, y)
    <3> SUFFICES ASSUME NEW i \in InodePtr
                 PROVE  u.inode[i].count = References(u, i) + u.lost[i] + One(i, NULL) + One(i, y)
      BY DEF Counted
    <3>1. One(i, NULL) = 0
      BY Constant DEF One
    <3>2. u.inode[i].count = t.inode[i].count - One(i, x) /\ u.lost[i] = t.lost[i]
      BY <2>2 DEF SameRest
    <3> QED
      BY <2>3, <3>1, <3>2, GoodTerms
  <2>5. Kept(t, u)
    BY <2>2 DEF Kept
  <2> QED
    BY <2>2, <2>4, <2>5 DEF Good, u
<1> QED
  BY <1>1, <1>2

\* err_code is set: no count changes.
LEMMA ErrorGood ==
  ASSUME NEW t, NEW x, NEW y, Good(t, x, y)
  PROVE  /\ Good(Error(t), x, y) /\ Kept(t, Error(t))
         /\ Error(t).err /\ Error(t).panic = t.panic
<1> DEFINE u == Error(t)
<1>1. t \in Tables
  BY DEF Good, Tidy
<1>2. /\ u \in Tables /\ SameRest(t, u) /\ u.inode = t.inode /\ u.device = t.device
      /\ u.panic = t.panic
  BY <1>1 DEF Error, Tables, SameRest
<1>3. u.err
  BY <1>1 DEF Error, Tables
<1> HIDE DEF u
<1>4. \A i : References(u, i) = References(t, i)
  BY <1>2, RefsSame DEF SameRest
<1>5. Tidy(u)
  BY <1>2 DEF Good, Tidy, OneSlot, DeviceRight, UsedHasIno, IdleClean, LostBounded, SameRest
<1>6. Counted(u, x, y)
  BY <1>2, <1>4 DEF Good, Counted, SameRest
<1>7. Kept(t, u)
  BY <1>2 DEF Kept
<1> QED
  BY <1>2, <1>3, <1>5, <1>6, <1>7 DEF Good, u

\* A call fails, and puts the inode that it holds.
LEMMA FailsGood ==
  ASSUME NEW t, NEW x \in InodeOrNull, NEW y, Good(t, x, y)
  PROVE  /\ Fails(t, x).ip = NULL
         /\ Good(Fails(t, x).t, NULL, y) /\ Kept(t, Fails(t, x).t)
         /\ Fails(t, x).t.err /\ Fails(t, x).t.panic = t.panic
<1>1. Fails(t, x).ip = NULL /\ Fails(t, x).t = Error(inode_put(t, x))
  BY DEF Fails
<1> DEFINE u == inode_put(t, x)
           v == Error(u)
<1>2. Good(u, NULL, y) /\ Kept(t, u) /\ u.panic = t.panic
  BY PutGood
<1> HIDE DEF u
<1>3. Good(v, NULL, y) /\ Kept(u, v) /\ v.err /\ v.panic = u.panic
  BY <1>2, ErrorGood
<1>4. Fails(t, x).t = v
  BY <1>1 DEF u
<1> HIDE DEF v
<1> QED
  BY <1>1, <1>2, <1>3, <1>4, KeptTwice

\* inode_get: the call holds the inode that it returns; a full table is a panic.
LEMMA GetGood ==
  ASSUME NEW t, NEW y, Good(t, NULL, y), NEW ino \in Inos
  PROVE  /\ inode_get(t, ino).ip \in InodeOrNull
         /\ Good(inode_get(t, ino).t, inode_get(t, ino).ip, y) /\ Kept(t, inode_get(t, ino).t)
         /\ inode_get(t, ino).t.err = t.err
         /\ inode_get(t, ino).ip = NULL => inode_get(t, ino).t.panic
         /\ inode_get(t, ino).ip # NULL => inode_get(t, ino).t.panic = t.panic
<1> DEFINE u == inode_get(t, ino).t
           x == inode_get(t, ino).ip
<1>1. /\ x \in InodeOrNull /\ Tidy(u) /\ SameRest(t, u) /\ u.err = t.err
      /\ (x = NULL => u.panic) /\ (x # NULL => u.panic = t.panic)
      /\ \A j \in InodePtr :
              /\ u.inode[j].count = t.inode[j].count + One(j, x)
              /\ t.inode[j].count > 0 =>
                   u.inode[j].ino = t.inode[j].ino /\ u.inode[j].links = t.inode[j].links
  BY GetTable DEF Good
<1> HIDE DEF u, x
<1>2. \A i : References(u, i) = References(t, i)
  BY <1>1, RefsSame DEF SameRest
<1>3. \A i \in InodePtr : One(i, NULL) = 0
  BY Constant DEF One
<1>4. Counted(u, x, y)
  <2> SUFFICES ASSUME NEW i \in InodePtr
               PROVE  u.inode[i].count = References(u, i) + u.lost[i] + One(i, x) + One(i, y)
    BY DEF Counted
  <2>1. u.inode[i].count = t.inode[i].count + One(i, x) /\ u.lost[i] = t.lost[i] /\ One(i, x) \in 0 .. 1
    BY <1>1 DEF SameRest, One
  <2> QED
    BY <1>2, <1>3, <2>1, GoodTerms
<1>5. Kept(t, u)
  <2>1. \A i \in InodePtr : References(t, i) + t.lost[i] > 0 => t.inode[i].count > 0
    BY GoodTerms
  <2> QED
    BY <1>1, <2>1 DEF Kept
<1> QED
  BY <1>1, <1>4, <1>5 DEF Good, u, x

\* path_to_inode's count++ of the directory it starts at.
LEMMA StartGood ==
  ASSUME NEW t, NEW y, Good(t, NULL, y), NEW i \in InodePtr, t.inode[i].count > 0
  PROVE  /\ Good([t EXCEPT !.inode[i].count = @ + 1], i, y)
         /\ Kept(t, [t EXCEPT !.inode[i].count = @ + 1])
         /\ [t EXCEPT !.inode[i].count = @ + 1].err = t.err
         /\ [t EXCEPT !.inode[i].count = @ + 1].panic = t.panic
<1> DEFINE n == t.inode[i]
           m == [n EXCEPT !.count = @ + 1]
           u == Slot(t, i, m)
<1>1. t \in Tables
  BY DEF Good, Tidy
<1>2. [t EXCEPT !.inode[i].count = @ + 1] = u
  BY <1>1, TablesFields DEF Slot
<1>3. /\ m \in Slots /\ m.count = n.count + 1 /\ m.ino = n.ino /\ m.links = n.links
      /\ m.dirty = n.dirty
  BY <1>1, SlotFields DEF Slots
<1> HIDE DEF m
<1>4. /\ u \in Tables /\ SameRest(t, u) /\ u.device = t.device
      /\ u.err = t.err /\ u.panic = t.panic /\ u.inode[i] = m
      /\ \A j \in InodePtr : j # i => u.inode[j] = t.inode[j]
  BY <1>1, <1>3, SlotSet
<1> HIDE DEF u
<1>5. \A j \in InodePtr : /\ u.inode[j].ino = t.inode[j].ino /\ u.inode[j].links = t.inode[j].links
                          /\ u.inode[j].count = t.inode[j].count + One(j, i)
                          /\ u.inode[j].dirty = t.inode[j].dirty
  BY <1>1, <1>3, <1>4, SlotFields DEF One
<1>6. Tidy(u)
  <2>1. OneSlot(u) /\ LostBounded(u) /\ DeviceRight(u)
    BY <1>4, <1>5 DEF Good, Tidy, OneSlot, LostBounded, SameRest, DeviceRight
  <2>2. IdleClean(u) /\ UsedHasIno(u)
    BY <1>1, <1>3, <1>4, SlotFields DEF Good, Tidy, IdleClean, UsedHasIno
  <2> QED
    BY <1>4, <2>1, <2>2 DEF Tidy
<1>7. \A j : References(u, j) = References(t, j)
  BY <1>4, RefsSame DEF SameRest
<1>8. Counted(u, i, y)
  <2> SUFFICES ASSUME NEW j \in InodePtr
               PROVE  u.inode[j].count = References(u, j) + u.lost[j] + One(j, i) + One(j, y)
    BY DEF Counted
  <2>1. /\ u.inode[j].count = t.inode[j].count + One(j, i) /\ u.lost[j] = t.lost[j]
        /\ One(j, i) \in 0 .. 1 /\ One(j, NULL) = 0
    BY <1>4, <1>5, Constant DEF SameRest, One
  <2> QED
    BY <1>7, <2>1, GoodTerms
<1>9. Kept(t, u)
  BY <1>4, <1>5 DEF Kept
<1> QED
  BY <1>2, <1>4, <1>6, <1>8, <1>9 DEF Good

-----------------------------------------------------------------------------
(* Path names. *)

Walks == [t : Tables, ip : InodeOrNull]

\* What path_to_inode has and returns: one more held inode, or an error; an error that is
\* not there before comes without an inode.
Walked(t, y, w) ==
  /\ w \in Walks /\ Good(w.t, w.ip, y) /\ Kept(t, w.t)
  /\ w.ip = NULL => w.t.err \/ w.t.panic
  /\ w.t.err => t.err \/ w.ip = NULL
  /\ w.t.panic => t.panic \/ w.ip = NULL

\* A path that fails half-way puts the inode it has come to.
LEMMA FailsWalked ==
  ASSUME NEW t, NEW y, NEW u, Kept(t, u), NEW x \in InodeOrNull, Good(u, x, y)
  PROVE  Walked(t, y, Fails(u, x))
<1>1. /\ Fails(u, x).ip = NULL /\ Good(Fails(u, x).t, NULL, y) /\ Kept(u, Fails(u, x).t)
      /\ Fails(u, x).t.err
  BY FailsGood
<1>2. Fails(u, x) \in Walks
  <2>1. Fails(u, x) = [t |-> Error(inode_put(u, x)), ip |-> NULL]
    BY DEF Fails
  <2>2. Error(inode_put(u, x)) \in Tables
    BY <1>1, <2>1 DEF Good, Tidy
  <2> QED
    BY <2>1, <2>2 DEF Walks, InodeOrNull
<1>3. Kept(t, Fails(u, x).t)
  BY <1>1, KeptTwice
<1> QED
  BY <1>1, <1>2, <1>3 DEF Walked

\* search_dir finds an inode of the device, or none.
LEMMA Found ==
  ASSUME NEW ino \in Inos, NEW name
  PROVE  search_dir(ino, name) \in Inos \cup {0}
  BY FilesAssumption DEF search_dir

\* One turn of its loop.
LEMMA NextComponent ==
  ASSUME NEW t, NEW y, NEW w, Walked(t, y, w), NEW path, NEW deny, NEW k
  PROVE  Walked(t, y, next_component(w, path, deny, k))
<1> DEFINE v   == next_component(w, path, deny, k)
           ino == search_dir(w.t.inode[w.ip].ino, SubSeq(path.comps, 1, k))
           u   == inode_put(w.t, w.ip)
           got == inode_get(u, ino)
<1>1. /\ w.t \in Tables /\ w.ip \in InodeOrNull /\ Good(w.t, w.ip, y) /\ Kept(t, w.t)
  BY DEF Walked, Walks
<1>2. CASE w.t.err \/ w.t.panic
  <2>1. v = w
    BY <1>2 DEF next_component
  <2> QED
    BY <2>1
<1>3. CASE ~w.t.err /\ ~w.t.panic /\ (deny = k \/ ino = 0)
  <2>1. v = Fails(w.t, w.ip)
    BY <1>3 DEF next_component
  <2> QED
    BY <1>1, <2>1, FailsWalked
<1>4. CASE ~w.t.err /\ ~w.t.panic /\ ~(deny = k \/ ino = 0)
  <2>1. w.ip \in InodePtr
    BY <1>1, <1>4 DEF Walked, InodeOrNull
  <2>2. w.t.inode[w.ip].ino \in Inos
    <3>1. PICK z \in InodePtr : z = w.ip
      BY <2>1
    <3>2. PICK g : g = w.t
      OBVIOUS
    <3>3. g.inode[z].ino \in Inos
      BY <1>1, <3>1, <3>2, HeldInUse
    <3> QED
      BY <3>1, <3>2, <3>3
  <2>3. ino \in Inos
    BY <1>4, <2>2, Found
  <2>4. Good(u, NULL, y) /\ Kept(w.t, u) /\ u.err = w.t.err /\ u.panic = w.t.panic
    BY <1>1, PutGood
  <2>5. v = IF got.t.panic \/ ~Slashed(path, k) \/ KindOf(got.t, got.ip) = "dir" THEN got
            ELSE Fails(got.t, got.ip)
    BY <1>4 DEF next_component
  <2> HIDE DEF ino, u
  <2>6. /\ got.ip \in InodeOrNull /\ Good(got.t, got.ip, y) /\ Kept(u, got.t)
        /\ got.t.err = u.err /\ (got.ip = NULL => got.t.panic)
        /\ (got.ip # NULL => got.t.panic = u.panic)
    BY <2>3, <2>4, GetGood
  <2>7. Kept(t, got.t)
    BY <1>1, <2>4, <2>6, KeptTwice
  <2>8. got \in Walks
    <3>1. got = [t |-> got.t, ip |-> got.ip]
      BY DEF inode_get
    <3>2. got.t \in Tables
      BY <2>6 DEF Good, Tidy
    <3> HIDE DEF got
    <3> QED
      BY <2>6, <3>1, <3>2 DEF Walks
  <2> HIDE DEF got
  <2>9. Walked(t, y, got)
    BY <1>4, <2>4, <2>6, <2>7, <2>8 DEF Walked
  <2>10. Walked(t, y, Fails(got.t, got.ip))
    BY <2>6, <2>7, FailsWalked
  <2> QED
    BY <2>5, <2>9, <2>10
<1> QED
  BY <1>2, <1>3, <1>4

\* A path that starts at a directory of a process.
Begins(t, p, path) ==
  /\ p \in Pids /\ Len(path.comps) \in Nat
  /\ start_dir(t, p, path) \in InodePtr
  /\ t.inode[start_dir(t, p, path)].links > 0

\* The directory a path starts at is one of its process' directories.
LEMMA StartReferred ==
  ASSUME NEW t, NEW p, NEW path, Begins(t, p, path)
  PROVE  References(t, start_dir(t, p, path)) >= 1
<1>1. p \in Pids /\ (\/ start_dir(t, p, path) = t.proc[p].root
                     \/ start_dir(t, p, path) = t.proc[p].work)
  BY DEF Begins, start_dir
<1> QED
  BY <1>1, RefsSome

\* path_to_inode, by as many turns as the path has components: the caller holds the inode
\* it finds, or none, whichever component fails.
LEMMA PathWalked ==
  ASSUME NEW t, NEW y, Good(t, NULL, y), NEW p, NEW path, NEW deny, Begins(t, p, path)
  PROVE  Walked(t, y, path_to_inode(t, p, path, deny))
<1> DEFINE start == start_dir(t, p, path)
           n     == Len(path.comps)
           first == [t |-> [t EXCEPT !.inode[start].count = @ + 1], ip |-> start]
           walk[k \in 0 .. n] ==
             IF k = 0 THEN first ELSE next_component(walk[k - 1], path, deny, k)
           S == {w \in Walks : Walked(t, y, w)}
           G == [z \in (1 .. n) \X S |-> next_component(z[2], path, deny, z[1])]
<1>1. n \in Nat /\ start \in InodePtr /\ t.inode[start].links # 0
  BY DEF Begins
<1>2. path_to_inode(t, p, path, deny) = IF n = 0 /\ ~path.abs THEN Fails(t, NULL) ELSE walk[n]
  BY <1>1 DEF path_to_inode
<1>3. Walked(t, y, Fails(t, NULL))
  BY KeptSelf, FailsWalked DEF InodeOrNull
<1>4. t.inode[start].count > 0
  <2> HIDE DEF start
  <2>1. References(t, start) >= 1
    BY StartReferred DEF start
  <2>2. /\ References(t, start) \in Nat /\ t.lost[start] \in Nat
        /\ One(start, NULL) \in 0 .. 1 /\ One(start, y) \in 0 .. 1
        /\ t.inode[start].count = References(t, start) + t.lost[start] + One(start, NULL)
                                  + One(start, y)
    BY <1>1, GoodTerms
  <2> QED
    BY <2>1, <2>2
<1>5. first \in S
  <2> DEFINE u == [t EXCEPT !.inode[start].count = @ + 1]
  <2>1. Good(u, start, y) /\ Kept(t, u) /\ u.err = t.err /\ u.panic = t.panic
    <3> HIDE DEF start
    <3> QED
      BY <1>1, <1>4, StartGood
  <2>2. first.t = u /\ first.ip = start /\ first = [t |-> u, ip |-> start]
    OBVIOUS
  <2>3. u \in Tables /\ start \in InodeOrNull
    BY <1>1, <2>1 DEF Good, Tidy, InodeOrNull
  <2> HIDE DEF u
  <2>4. first \in Walks
    BY <2>2, <2>3 DEF Walks
  <2>5. start # NULL
    BY <1>1, Constant
  <2> HIDE DEF first
  <2>6. Walked(t, y, first)
    BY <2>1, <2>2, <2>4, <2>5 DEF Walked
  <2> QED
    BY <2>4, <2>6
<1> HIDE DEF first, start
<1>6. ASSUME NEW k \in 1 .. n, NEW w \in S PROVE next_component(w, path, deny, k) \in S
  BY NextComponent DEF Walked
<1> HIDE DEF S
<1>7. G \in [(1 .. n) \X S -> S]
  BY <1>6
<1>8. PICK f \in [0 .. n -> S] : Turns(n, first, G, f)
  <2> HIDE DEF G, n
  <2> QED
    BY <1>1, <1>5, <1>7, LoopExists
<1>9. f = [k \in 0 .. n |-> IF k = 0 THEN first ELSE next_component(f[k - 1], path, deny, k)]
  <2>1. \A k \in 0 .. n : k # 0 => G[<<k, f[k - 1]>>] = next_component(f[k - 1], path, deny, k)
    BY <1>1
  <2> HIDE DEF G
  <2>2. \A k \in 0 .. n : f[k] = IF k = 0 THEN first ELSE next_component(f[k - 1], path, deny, k)
    BY <1>8, <2>1 DEF Turns
  <2> QED
    BY <2>2
<1>10. walk = [k \in 0 .. n |-> IF k = 0 THEN first ELSE next_component(walk[k - 1], path, deny, k)]
  BY <1>9 DEF walk
<1> HIDE DEF walk
<1> DEFINE A == {k \in 0 .. n : walk[k] \in S}
<1>11. 0 \in A
  BY <1>1, <1>5, <1>10
<1>12. ASSUME NEW k \in 0 .. n - 1, k \in A PROVE k + 1 \in A
  <2>1. k + 1 \in 1 .. n /\ (k + 1) - 1 = k /\ k + 1 # 0
    BY <1>1
  <2>2. walk[k + 1] = next_component(walk[k], path, deny, k + 1)
    BY <1>10, <2>1
  <2> QED
    BY <1>6, <1>12, <2>1, <2>2
<1> HIDE DEF A
<1>13. n \in A
  <2>1. n \in Nat
    BY <1>1
  <2> HIDE DEF n
  <2>2. \A k \in 0 .. n - 1 : k \in A => k + 1 \in A
    BY <1>12
  <2>3. \A k \in 0 .. n : k \in A
    BY <1>11, <2>1, <2>2, UpTo
  <2> QED
    BY <2>1, <2>3
<1>14. Walked(t, y, walk[n])
  BY <1>13 DEF A, S
<1> QED
  BY <1>2, <1>3, <1>14

-----------------------------------------------------------------------------
(* From one state between two calls to another. *)

\* The inodes that the tables refer to stay where they are; their contents may change.
SameInos(t, u) ==
  /\ SameRest(t, u)
  /\ \A i \in InodePtr : References(t, i) + t.lost[i] > 0 => u.inode[i].ino = t.inode[i].ino

\* Inodes that are kept with their links are kept.
LEMMA KeptInos ==
  ASSUME NEW t, NEW u, Kept(t, u)
  PROVE  SameInos(t, u)
  BY DEF Kept, SameInos

\* One such change after the other.
LEMMA SameInosTwice ==
  ASSUME NEW t, NEW u, NEW v, SameInos(t, u), SameInos(u, v)
  PROVE  SameInos(t, v)
<1>1. u.lost = t.lost /\ \A i : References(u, i) = References(t, i)
  BY RefsSame DEF SameInos, SameRest
<1>2. SameRest(t, v)
  BY DEF SameInos, SameRest
<1> QED
  BY <1>1, <1>2 DEF SameInos

\* The file pointers to devices are the same, and the lost ones.
LEMMA OpensKept ==
  ASSUME NEW t, NEW u, Tidy(t), OpensMatch(t), SameInos(t, u)
  PROVE  OpensMatch(u)
<1>1. \A i \in InodePtr : References(t, i) \in Nat /\ t.lost[i] \in Nat
  BY RefsBound, Constant, TablesFields DEF Tidy
<1>2. DevPtrs(u) = DevPtrs(t)
  <2> SUFFICES ASSUME NEW f \in PtrOrNull
               PROVE  IsDev(u, u.file_ptr[f].inode) <=> IsDev(t, t.file_ptr[f].inode)
    BY DEF DevPtrs, PtrOrNull
  <2> DEFINE i == t.file_ptr[f].inode
  <2>1. u.file_ptr[f].inode = i /\ i \in InodeOrNull
    BY TablesFields DEF Tidy, FilePtrs, SameInos, SameRest
  <2>2. CASE i = NULL
    BY <2>1, <2>2 DEF IsDev
  <2>3. CASE i \in InodePtr
    <3>1. References(t, i) >= 1
      BY RefsSome
    <3>2. u.inode[i].ino = t.inode[i].ino
      BY <1>1, <2>3, <3>1 DEF SameInos
    <3> QED
      BY <2>1, <3>2 DEF IsDev, KindOf
  <2> QED
    BY <2>1, <2>2, <2>3 DEF InodeOrNull
<1>3. DevLost(u) = DevLost(t)
  <2> SUFFICES ASSUME NEW i \in InodePtr, NEW n \in 1 .. MaxLost + 1, n <= t.lost[i]
               PROVE  IsDev(u, i) <=> IsDev(t, i)
    BY DEF DevLost, SameInos, SameRest
  <2>1. References(t, i) + t.lost[i] > 0
    BY <1>1, Constant
  <2> QED
    BY <2>1 DEF IsDev, KindOf, SameInos
<1> QED
  BY <1>2, <1>3 DEF OpensMatch, SameInos, SameRest

\* A call that has changed inodes only, and holds none any more.
LEMMA Settled ==
  ASSUME NEW t, Steady(t), NEW u, Good(u, NULL, NULL), SameInos(t, u)
  PROVE  Steady(u) /\ (Diagonal(t) => Diagonal(u))
<1>1. OpensMatch(u)
  BY OpensKept DEF Steady, Good
<1>2. u.file_ptr = t.file_ptr /\ u.proc = t.proc
  BY DEF SameInos, SameRest
<1> QED
  BY <1>1, <1>2 DEF Steady, FreePtrs, Dirs, Diagonal

\* Other contents of a slot that is held, with the same inode.
LEMMA SlotGood ==
  ASSUME NEW t, NEW x, NEW y, Good(t, x, y), NEW i \in InodePtr, NEW m \in Slots,
         t.inode[i].count > 0, m.ino = t.inode[i].ino, m.count = t.inode[i].count,
         m.dirty \/ (m.links = t.inode[i].links /\ ~t.inode[i].dirty)
  PROVE  /\ Good(Slot(t, i, m), x, y) /\ SameInos(t, Slot(t, i, m))
         /\ Slot(t, i, m).err = t.err /\ Slot(t, i, m).panic = t.panic
<1> DEFINE u == Slot(t, i, m)
<1>1. t \in Tables
  BY DEF Good, Tidy
<1>2. /\ u \in Tables /\ SameRest(t, u) /\ u.device = t.device
      /\ u.err = t.err /\ u.panic = t.panic /\ u.inode[i] = m
      /\ \A j \in InodePtr : j # i => u.inode[j] = t.inode[j]
  BY <1>1, SlotSet
<1> HIDE DEF u
<1>3. \A j \in InodePtr : u.inode[j].ino = t.inode[j].ino /\ u.inode[j].count = t.inode[j].count
  BY <1>2
<1>4. DeviceRight(u)
  BY <1>2 DEF Good, Tidy, DeviceRight
<1>5. IdleClean(u)
  BY <1>1, <1>2, SlotFields DEF Good, Tidy, IdleClean
<1>6. OneSlot(u) /\ UsedHasIno(u) /\ LostBounded(u)
  BY <1>2, <1>3 DEF Good, Tidy, OneSlot, UsedHasIno, LostBounded, SameRest
<1>7. \A j : References(u, j) = References(t, j)
  BY <1>2, RefsSame DEF SameRest
<1>8. Counted(u, x, y)
  BY <1>2, <1>3, <1>7 DEF Good, Counted, SameRest
<1>9. SameInos(t, u)
  BY <1>2, <1>3 DEF SameInos
<1> QED
  BY <1>2, <1>4, <1>5, <1>6, <1>8, <1>9 DEF Good, Tidy, u

\* inode_rw(WRITE) changes no count.
LEMMA WriteGood ==
  ASSUME NEW t, NEW x, NEW y, Good(t, x, y), NEW i \in InodePtr
  PROVE  /\ Good(inode_write(t, i), x, y) /\ SameInos(t, inode_write(t, i))
         /\ inode_write(t, i).err = t.err /\ inode_write(t, i).panic = t.panic
<1> DEFINE u == inode_write(t, i)
<1>1. t \in Tables /\ OneSlot(t) /\ DeviceRight(t)
  BY DEF Good, Tidy
<1>2. t.inode[i].dirty => t.inode[i].ino # 0
  <2>1. t.inode[i].dirty => t.inode[i].count > 0
    BY <1>1, SlotFields DEF Good, Tidy, IdleClean
  <2> QED
    BY <2>1 DEF Good, Tidy, UsedHasIno
<1>3. /\ u \in Tables /\ SameRest(t, u) /\ u.err = t.err /\ u.panic = t.panic
      /\ \A j \in InodePtr :
              /\ u.inode[j].ino = t.inode[j].ino
              /\ u.inode[j].count = t.inode[j].count
              /\ j # i => u.inode[j].dirty = t.inode[j].dirty
      /\ ~u.inode[i].dirty /\ DeviceRight(u)
  BY <1>1, <1>2, WriteTable
<1> HIDE DEF u
<1>4. OneSlot(u) /\ UsedHasIno(u) /\ LostBounded(u)
  BY <1>3 DEF Good, Tidy, OneSlot, UsedHasIno, LostBounded, SameRest
<1>5. IdleClean(u)
  <2> SUFFICES ASSUME NEW j \in InodePtr, u.inode[j].count = 0, j # i
               PROVE  ~u.inode[j].dirty
    BY <1>3 DEF IdleClean
  <2>1. t.inode[j].count = 0
    BY <1>3
  <2>2. ~t.inode[j].dirty
    BY <2>1 DEF Good, Tidy, IdleClean
  <2> QED
    BY <1>3, <2>2
<1>6. \A j : References(u, j) = References(t, j)
  BY <1>3, RefsSame DEF SameRest
<1>7. Counted(u, x, y)
  BY <1>3, <1>6 DEF Good, Counted, SameRest
<1>8. SameInos(t, u)
  BY <1>3 DEF SameInos
<1> QED
  BY <1>3, <1>4, <1>5, <1>7, <1>8 DEF Good, Tidy, u

\* The same inodes under other tables: what the tables and the call refer to is the same
\* in all.
LEMMA Reshaped ==
  ASSUME NEW t, NEW x, NEW y, Good(t, x, y), NEW u \in Tables, NEW v, NEW z,
         u.inode = t.inode, u.device = t.device, LostBounded(u),
         \A i \in InodePtr : References(u, i) + u.lost[i] + One(i, v) + One(i, z)
                             = References(t, i) + t.lost[i] + One(i, x) + One(i, y)
  PROVE  Good(u, v, z)
<1>1. OneSlot(u) /\ DeviceRight(u) /\ IdleClean(u) /\ UsedHasIno(u)
  BY DEF Good, Tidy, OneSlot, DeviceRight, IdleClean, UsedHasIno
<1>2. Counted(u, v, z)
  BY DEF Good, Counted
<1> QED
  BY <1>1, <1>2 DEF Good, Tidy

\* Tables that refer to the same inodes, whatever else they have.
LEMMA RefsLike ==
  ASSUME NEW t, NEW u, u.super = t.super,
         \A p \in Pids : u.proc[p].root = t.proc[p].root /\ u.proc[p].work = t.proc[p].work,
         \A f \in PtrOrNull : u.file_ptr[f].inode = t.file_ptr[f].inode
  PROVE  \A i : References(u, i) = References(t, i)
<1> TAKE i
<1>1. Roots(u, i) = Roots(t, i) /\ Works(u, i) = Works(t, i) /\ PtrsTo(u, i) = PtrsTo(t, i)
  BY DEF Roots, Works, PtrsTo
<1> QED
  BY <1>1, RefsBound

\* An entry of a descriptor table.
Descr(t, q, d, f) == [t EXCEPT !.proc[q].descr[d] = f]

\* A descriptor is no reference to an inode.
LEMMA DescrGood ==
  ASSUME NEW t, NEW x, NEW y, Good(t, x, y),
         NEW q \in Pids, NEW d \in Fildes, NEW f \in PtrOrNull
  PROVE  /\ Good(Descr(t, q, d, f), x, y)
         /\ Descr(t, q, d, f).inode = t.inode /\ Descr(t, q, d, f).file_ptr = t.file_ptr
         /\ Descr(t, q, d, f).err = t.err /\ Descr(t, q, d, f).panic = t.panic
         /\ Descr(t, q, d, f).lost = t.lost
         /\ \A p \in Pids : /\ Descr(t, q, d, f).proc[p].root = t.proc[p].root
                            /\ Descr(t, q, d, f).proc[p].work = t.proc[p].work
         /\ \A p \in Pids, e \in Fildes :
              Descr(t, q, d, f).proc[p].descr[e] = IF p = q /\ e = d THEN f
                                                   ELSE t.proc[p].descr[e]
         /\ OpensMatch(t) => OpensMatch(Descr(t, q, d, f))
         /\ FreePtrs(t) => FreePtrs(Descr(t, q, d, f))
         /\ Dirs(t) => Dirs(Descr(t, q, d, f))
         /\ Diagonal(t) /\ (q = d \/ f = NULL) => Diagonal(Descr(t, q, d, f))
<1> DEFINE u == Descr(t, q, d, f)
           a == [t.proc[q].descr EXCEPT ![d] = f]
           b == [t.proc[q] EXCEPT !.descr = a]
           c == [t.proc EXCEPT ![q] = b]
<1>1. t \in Tables /\ t.proc \in [Pids -> Procs] /\ t.proc[q] \in Procs
      /\ t.proc[q].descr \in [Fildes -> PtrOrNull]
  BY TablesFields DEF Good, Tidy, Procs
<1>2. a \in [Fildes -> PtrOrNull] /\ \A e \in Fildes : a[e] = IF e = d THEN f ELSE t.proc[q].descr[e]
  BY <1>1
<1>3. u = [t EXCEPT !.proc = c]
  BY <1>1 DEF Descr, Procs, Tables
<1> HIDE DEF a
<1>4. b \in Procs /\ b.root = t.proc[q].root /\ b.work = t.proc[q].work /\ b.descr = a
  BY <1>1, <1>2 DEF Procs
<1> HIDE DEF b
<1>5. /\ c \in [Pids -> Procs] /\ c[q] = b /\ \A p \in Pids : p # q => c[p] = t.proc[p]
  BY <1>1, <1>4
<1> HIDE DEF c
<1>6. /\ u \in Tables /\ u.proc = c /\ u.inode = t.inode /\ u.device = t.device
      /\ u.file_ptr = t.file_ptr /\ u.err = t.err /\ u.panic = t.panic /\ u.opens = t.opens
      /\ u.lost = t.lost /\ u.super = t.super
  BY <1>1, <1>3, <1>5 DEF Tables
<1> HIDE DEF u
<1>7. \A p \in Pids : u.proc[p].root = t.proc[p].root /\ u.proc[p].work = t.proc[p].work
  BY <1>4, <1>5, <1>6
<1>8. \A p \in Pids, e \in Fildes : u.proc[p].descr[e] = IF p = q /\ e = d THEN f
                                                         ELSE t.proc[p].descr[e]
  BY <1>2, <1>4, <1>5, <1>6
<1>9. \A i : References(u, i) = References(t, i)
  BY <1>6, <1>7, RefsLike
<1>10. Good(u, x, y)
  <2>1. LostBounded(u)
    BY <1>6 DEF Good, Tidy, LostBounded
  <2> QED
    BY <1>6, <1>9, <2>1, Reshaped
<1>11. OpensMatch(t) => OpensMatch(u)
  <2>1. \A i : IsDev(u, i) <=> IsDev(t, i)
    BY <1>6 DEF IsDev, KindOf
  <2>2. DevPtrs(u) = DevPtrs(t) /\ DevLost(u) = DevLost(t)
    BY <1>6, <2>1 DEF DevPtrs, DevLost
  <2> QED
    BY <1>6, <2>2 DEF OpensMatch
<1>12. (FreePtrs(t) => FreePtrs(u)) /\ (Dirs(t) => Dirs(u))
  BY <1>6, <1>7, Constant DEF FreePtrs, Dirs
<1>13. Diagonal(t) /\ (q = d \/ f = NULL) => Diagonal(u)
  BY <1>8 DEF Diagonal
<1> QED
  BY <1>6, <1>7, <1>8, <1>10, <1>11, <1>12, <1>13 DEF u

\* The same, between two calls.
LEMMA DescrSteady ==
  ASSUME NEW t, Steady(t), NEW q \in Pids, NEW d \in Fildes, NEW f \in PtrOrNull
  PROVE  Steady(Descr(t, q, d, f))
  BY DescrGood DEF Steady

\* A call that only fails.
LEMMA ErrorSteady ==
  ASSUME NEW t, Steady(t)
  PROVE  /\ Steady(Error(t)) /\ (Diagonal(t) => Diagonal(Error(t)))
         /\ Error(t).file_ptr = t.file_ptr
<1>1. Good(Error(t), NULL, NULL) /\ Kept(t, Error(t))
  BY ErrorGood DEF Steady
<1> QED
  BY <1>1, KeptInos, Settled DEF Kept, SameRest

-----------------------------------------------------------------------------
(* The calls on names. *)

\* A call that began in t puts the inode that it still holds.
LEMMA PutSteady ==
  ASSUME NEW t, Steady(t), NEW u, SameInos(t, u), NEW x \in InodeOrNull, Good(u, x, NULL)
  PROVE  Steady(inode_put(u, x)) /\ (Diagonal(t) => Diagonal(inode_put(u, x)))
<1>1. Good(inode_put(u, x), NULL, NULL) /\ Kept(u, inode_put(u, x))
  BY PutGood
<1>2. SameInos(t, inode_put(u, x))
  BY <1>1, KeptInos, SameInosTwice
<1> QED
  BY <1>1, <1>2, Settled

\* ... and fails.
LEMMA PutErrorSteady ==
  ASSUME NEW t, Steady(t), NEW u, SameInos(t, u), NEW x \in InodeOrNull, Good(u, x, NULL)
  PROVE  /\ Steady(Error(inode_put(u, x)))
         /\ Diagonal(t) => Diagonal(Error(inode_put(u, x)))
<1> DEFINE v == inode_put(u, x)
<1>1. Steady(v) /\ (Diagonal(t) => Diagonal(v))
  BY PutSteady
<1> HIDE DEF v
<1>2. Steady(Error(v)) /\ (Diagonal(v) => Diagonal(Error(v)))
  BY <1>1, ErrorSteady
<1> QED
  BY <1>1, <1>2 DEF v

\* ... after it has changed its link count.
LEMMA RelinkSteady ==
  ASSUME NEW t, Steady(t), NEW u, SameInos(t, u), NEW x \in InodePtr, Good(u, x, NULL),
         NEW k \in Nat
  PROVE  /\ Steady(inode_put(Relinked(u, x, k), x))
         /\ Diagonal(t) => Diagonal(inode_put(Relinked(u, x, k), x))
<1> DEFINE n == u.inode[x]
           m == [n EXCEPT !.links = k, !.dirty = TRUE]
<1>1. u \in Tables /\ n \in Slots /\ n.count > 0
  BY HeldInUse
<1>2. m \in Slots /\ m.ino = n.ino /\ m.count = n.count
  BY <1>1 DEF Slots
<1>3. m.dirty
  BY <1>1 DEF Slots
<1>4. Relinked(u, x, k) = Slot(u, x, m)
  BY <1>1, TablesFields DEF Relinked, Slot
<1> HIDE DEF m
<1> DEFINE v == Slot(u, x, m)
<1>5. Good(v, x, NULL) /\ SameInos(u, v)
  BY <1>1, <1>2, <1>3, SlotGood
<1> HIDE DEF v
<1>6. SameInos(t, v) /\ x \in InodeOrNull
  BY <1>5, SameInosTwice DEF InodeOrNull
<1>7. Steady(inode_put(v, x)) /\ (Diagonal(t) => Diagonal(inode_put(v, x)))
  BY <1>5, <1>6, PutSteady
<1> QED
  BY <1>4, <1>7 DEF v

\* A path found nothing.
LEMMA NoPathSteady ==
  ASSUME NEW t, Steady(t), NEW w, Walked(t, NULL, w), w.ip = NULL
  PROVE  Steady(w.t) /\ (Diagonal(t) => Diagonal(w.t))
<1>1. Good(w.t, NULL, NULL) /\ SameInos(t, w.t)
  BY KeptInos DEF Walked
<1> QED
  BY <1>1, Settled

\* access, stat, utime, chown and chmod.
LEMMA NameSteady ==
  ASSUME NEW t, Steady(t), NEW p, NEW path, Begins(t, p, path), NEW deny,
         NEW changes \in BOOLEAN
  PROVE  /\ Steady(NameCall(t, p, path, deny, changes))
         /\ Diagonal(t) => Diagonal(NameCall(t, p, path, deny, changes))
<1>1. PICK w : w = path_to_inode(t, p, path, deny)
  OBVIOUS
<1>2. Walked(t, NULL, w)
  BY <1>1, PathWalked DEF Steady
<1>3. NameCall(t, p, path, deny, changes) =
        IF w.ip = NULL THEN w.t
        ELSE inode_put([w.t EXCEPT !.inode[w.ip].dirty = @ \/ changes], w.ip)
  BY <1>1 DEF NameCall
<1>4. CASE w.ip = NULL
  BY <1>2, <1>3, <1>4, NoPathSteady
<1>5. CASE w.ip # NULL
  <2> DEFINE i == w.ip
             u == w.t
             n == u.inode[i]
             m == [n EXCEPT !.dirty = @ \/ changes]
             v == Slot(u, i, m)
  <2>1. /\ i \in InodePtr /\ i \in InodeOrNull /\ u \in Tables /\ Good(u, i, NULL)
        /\ SameInos(t, u)
    BY <1>2, <1>5, KeptInos DEF Walked, Walks, InodeOrNull
  <2>2. n \in Slots /\ n.count > 0 /\ n.dirty \in BOOLEAN
    BY <2>1, HeldInUse
  <2>3. m \in Slots /\ m.ino = n.ino /\ m.count = n.count /\ m.links = n.links
    BY <2>2 DEF Slots
  <2>4. m.dirty = (n.dirty \/ changes)
    BY <2>2 DEF Slots
  <2>5. m.dirty \/ (m.links = n.links /\ ~n.dirty)
    BY <2>3, <2>4
  <2>6. [u EXCEPT !.inode[i].dirty = @ \/ changes] = v
    BY <2>1, TablesFields DEF Slot
  <2> HIDE DEF m
  <2>7. Good(v, i, NULL) /\ SameInos(u, v)
    BY <2>1, <2>2, <2>3, <2>5, SlotGood
  <2> HIDE DEF v
  <2>8. SameInos(t, v)
    BY <2>1, <2>7, SameInosTwice
  <2>9. Steady(inode_put(v, i)) /\ (Diagonal(t) => Diagonal(inode_put(v, i)))
    BY <2>1, <2>7, <2>8, PutSteady
  <2>10. NameCall(t, p, path, deny, changes) = inode_put(v, i)
    BY <1>3, <1>5, <2>6
  <2> QED
    BY <2>9, <2>10
<1> QED
  BY <1>4, <1>5

\* do_fs_unlink.
LEMMA UnlinkSteady ==
  ASSUME NEW t, Steady(t), NEW p, NEW path, Begins(t, p, path), NEW deny, NEW su
  PROVE  /\ Steady(do_fs_unlink(t, p, path, deny, su))
         /\ Diagonal(t) => Diagonal(do_fs_unlink(t, p, path, deny, su))
<1> DEFINE z == do_fs_unlink(t, p, path, deny, su)
<1>1. PICK w : w = path_to_inode(t, p, path, deny)
  OBVIOUS
<1>2. Walked(t, NULL, w)
  BY <1>1, PathWalked DEF Steady
<1> DEFINE k == (w.t.inode[w.ip].links + 65535) % 65536
<1>3. \/ w.ip = NULL /\ z = w.t
      \/ w.ip # NULL /\ z = Error(inode_put(w.t, w.ip))
      \/ w.ip # NULL /\ z = inode_put(Relinked(w.t, w.ip, k), w.ip)
  BY <1>1 DEF do_fs_unlink
<1> HIDE DEF z, k
<1>4. CASE w.ip = NULL /\ z = w.t
  BY <1>2, <1>4, NoPathSteady DEF z
<1>5. ASSUME w.ip # NULL
      PROVE  /\ w.ip \in InodePtr /\ w.ip \in InodeOrNull /\ w.t \in Tables
             /\ Good(w.t, w.ip, NULL) /\ SameInos(t, w.t)
  BY <1>2, <1>5, KeptInos DEF Walked, Walks, InodeOrNull
<1>6. CASE w.ip # NULL /\ z = Error(inode_put(w.t, w.ip))
  BY <1>5, <1>6, PutErrorSteady DEF z
<1>7. CASE w.ip # NULL /\ z = inode_put(Relinked(w.t, w.ip, k), w.ip)
  <2>1. k \in Nat
    <3>1. w.t.inode[w.ip].links \in Nat
      BY <1>5, <1>7, SlotFields
    <3> QED
      BY <3>1 DEF k
  <2> QED
    BY <1>5, <1>7, <2>1, RelinkSteady DEF z
<1> QED
  BY <1>3, <1>4, <1>6, <1>7

\* A second path can start where it could before the first was walked.
LEMMA BeginsKept ==
  ASSUME NEW t, Tidy(t), NEW u, Kept(t, u), NEW p, NEW path, Begins(t, p, path)
  PROVE  Begins(u, p, path)
<1> DEFINE i == start_dir(t, p, path)
<1>1. start_dir(u, p, path) = i
  BY DEF start_dir, Kept, SameRest
<1>2. i \in InodePtr /\ References(t, i) >= 1
  BY StartReferred DEF Begins
<1>3. References(t, i) + t.lost[i] > 0
  <2>1. References(t, i) \in Nat /\ t.lost[i] \in Nat
    BY <1>2, RefsBound, Constant, TablesFields DEF Tidy
  <2> QED
    BY <1>2, <2>1
<1>4. u.inode[i].links = t.inode[i].links
  BY <1>2, <1>3 DEF Kept
<1> QED
  BY <1>1, <1>4 DEF Begins

\* do_fs_link, which holds the inodes of two paths.
LEMMA LinkSteady ==
  ASSUME NEW t, Steady(t), NEW p, NEW path1, Begins(t, p, path1),
         NEW path2, Begins(t, p, path2), NEW deny, NEW su
  PROVE  /\ Steady(do_fs_link(t, p, path1, path2, deny, su))
         /\ Diagonal(t) => Diagonal(do_fs_link(t, p, path1, path2, deny, su))
<1> DEFINE z == do_fs_link(t, p, path1, path2, deny, su)
<1>1. PICK a : a = path_to_inode(t, p, path1, deny)
  OBVIOUS
<1>2. PICK b : b = path_to_inode(a.t, p, path2, deny)
  OBVIOUS
<1>3. Walked(t, NULL, a)
  BY <1>1, PathWalked DEF Steady
<1>4. /\ Good(a.t, NULL, a.ip) /\ a.ip \in InodeOrNull /\ Kept(t, a.t)
  BY <1>3, GoodSwap DEF Walked, Walks
<1>5. Begins(a.t, p, path2)
  BY <1>4, BeginsKept DEF Steady, Good
<1>6. Walked(a.t, a.ip, b)
  BY <1>2, <1>4, <1>5, PathWalked
<1>7. /\ Good(b.t, b.ip, a.ip) /\ Good(b.t, a.ip, b.ip) /\ b.ip \in InodeOrNull /\ b.t \in Tables
      /\ Kept(a.t, b.t)
  BY <1>6, GoodSwap DEF Walked, Walks
<1>8. SameInos(t, b.t)
  BY <1>4, <1>7, KeptTwice, KeptInos
<1> DEFINE v == inode_put(b.t, a.ip)
<1>9. Good(v, NULL, b.ip) /\ Good(v, b.ip, NULL) /\ Kept(b.t, v)
  BY <1>4, <1>7, PutGood, GoodSwap
<1> HIDE DEF v
<1>10. SameInos(t, v)
  BY <1>8, <1>9, KeptInos, SameInosTwice
<1> DEFINE k == b.t.inode[a.ip].links + 1
<1>11. \/ z = inode_put(v, b.ip)
       \/ z = Error(inode_put(v, b.ip))
       \/ a.ip # NULL /\ b.ip = NULL /\ z = inode_put(Relinked(b.t, a.ip, k), a.ip)
  BY <1>1, <1>2 DEF do_fs_link, v
<1> HIDE DEF z, k
<1>12. CASE z = inode_put(v, b.ip)
  BY <1>7, <1>9, <1>10, <1>12, PutSteady DEF z
<1>13. CASE z = Error(inode_put(v, b.ip))
  BY <1>7, <1>9, <1>10, <1>13, PutErrorSteady DEF z
<1>14. CASE a.ip # NULL /\ b.ip = NULL /\ z = inode_put(Relinked(b.t, a.ip, k), a.ip)
  <2>1. a.ip \in InodePtr /\ Good(b.t, a.ip, NULL)
    BY <1>4, <1>7, <1>14 DEF InodeOrNull
  <2>2. k \in Nat
    <3>1. b.t.inode[a.ip].links \in Nat
      BY <1>7, <2>1, SlotFields
    <3> QED
      BY <3>1 DEF k
  <2> QED
    BY <1>8, <1>14, <2>1, <2>2, RelinkSteady DEF z
<1> QED
  BY <1>11, <1>12, <1>13, <1>14

\* A directory of a process.
Dir(t, p, dir, x) == [t EXCEPT !.proc[p][dir] = x]

\* A process' directory is exchanged for a held inode, and the old one is held.
LEMMA DirSet ==
  ASSUME NEW t \in Tables, NEW p \in Pids, NEW dir \in {"root", "work"}, NEW x \in InodeOrNull
  PROVE  /\ Dir(t, p, dir, x) \in Tables
         /\ Dir(t, p, dir, x).inode = t.inode /\ Dir(t, p, dir, x).device = t.device
         /\ Dir(t, p, dir, x).file_ptr = t.file_ptr /\ Dir(t, p, dir, x).opens = t.opens
         /\ Dir(t, p, dir, x).lost = t.lost /\ Dir(t, p, dir, x).super = t.super
         /\ \A q \in Pids : Dir(t, p, dir, x).proc[q].descr = t.proc[q].descr
         /\ \A q \in Pids \ {p} : Dir(t, p, dir, x).proc[q] = t.proc[q]
         /\ dir = "root" => /\ Dir(t, p, dir, x).proc[p].root = x
                            /\ Dir(t, p, dir, x).proc[p].work = t.proc[p].work
         /\ dir = "work" => /\ Dir(t, p, dir, x).proc[p].work = x
                            /\ Dir(t, p, dir, x).proc[p].root = t.proc[p].root
         /\ \A i : References(Dir(t, p, dir, x), i) + One(i, t.proc[p][dir])
                   = References(t, i) + One(i, x)
<1> DEFINE u == Dir(t, p, dir, x)
           b == [t.proc[p] EXCEPT ![dir] = x]
           c == [t.proc EXCEPT ![p] = b]
<1>1. t.proc \in [Pids -> Procs] /\ t.proc[p] \in Procs
  BY TablesFields
<1>2. /\ b \in Procs /\ b.descr = t.proc[p].descr
      /\ dir = "root" => b.root = x /\ b.work = t.proc[p].work
      /\ dir = "work" => b.work = x /\ b.root = t.proc[p].root
  <2>1. CASE dir = "root"
    BY <1>1, <2>1 DEF Procs
  <2>2. CASE dir = "work"
    BY <1>1, <2>2 DEF Procs
  <2> QED
    BY <2>1, <2>2
<1>3. u = [t EXCEPT !.proc = c]
  BY <1>1 DEF Dir, Tables
<1> HIDE DEF b
<1>4. c \in [Pids -> Procs] /\ c[p] = b /\ \A q \in Pids : q # p => c[q] = t.proc[q]
  BY <1>1, <1>2
<1> HIDE DEF c
<1>5. /\ u \in Tables /\ u.proc = c /\ u.inode = t.inode /\ u.device = t.device
      /\ u.file_ptr = t.file_ptr /\ u.opens = t.opens /\ u.lost = t.lost /\ u.super = t.super
  BY <1>3, <1>4 DEF Tables
<1> HIDE DEF u
<1>6. \A q \in Pids \ {p} : u.proc[q] = t.proc[q]
  BY <1>4, <1>5
<1>7. ASSUME NEW i
      PROVE  References(u, i) + One(i, t.proc[p][dir]) = References(t, i) + One(i, x)
  <2>1. /\ References(u, i) = Cardinality(Roots(u, i)) + Cardinality(Works(u, i))
                              + Cardinality(PtrsTo(u, i)) + One(u.super, i)
        /\ Cardinality(Roots(u, i)) \in Nat /\ Cardinality(Works(u, i)) \in Nat
        /\ Cardinality(PtrsTo(u, i)) \in Nat /\ One(u.super, i) \in Nat
    BY RefsBound, Constant DEF One
  <2>2. /\ References(t, i) = Cardinality(Roots(t, i)) + Cardinality(Works(t, i))
                              + Cardinality(PtrsTo(t, i)) + One(t.super, i)
        /\ Cardinality(Roots(t, i)) \in Nat /\ Cardinality(Works(t, i)) \in Nat
        /\ Cardinality(PtrsTo(t, i)) \in Nat /\ One(t.super, i) \in Nat
    BY RefsBound, Constant DEF One
  <2>3. PtrsTo(u, i) = PtrsTo(t, i) /\ u.super = t.super
    BY <1>5 DEF PtrsTo
  <2>4. One(i, x) \in Nat /\ One(i, t.proc[p][dir]) \in Nat
    BY DEF One
  <2>5. CASE dir = "root"
    <3>1. u.proc[p].root = x /\ t.proc[p][dir] = t.proc[p].root
      BY <1>1, <1>2, <1>4, <1>5, <2>5 DEF Procs
    <3>2. Works(u, i) = Works(t, i)
      BY <1>2, <1>4, <1>5, <2>5 DEF Works
    <3>3. Cardinality(Roots(u, i)) + One(i, t.proc[p].root)
          = Cardinality(Roots(t, i)) + One(i, u.proc[p].root)
      BY <1>6, RootMoves
    <3> QED
      BY <2>1, <2>2, <2>3, <2>4, <3>1, <3>2, <3>3
  <2>6. CASE dir = "work"
    <3>1. u.proc[p].work = x /\ t.proc[p][dir] = t.proc[p].work
      BY <1>1, <1>2, <1>4, <1>5, <2>6 DEF Procs
    <3>2. Roots(u, i) = Roots(t, i)
      BY <1>2, <1>4, <1>5, <2>6 DEF Roots
    <3>3. Cardinality(Works(u, i)) + One(i, t.proc[p].work)
          = Cardinality(Works(t, i)) + One(i, u.proc[p].work)
      BY <1>6, WorkMoves
    <3> QED
      BY <2>1, <2>2, <2>3, <2>4, <3>1, <3>2, <3>3
  <2> QED
    BY <2>5, <2>6
<1>8. \A q \in Pids : u.proc[q].descr = t.proc[q].descr
  BY <1>2, <1>4, <1>5
<1> QED
  BY <1>2, <1>4, <1>5, <1>6, <1>7, <1>8 DEF u

\* A directory of p is put and replaced by the held inode x, or by none.
LEMMA DirPut ==
  ASSUME NEW t, NEW x \in InodeOrNull, Good(t, x, NULL), NEW p \in Pids,
         NEW dir \in {"root", "work"}
  PROVE  /\ Good(Dir(inode_put(t, t.proc[p][dir]), p, dir, x), NULL, NULL)
         /\ OpensMatch(t) => OpensMatch(Dir(inode_put(t, t.proc[p][dir]), p, dir, x))
         /\ Dir(inode_put(t, t.proc[p][dir]), p, dir, x).file_ptr = t.file_ptr
         /\ Dir(inode_put(t, t.proc[p][dir]), p, dir, x).lost = t.lost
         /\ \A q \in Pids :
              Dir(inode_put(t, t.proc[p][dir]), p, dir, x).proc[q].descr = t.proc[q].descr
         /\ \A q \in Pids \ {p} :
              Dir(inode_put(t, t.proc[p][dir]), p, dir, x).proc[q] = t.proc[q]
         /\ dir = "root" =>
              /\ Dir(inode_put(t, t.proc[p][dir]), p, dir, x).proc[p].root = x
              /\ Dir(inode_put(t, t.proc[p][dir]), p, dir, x).proc[p].work = t.proc[p].work
         /\ dir = "work" =>
              /\ Dir(inode_put(t, t.proc[p][dir]), p, dir, x).proc[p].work = x
              /\ Dir(inode_put(t, t.proc[p][dir]), p, dir, x).proc[p].root = t.proc[p].root
<1> DEFINE old == t.proc[p][dir]
           v == inode_put(t, old)
           r == Dir(v, p, dir, x)
<1>1. Tidy(t) /\ t \in Tables
  BY DEF Good, Tidy
<1>2. old \in InodeOrNull
  BY <1>1, TablesFields DEF Procs
<1>3. old \in InodePtr => t.inode[old].count \in 1 .. 255
  <2> SUFFICES ASSUME old \in InodePtr PROVE t.inode[old].count \in 1 .. 255
    OBVIOUS
  <2>1. t.proc[p].root = old \/ t.proc[p].work = old
    BY <1>1, TablesFields DEF Procs
  <2> HIDE DEF old
  <2>2. References(t, old) >= 1
    BY <2>1, RefsSome
  <2>3. /\ t.inode[old].count \in 0 .. 255
        /\ References(t, old) \in Nat /\ t.lost[old] \in Nat
        /\ One(old, x) \in 0 .. 1 /\ One(old, NULL) \in 0 .. 1
        /\ t.inode[old].count = References(t, old) + t.lost[old] + One(old, x) + One(old, NULL)
    BY GoodTerms
  <2> QED
    BY <2>2, <2>3
<1>4. /\ Tidy(v) /\ SameRest(t, v)
      /\ \A j \in InodePtr :
           /\ v.inode[j].ino = t.inode[j].ino
           /\ v.inode[j].count = t.inode[j].count - One(j, old)
  <2> HIDE DEF old
  <2>1. CASE old = NULL
    <3>1. v = t
      BY <2>1 DEF inode_put
    <3>2. \A j \in InodePtr : One(j, old) = 0 /\ t.inode[j].count \in Nat
      BY <1>1, <2>1, Constant, SlotFields DEF One
    <3> HIDE DEF v
    <3> QED
      BY <1>1, <3>1, <3>2 DEF SameRest
  <2>2. CASE old \in InodePtr
    BY <1>1, <1>3, <2>2, PutTable
  <2> QED
    BY <1>2, <2>1, <2>2 DEF InodeOrNull
<1>5. v.proc = t.proc /\ v.file_ptr = t.file_ptr /\ v.lost = t.lost /\ v.super = t.super
      /\ v.opens = t.opens
  BY <1>4 DEF SameRest
<1>6. \A i : References(v, i) = References(t, i)
  BY <1>5, RefsSame
<1>7. v.proc[p][dir] = old /\ v \in Tables
  BY <1>4, <1>5 DEF Tidy
<1> HIDE DEF v, old
<1>8. /\ r \in Tables /\ r.inode = v.inode /\ r.device = v.device
      /\ r.file_ptr = v.file_ptr /\ r.opens = v.opens
      /\ r.lost = v.lost /\ r.super = v.super
      /\ \A q \in Pids : r.proc[q].descr = v.proc[q].descr
      /\ \A q \in Pids \ {p} : r.proc[q] = v.proc[q]
      /\ dir = "root" => r.proc[p].root = x /\ r.proc[p].work = v.proc[p].work
      /\ dir = "work" => r.proc[p].work = x /\ r.proc[p].root = v.proc[p].root
      /\ \A i : References(r, i) + One(i, v.proc[p][dir]) = References(v, i) + One(i, x)
  BY <1>7, DirSet
<1> HIDE DEF r
<1>9. Counted(r, NULL, NULL)
  <2> SUFFICES ASSUME NEW i \in InodePtr
               PROVE  r.inode[i].count = References(r, i) + r.lost[i] + One(i, NULL) + One(i, NULL)
    BY DEF Counted
  <2>1. One(i, NULL) = 0 /\ One(i, x) \in Nat /\ One(i, old) \in Nat
    BY Constant DEF One
  <2>2. r.inode[i].count = t.inode[i].count - One(i, old) /\ r.lost[i] = t.lost[i]
    BY <1>4, <1>5, <1>8
  <2>3. References(r, i) + One(i, old) = References(t, i) + One(i, x) /\ References(r, i) \in Nat
    BY <1>6, <1>7, <1>8, RefsBound, Constant
  <2> QED
    BY <2>1, <2>2, <2>3, GoodTerms
<1>10. Tidy(r)
  BY <1>4, <1>8 DEF Tidy, OneSlot, DeviceRight, IdleClean, UsedHasIno, LostBounded
<1>11. OpensMatch(t) => OpensMatch(r)
  <2>1. SameInos(t, v)
    BY <1>4 DEF SameInos
  <2>2. OpensMatch(t) => OpensMatch(v)
    BY <1>1, <2>1, OpensKept
  <2>3. \A i : IsDev(r, i) <=> IsDev(v, i)
    BY <1>8 DEF IsDev, KindOf
  <2>4. DevPtrs(r) = DevPtrs(v) /\ DevLost(r) = DevLost(v)
    BY <1>8, <2>3 DEF DevPtrs, DevLost
  <2> QED
    BY <1>8, <2>2, <2>4 DEF OpensMatch
<1> QED
  BY <1>5, <1>8, <1>9, <1>10, <1>11 DEF Good, r, v, old

\* do_fs_chdir and do_fs_chroot.
LEMMA ChangeSteady ==
  ASSUME NEW t, Steady(t), NEW p, NEW path, Begins(t, p, path), NEW deny,
         NEW dir \in {"root", "work"}, t.proc[p].root # NULL
  PROVE  /\ Steady(change(t, p, path, deny, dir))
         /\ Diagonal(t) => Diagonal(change(t, p, path, deny, dir))
<1> DEFINE z == change(t, p, path, deny, dir)
<1>1. PICK w : w = path_to_inode(t, p, path, deny)
  OBVIOUS
<1>2. Walked(t, NULL, w)
  BY <1>1, PathWalked DEF Steady
<1>3. \/ w.ip = NULL /\ z = w.t
      \/ w.ip # NULL /\ z = Error(inode_put(w.t, w.ip))
      \/ w.ip # NULL /\ z = Dir(inode_put(w.t, w.t.proc[p][dir]), p, dir, w.ip)
  BY <1>1 DEF change, Dir
<1> HIDE DEF z
<1>4. CASE w.ip = NULL /\ z = w.t
  BY <1>2, <1>4, NoPathSteady DEF z
<1>5. /\ w.ip \in InodeOrNull /\ Good(w.t, w.ip, NULL) /\ SameInos(t, w.t)
  BY <1>2, KeptInos DEF Walked, Walks
<1>6. CASE w.ip # NULL /\ z = Error(inode_put(w.t, w.ip))
  BY <1>5, <1>6, PutErrorSteady DEF z
<1>7. CASE w.ip # NULL /\ z = Dir(inode_put(w.t, w.t.proc[p][dir]), p, dir, w.ip)
  <2>1. p \in Pids
    BY DEF Begins
  <2>2. w.t.proc = t.proc /\ w.t.file_ptr = t.file_ptr
    BY <1>5 DEF SameInos, SameRest
  <2>3. OpensMatch(w.t)
    BY <1>5, OpensKept DEF Steady, Good
  <2>4. /\ Good(z, NULL, NULL) /\ OpensMatch(z) /\ z.file_ptr = t.file_ptr
        /\ \A q \in Pids : z.proc[q].descr = t.proc[q].descr
        /\ \A q \in Pids \ {p} : z.proc[q] = t.proc[q]
        /\ dir = "root" => z.proc[p].root = w.ip /\ z.proc[p].work = t.proc[p].work
        /\ dir = "work" => z.proc[p].work = w.ip /\ z.proc[p].root = t.proc[p].root
    BY <1>5, <1>7, <2>1, <2>2, <2>3, DirPut
  <2>5. FreePtrs(z)
    BY <2>4 DEF Steady, FreePtrs
  <2>6. Dirs(z)
    <3>1. t.proc[p].root # NULL /\ t.proc[p].work # NULL
      BY <2>1 DEF Steady, Dirs
    <3>2. z.proc[p].root # NULL /\ z.proc[p].work # NULL
      BY <1>7, <2>4, <3>1
    <3> QED
      BY <2>4, <3>2, Constant DEF Steady, Dirs
  <2>7. Diagonal(t) => Diagonal(z)
    BY <2>4 DEF Diagonal
  <2> QED
    BY <2>4, <2>5, <2>6, <2>7 DEF Steady, z
<1> QED
  BY <1>3, <1>4, <1>6, <1>7

-----------------------------------------------------------------------------
(* Descriptors. *)

\* A file pointer that is used has one descriptor.
Ones(t) == \A f \in FilePtr : t.file_ptr[f].count <= 1

\* The last inode that a call holds is put.
LEMMA PutSettles ==
  ASSUME NEW u, NEW x \in InodeOrNull, Good(u, x, NULL), OpensMatch(u), FreePtrs(u), Dirs(u)
  PROVE  /\ Steady(inode_put(u, x)) /\ (Diagonal(u) => Diagonal(inode_put(u, x)))
         /\ inode_put(u, x).file_ptr = u.file_ptr
<1> DEFINE v == inode_put(u, x)
<1>1. Good(v, NULL, NULL) /\ Kept(u, v)
  BY PutGood
<1> HIDE DEF v
<1>2. OpensMatch(v)
  BY <1>1, KeptInos, OpensKept DEF Good
<1>3. v.file_ptr = u.file_ptr /\ v.proc = u.proc
  BY <1>1 DEF Kept, SameRest
<1>4. FreePtrs(v) /\ Dirs(v) /\ (Diagonal(u) => Diagonal(v))
  BY <1>3 DEF FreePtrs, Dirs, Diagonal
<1> QED
  BY <1>1, <1>2, <1>3, <1>4 DEF Steady, v

\* Tables that differ in nothing but the counts of file pointers.
LEMMA PtrCounts ==
  ASSUME NEW t, Steady(t), NEW u \in Tables,
         u.inode = t.inode, u.device = t.device, u.proc = t.proc, u.opens = t.opens,
         u.lost = t.lost, u.super = t.super,
         \A f \in PtrOrNull : /\ u.file_ptr[f].inode = t.file_ptr[f].inode
                              /\ u.file_ptr[f].count = 0 => t.file_ptr[f].count = 0
  PROVE  Steady(u) /\ (Diagonal(t) => Diagonal(u))
<1>1. \A i : References(u, i) = References(t, i)
  BY RefsLike
<1>2. LostBounded(u)
  BY DEF Steady, Good, Tidy, LostBounded
<1>3. Good(u, NULL, NULL)
  <2>1. \A i \in InodePtr : References(u, i) + u.lost[i] + One(i, NULL) + One(i, NULL)
                            = References(t, i) + t.lost[i] + One(i, NULL) + One(i, NULL)
    BY <1>1
  <2>2. Good(t, NULL, NULL)
    BY DEF Steady
  <2> QED
    BY <1>2, <2>1, <2>2, Reshaped
<1>4. OpensMatch(u)
  <2>1. \A i : IsDev(u, i) <=> IsDev(t, i)
    BY DEF IsDev, KindOf
  <2>2. DevPtrs(u) = DevPtrs(t) /\ DevLost(u) = DevLost(t)
    BY <2>1 DEF DevPtrs, DevLost, PtrOrNull
  <2> QED
    BY <2>2 DEF Steady, OpensMatch
<1>5. FreePtrs(u)
  BY DEF Steady, FreePtrs, PtrOrNull
<1>6. Dirs(u) /\ (Diagonal(t) => Diagonal(u))
  BY DEF Steady, Dirs, Diagonal
<1> QED
  BY <1>3, <1>4, <1>5, <1>6 DEF Steady

\* do_fs_close releases file pointer f: its inode is held by the call alone.
Released(t, f) ==
  [t EXCEPT !.opens = IF IsDev(t, t.file_ptr[f].inode) THEN @ - 1 ELSE @,
            !.file_ptr[f] = [inode |-> NULL, count |-> 0]]

\* The call that releases a file pointer holds its inode.
LEMMA ReleasedGood ==
  ASSUME NEW t, Steady(t), NEW f \in FilePtr
  PROVE  /\ Good(Released(t, f), t.file_ptr[f].inode, NULL) /\ OpensMatch(Released(t, f))
         /\ FreePtrs(Released(t, f)) /\ Dirs(Released(t, f))
         /\ Diagonal(t) => Diagonal(Released(t, f))
         /\ Ones(t) => Ones(Released(t, f))
<1> DEFINE u == Released(t, f)
           x == t.file_ptr[f].inode
           b == [inode |-> NULL, count |-> 0]
           c == [t.file_ptr EXCEPT ![f] = b]
           o == IF IsDev(t, x) THEN t.opens - 1 ELSE t.opens
<1>1. t \in Tables /\ f \in PtrOrNull /\ t.file_ptr \in [PtrOrNull -> FilePtrs] /\ t.opens \in Int
      /\ Good(t, NULL, NULL)
  BY TablesFields DEF Steady, Good, Tidy, PtrOrNull
<1>2. b \in FilePtrs /\ b.inode = NULL /\ b.count = 0
  BY DEF FilePtrs, InodeOrNull
<1>3. u = [t EXCEPT !.opens = o, !.file_ptr = c]
  BY <1>1 DEF Released, Tables
<1> HIDE DEF b
<1>4. /\ c \in [PtrOrNull -> FilePtrs] /\ c[f] = b
      /\ \A g \in PtrOrNull : g # f => c[g] = t.file_ptr[g]
  BY <1>1, <1>2
<1> HIDE DEF c
<1>5. o \in Int
  BY <1>1
<1> HIDE DEF o
<1>6. /\ u \in Tables /\ u.file_ptr = c /\ u.opens = o /\ u.inode = t.inode /\ u.device = t.device
      /\ u.proc = t.proc /\ u.lost = t.lost /\ u.super = t.super
  BY <1>1, <1>3, <1>4, <1>5 DEF Tables
<1> HIDE DEF u
<1>7. u.file_ptr[f].inode = NULL /\ u.file_ptr[f].count = 0
      /\ \A g \in PtrOrNull : g # f => u.file_ptr[g] = t.file_ptr[g]
  BY <1>2, <1>4, <1>6
<1> HIDE DEF x
<1>8. ASSUME NEW i \in InodePtr
      PROVE  References(u, i) + One(i, x) = References(t, i)
  <2>1. /\ References(u, i) = Cardinality(Roots(u, i)) + Cardinality(Works(u, i))
                              + Cardinality(PtrsTo(u, i)) + One(u.super, i)
        /\ Cardinality(Roots(u, i)) \in Nat /\ Cardinality(Works(u, i)) \in Nat
        /\ Cardinality(PtrsTo(u, i)) \in Nat /\ One(u.super, i) \in Nat
    BY RefsBound, Constant DEF One
  <2>2. /\ References(t, i) = Cardinality(Roots(t, i)) + Cardinality(Works(t, i))
                              + Cardinality(PtrsTo(t, i)) + One(t.super, i)
        /\ Cardinality(PtrsTo(t, i)) \in Nat
    BY RefsBound, Constant DEF One
  <2>3. Roots(u, i) = Roots(t, i) /\ Works(u, i) = Works(t, i) /\ u.super = t.super
    BY <1>6 DEF Roots, Works
  <2>4. Cardinality(PtrsTo(u, i)) + One(i, x) = Cardinality(PtrsTo(t, i)) + One(i, NULL)
    <3>1. \A g \in PtrOrNull \ {f} : u.file_ptr[g].inode = t.file_ptr[g].inode
      BY <1>7
    <3>2. Cardinality(PtrsTo(u, i)) + One(i, t.file_ptr[f].inode)
          = Cardinality(PtrsTo(t, i)) + One(i, u.file_ptr[f].inode)
      BY <1>1, <3>1, PtrMoves
    <3> QED
      BY <1>7, <3>2 DEF x
  <2>5. One(i, NULL) = 0 /\ One(i, x) \in Nat
    BY Constant DEF One
  <2> QED
    BY <2>1, <2>2, <2>3, <2>4, <2>5
<1>9. Good(u, x, NULL)
  <2>1. \A i \in InodePtr : References(u, i) + u.lost[i] + One(i, x) + One(i, NULL)
                            = References(t, i) + t.lost[i] + One(i, NULL) + One(i, NULL)
    <3> TAKE i \in InodePtr
    <3>1. One(i, NULL) = 0 /\ One(i, x) \in Nat /\ References(u, i) \in Nat /\ t.lost[i] \in Nat
      BY <1>1, Constant, RefsBound, TablesFields DEF One
    <3> QED
      BY <1>6, <1>8, <3>1
  <2>2. LostBounded(u)
    BY <1>1, <1>6 DEF Good, Tidy, LostBounded
  <2> QED
    BY <1>1, <1>6, <2>1, <2>2, Reshaped
<1>10. OpensMatch(u)
  <2>1. \A i : IsDev(u, i) <=> IsDev(t, i)
    BY <1>6 DEF IsDev, KindOf
  <2>2. DevLost(u) = DevLost(t)
    BY <1>6, <2>1 DEF DevLost
  <2>3. DevPtrs(u) \subseteq PtrOrNull /\ DevPtrs(t) \subseteq PtrOrNull
    BY DEF DevPtrs, PtrOrNull
  <2>4. DevPtrs(u) \ {f} = DevPtrs(t) \ {f}
    BY <1>7, <2>1 DEF DevPtrs, PtrOrNull
  <2>5. f \notin DevPtrs(u) /\ (f \in DevPtrs(t) <=> IsDev(t, x))
    BY <1>1, <1>7 DEF DevPtrs, PtrOrNull, IsDev, x
  <2>6. /\ Cardinality(DevPtrs(t)) \in Nat /\ Cardinality(DevPtrs(u)) \in Nat
        /\ Cardinality(DevPtrs(u)) + (IF f \in DevPtrs(t) THEN 1 ELSE 0)
           = Cardinality(DevPtrs(t)) + (IF f \in DevPtrs(u) THEN 1 ELSE 0)
    BY <1>1, <2>3, <2>4, Finite, Recount
  <2>7. Cardinality(DevLost(t)) \in Nat
    BY Finite, FS_Subset, FS_CardinalityType DEF DevLost
  <2>8. t.opens = Cardinality(DevPtrs(t)) + Cardinality(DevLost(t))
    BY DEF Steady, OpensMatch
  <2>9. u.opens = IF IsDev(t, x) THEN t.opens - 1 ELSE t.opens
    BY <1>6 DEF o
  <2> QED
    BY <2>2, <2>5, <2>6, <2>7, <2>8, <2>9 DEF OpensMatch
<1>11. FreePtrs(u)
  BY <1>7 DEF Steady, FreePtrs, PtrOrNull
<1>12. Dirs(u) /\ (Diagonal(t) => Diagonal(u))
  BY <1>6 DEF Steady, Dirs, Diagonal
<1>13. Ones(t) => Ones(u)
  BY <1>7 DEF Ones, PtrOrNull
<1> QED
  BY <1>9, <1>10, <1>11, <1>12, <1>13 DEF u, x

\* do_fs_close of a file pointer with one descriptor.
LEMMA CloseSteady ==
  ASSUME NEW t, Steady(t), Ones(t), NEW p \in Pids, NEW d \in Fildes
  PROVE  /\ Steady(do_fs_close(t, p, d)) /\ Ones(do_fs_close(t, p, d))
         /\ Diagonal(t) => Diagonal(do_fs_close(t, p, d))
<1> DEFINE z == do_fs_close(t, p, d)
           f == t.proc[p].descr[d]
           x == t.file_ptr[f].inode
<1>1. /\ t \in Tables /\ f \in PtrOrNull /\ d \in Pids
      /\ x \in InodeOrNull /\ t.file_ptr[f].count \in Nat
  BY Constant, TablesFields DEF Steady, Good, Tidy, Procs, FilePtrs
<1>2. \/ f = NULL /\ z = Error(t)
      \/ f # NULL /\ t.file_ptr[f].count = 1 /\ z = inode_put(Descr(Released(t, f), d, d, NULL), x)
      \/ f # NULL /\ t.file_ptr[f].count # 1 /\ z = inode_put(Descr(t, d, d, NULL), x)
  BY DEF do_fs_close, descr_put, Set_OPEN_DESCR, Descr, Released
<1> HIDE DEF z, f
<1>3. CASE f = NULL /\ z = Error(t)
  <2>1. Steady(z) /\ (Diagonal(t) => Diagonal(z)) /\ z.file_ptr = t.file_ptr
    BY <1>3, ErrorSteady
  <2> QED
    BY <2>1 DEF Ones, z
<1>4. CASE f # NULL /\ t.file_ptr[f].count = 1 /\ z = inode_put(Descr(Released(t, f), d, d, NULL), x)
  <2> DEFINE r == Released(t, f)
             v == Descr(r, d, d, NULL)
  <2>1. f \in FilePtr /\ NULL \in PtrOrNull
    BY <1>1, <1>4 DEF PtrOrNull
  <2>2. /\ Good(r, x, NULL) /\ OpensMatch(r) /\ FreePtrs(r) /\ Dirs(r)
        /\ (Diagonal(t) => Diagonal(r)) /\ Ones(r)
    BY <2>1, ReleasedGood
  <2> HIDE DEF r, x
  <2>3. /\ Good(v, x, NULL) /\ OpensMatch(v) /\ FreePtrs(v) /\ Dirs(v)
        /\ (Diagonal(r) => Diagonal(v)) /\ v.file_ptr = r.file_ptr
    BY <1>1, <2>1, <2>2, DescrGood
  <2> HIDE DEF v
  <2>4. /\ Steady(inode_put(v, x)) /\ (Diagonal(v) => Diagonal(inode_put(v, x)))
        /\ inode_put(v, x).file_ptr = v.file_ptr
    BY <1>1, <2>3, PutSettles
  <2>5. z = inode_put(v, x)
    BY <1>4 DEF v, r
  <2>6. Ones(z)
    BY <2>2, <2>3, <2>4, <2>5 DEF Ones
  <2> QED
    BY <2>2, <2>3, <2>4, <2>5, <2>6 DEF z
<1>5. CASE f # NULL /\ t.file_ptr[f].count # 1 /\ z = inode_put(Descr(t, d, d, NULL), x)
  <2>1. f \in FilePtr /\ NULL \in PtrOrNull
    BY <1>1, <1>5 DEF PtrOrNull
  <2>2. t.file_ptr[f].count = 0
    BY <1>1, <1>5, <2>1 DEF Ones
  <2>3. x = NULL
    BY <2>1, <2>2 DEF Steady, FreePtrs
  <2>4. z = Descr(t, d, d, NULL)
    BY <1>5, <2>3 DEF inode_put
  <2>5. Steady(z)
    BY <1>1, <2>1, <2>4, DescrSteady
  <2>6. z.file_ptr = t.file_ptr /\ (Diagonal(t) => Diagonal(z))
    BY <1>1, <2>1, <2>4, DescrGood DEF Steady
  <2> QED
    BY <2>5, <2>6 DEF Ones, z
<1> QED
  BY <1>2, <1>3, <1>4, <1>5

\* dupfd: the pointers stay, only a pointer's count changes.
LEMMA DupSteady ==
  ASSUME NEW t, Steady(t), NEW d \in Fildes, NEW e \in Fildes
  PROVE  Steady(dupfd(t, d, e)) /\ (Diagonal(t) => Diagonal(dupfd(t, d, e)))
<1> DEFINE z == dupfd(t, d, e)
           f == t.proc[d].descr[d]
           fds == {g \in Fildes : OPEN_DESCR(t, g) = NULL}
           to  == IF e = 0 THEN Min(fds) ELSE e
<1>1. t \in Tables /\ f \in PtrOrNull
  BY Constant, TablesFields DEF Steady, Good, Tidy, Procs
<1>2. \/ z = Error(t)
      \/ f # NULL /\ (e = 0 => fds # {}) /\ z = [Descr(t, to, to, f) EXCEPT !.file_ptr[f].count = @ + 1]
  BY DEF dupfd, OPEN_DESCR, Set_OPEN_DESCR, Descr
<1> HIDE DEF f, z
<1>3. CASE z = Error(t)
  BY <1>3, ErrorSteady DEF z
<1>4. CASE f # NULL /\ (e = 0 => fds # {})
           /\ z = [Descr(t, to, to, f) EXCEPT !.file_ptr[f].count = @ + 1]
  <2>1. to \in Fildes
    <3>1. fds # {} => Min(fds) \in fds
      <4>1. fds \subseteq Nat
        BY FilesAssumption DEF Fildes
      <4> HIDE DEF fds
      <4> QED
        BY <4>1, MinIn
    <3> QED
      BY <1>4, <3>1
  <2> HIDE DEF to
  <2>2. to \in Pids
    BY <2>1, Constant
  <2> DEFINE v == Descr(t, to, to, f)
  <2>3. Steady(v)
    BY <1>1, <2>1, <2>2, DescrSteady
  <2>4. Diagonal(t) => Diagonal(v)
    BY <1>1, <2>1, <2>2, DescrGood DEF Steady
  <2> HIDE DEF v
  <2>5. v \in Tables /\ v.file_ptr \in [PtrOrNull -> FilePtrs] /\ v.file_ptr[f] \in FilePtrs
    BY <1>1, <2>3, TablesFields DEF Steady, Good, Tidy
  <2> DEFINE b == [v.file_ptr[f] EXCEPT !.count = @ + 1]
             c == [v.file_ptr EXCEPT ![f] = b]
  <2>6. b \in FilePtrs /\ b.inode = v.file_ptr[f].inode /\ b.count # 0
    BY <2>5 DEF FilePtrs
  <2>7. z = [v EXCEPT !.file_ptr = c]
    BY <1>4, <2>5 DEF v, Tables
  <2> HIDE DEF b
  <2>8. /\ c \in [PtrOrNull -> FilePtrs] /\ c[f] = b
        /\ \A g \in PtrOrNull : g # f => c[g] = v.file_ptr[g]
    BY <1>1, <2>5, <2>6
  <2> HIDE DEF c
  <2>9. /\ z \in Tables /\ z.file_ptr = c /\ z.inode = v.inode /\ z.device = v.device
        /\ z.proc = v.proc /\ z.opens = v.opens /\ z.lost = v.lost /\ z.super = v.super
    BY <2>5, <2>7, <2>8 DEF Tables
  <2>10. \A g \in PtrOrNull : /\ z.file_ptr[g].inode = v.file_ptr[g].inode
                              /\ z.file_ptr[g].count = 0 => v.file_ptr[g].count = 0
    BY <2>6, <2>8, <2>9
  <2>11. Steady(z) /\ (Diagonal(v) => Diagonal(z))
    BY <2>3, <2>9, <2>10, PtrCounts
  <2> QED
    BY <2>4, <2>11 DEF z
<1> QED
  BY <1>2, <1>3, <1>4

\* do_fs_dup2: a close, then dupfd.
LEMMA Dup2Steady ==
  ASSUME NEW t, Steady(t), Ones(t), NEW p \in Pids, NEW d \in Fildes, NEW e \in Fildes
  PROVE  /\ Steady(do_fs_dup2(t, p, d, e))
         /\ Diagonal(t) => Diagonal(do_fs_dup2(t, p, d, e))
<1> DEFINE u == do_fs_close(t, p, e)
<1>1. Steady(u) /\ (Diagonal(t) => Diagonal(u))
  BY CloseSteady
<1> HIDE DEF u
<1>2. Steady(dupfd(u, d, e)) /\ (Diagonal(u) => Diagonal(dupfd(u, d, e)))
  BY <1>1, DupSteady
<1>3. do_fs_dup2(t, p, d, e) = t \/ do_fs_dup2(t, p, d, e) = dupfd(u, d, e)
  BY DEF do_fs_dup2, u
<1> QED
  BY <1>1, <1>2, <1>3

\* The file pointer f gets the held inode; if it was file_ptr[NULL], what that had is lost.
LEMMA FillSteady ==
  ASSUME NEW t, NEW x \in InodePtr, Good(t, x, NULL), OpensMatch(t), FreePtrs(t), Dirs(t),
         NEW f \in PtrOrNull, f # NULL => t.file_ptr[f].inode = NULL,
         \A i \in InodePtr : t.lost[i] <= MaxLost,
         NEW o, o = IF IsDev(t, x) THEN [t EXCEPT !.opens = @ + 1] ELSE t
  PROVE  /\ Steady(FillPtr(o, f, x)) /\ (Diagonal(t) => Diagonal(FillPtr(o, f, x)))
         /\ Ones(t) => Ones(FillPtr(o, f, x))
<1> DEFINE u == FillPtr(o, f, x)
           j == t.file_ptr[f].inode
           b == [inode |-> x, count |-> 1]
           c == [t.file_ptr EXCEPT ![f] = b]
           L == [k \in InodePtr |-> IF f = NULL /\ k = j THEN t.lost[k] + 1 ELSE t.lost[k]]
           m == IF IsDev(t, x) THEN t.opens + 1 ELSE t.opens
<1>1. /\ t \in Tables /\ t.file_ptr \in [PtrOrNull -> FilePtrs] /\ t.opens \in Int
      /\ t.lost \in [InodePtr -> Nat] /\ j \in InodeOrNull
  BY TablesFields DEF Good, Tidy, FilePtrs
<1>2. b \in FilePtrs /\ b.inode = x /\ b.count = 1
  BY DEF FilePtrs, InodeOrNull
<1>3. o = [t EXCEPT !.opens = m]
  BY <1>1 DEF Tables
<1>4. m \in Int
  BY <1>1
<1> HIDE DEF m
<1>5. o \in Tables /\ o.file_ptr = t.file_ptr /\ o.lost = t.lost
  BY <1>1, <1>3, <1>4 DEF Tables
<1>6. u = [o EXCEPT !.file_ptr = c, !.lost = L]
  BY <1>5 DEF FillPtr, Tables
<1> HIDE DEF b
<1>7. /\ c \in [PtrOrNull -> FilePtrs] /\ c[f] = b
      /\ \A g \in PtrOrNull : g # f => c[g] = t.file_ptr[g]
  BY <1>1, <1>2
<1> HIDE DEF c
<1>8. \A k \in InodePtr : L[k] = t.lost[k] + One(k, j)
  <2> TAKE k \in InodePtr
  <2>1. t.lost[k] \in Nat
    BY <1>1
  <2>2. k = j => f = NULL
    BY Constant
  <2> QED
    BY <2>1, <2>2 DEF One
<1>9. L \in [InodePtr -> Nat]
  BY <1>1
<1> HIDE DEF L
<1>10. /\ u \in Tables /\ u.file_ptr = c /\ u.opens = m /\ u.inode = t.inode
       /\ u.device = t.device /\ u.proc = t.proc /\ u.lost = L /\ u.super = t.super
  <2>1. /\ u \in Tables /\ u.file_ptr = c /\ u.lost = L /\ u.opens = o.opens /\ u.inode = o.inode
        /\ u.device = o.device /\ u.proc = o.proc /\ u.super = o.super
    BY <1>5, <1>6, <1>7, <1>9 DEF Tables
  <2> HIDE DEF u
  <2>2. /\ o.opens = m /\ o.inode = t.inode /\ o.device = t.device /\ o.proc = t.proc
        /\ o.super = t.super
    BY <1>1, <1>3 DEF Tables
  <2> QED
    BY <2>1, <2>2
<1> HIDE DEF u
<1>11. /\ u.file_ptr[f].inode = x /\ u.file_ptr[f].count = 1
       /\ \A g \in PtrOrNull : g # f => u.file_ptr[g] = t.file_ptr[g]
  BY <1>2, <1>7, <1>10
<1> HIDE DEF j
<1>12. ASSUME NEW i \in InodePtr
       PROVE  References(u, i) + One(i, j) = References(t, i) + One(i, x)
  <2>1. /\ References(u, i) = Cardinality(Roots(u, i)) + Cardinality(Works(u, i))
                              + Cardinality(PtrsTo(u, i)) + One(u.super, i)
        /\ Cardinality(Roots(u, i)) \in Nat /\ Cardinality(Works(u, i)) \in Nat
        /\ Cardinality(PtrsTo(u, i)) \in Nat /\ One(u.super, i) \in Nat
    BY RefsBound, Constant DEF One
  <2>2. /\ References(t, i) = Cardinality(Roots(t, i)) + Cardinality(Works(t, i))
                              + Cardinality(PtrsTo(t, i)) + One(t.super, i)
        /\ Cardinality(PtrsTo(t, i)) \in Nat
    BY RefsBound, Constant DEF One
  <2>3. Roots(u, i) = Roots(t, i) /\ Works(u, i) = Works(t, i) /\ u.super = t.super
    BY <1>10 DEF Roots, Works
  <2>4. Cardinality(PtrsTo(u, i)) + One(i, j) = Cardinality(PtrsTo(t, i)) + One(i, x)
    <3>1. \A g \in PtrOrNull \ {f} : u.file_ptr[g].inode = t.file_ptr[g].inode
      BY <1>11
    <3>2. Cardinality(PtrsTo(u, i)) + One(i, t.file_ptr[f].inode)
          = Cardinality(PtrsTo(t, i)) + One(i, u.file_ptr[f].inode)
      BY <3>1, PtrMoves
    <3>3. t.file_ptr[f].inode = j /\ u.file_ptr[f].inode = x
      BY <1>11 DEF j
    <3> QED
      BY <3>2, <3>3
  <2>5. One(i, j) \in Nat /\ One(i, x) \in Nat
    BY DEF One
  <2> QED
    BY <2>1, <2>2, <2>3, <2>4, <2>5
<1>13. Good(u, NULL, NULL)
  <2>1. \A i \in InodePtr : References(u, i) + u.lost[i] + One(i, NULL) + One(i, NULL)
                            = References(t, i) + t.lost[i] + One(i, x) + One(i, NULL)
    <3> TAKE i \in InodePtr
    <3>1. /\ One(i, NULL) = 0 /\ One(i, x) \in Nat /\ One(i, j) \in Nat
          /\ References(u, i) \in Nat /\ References(t, i) \in Nat /\ t.lost[i] \in Nat
      BY <1>1, Constant, RefsBound DEF One
    <3>2. u.lost[i] = t.lost[i] + One(i, j)
      BY <1>8, <1>10
    <3>3. References(u, i) + One(i, j) = References(t, i) + One(i, x)
      BY <1>12
    <3> QED
      BY <3>1, <3>2, <3>3
  <2>2. LostBounded(u)
    <3> SUFFICES ASSUME NEW i \in InodePtr PROVE u.lost[i] <= MaxLost + 1
      BY DEF LostBounded
    <3>1. u.lost[i] = t.lost[i] + One(i, j) /\ t.lost[i] \in Nat /\ One(i, j) \in 0 .. 1
      BY <1>1, <1>8, <1>10 DEF One
    <3> QED
      BY <3>1, Constant
  <2> QED
    BY <1>10, <2>1, <2>2, Reshaped
<1>14. OpensMatch(u)
  <2>1. \A i : IsDev(u, i) <=> IsDev(t, i)
    BY <1>10 DEF IsDev, KindOf
  <2> DEFINE B(i) == IF IsDev(t, i) THEN 1 ELSE 0
  <2>2. /\ Cardinality(DevPtrs(t)) \in Nat /\ Cardinality(DevPtrs(u)) \in Nat
        /\ Cardinality(DevPtrs(u)) + B(j) = Cardinality(DevPtrs(t)) + B(x)
    <3>1. /\ DevPtrs(u) \subseteq PtrOrNull /\ DevPtrs(t) \subseteq PtrOrNull
      BY DEF DevPtrs, PtrOrNull
    <3>2. DevPtrs(u) \ {f} = DevPtrs(t) \ {f}
      BY <1>11, <2>1 DEF DevPtrs, PtrOrNull
    <3>3. (f \in DevPtrs(u) <=> IsDev(t, x)) /\ (f \in DevPtrs(t) <=> IsDev(t, j))
      BY <1>11, <2>1 DEF DevPtrs, PtrOrNull, j
    <3>4. /\ Cardinality(DevPtrs(t)) \in Nat /\ Cardinality(DevPtrs(u)) \in Nat
          /\ Cardinality(DevPtrs(u)) + (IF f \in DevPtrs(t) THEN 1 ELSE 0)
             = Cardinality(DevPtrs(t)) + (IF f \in DevPtrs(u) THEN 1 ELSE 0)
      BY <3>1, <3>2, Finite, Recount
    <3> QED
      BY <3>3, <3>4
  <2>3. /\ Cardinality(DevLost(t)) \in Nat
        /\ Cardinality(DevLost(u)) = Cardinality(DevLost(t)) + B(j)
    <3> DEFINE D == InodePtr \X (1 .. MaxLost + 1)
    <3>1. IsFiniteSet(D) /\ DevLost(t) \subseteq D /\ DevLost(u) \subseteq D
      BY Finite DEF DevLost
    <3>2. Cardinality(DevLost(t)) \in Nat
      BY <3>1, FS_Subset, FS_CardinalityType
    <3>3. CASE j = NULL
      <4>1. ~IsDev(t, j)
        BY <3>3 DEF IsDev
      <4>2. \A k \in InodePtr : u.lost[k] = t.lost[k]
        <5> TAKE k \in InodePtr
        <5>1. One(k, j) = 0 /\ t.lost[k] \in Nat
          BY <1>1, <3>3, Constant DEF One
        <5> QED
          BY <1>8, <1>10, <5>1
      <4>3. DevLost(u) = DevLost(t)
        BY <2>1, <4>2 DEF DevLost
      <4> QED
        BY <3>2, <4>1, <4>3
    <3>4. CASE j \in InodePtr
      <4> DEFINE n == t.lost[j] + 1
                 d == <<j, n>>
      <4>1. n \in 1 .. MaxLost + 1 /\ t.lost[j] \in Nat
        BY <1>1, <3>4, Constant
      <4>2. d \in D /\ d[1] = j /\ d[2] = n
        BY <3>4, <4>1
      <4>3. u.lost[j] = n /\ \A k \in InodePtr : k # j => u.lost[k] = t.lost[k]
        <5>1. One(j, j) = 1 /\ \A k \in InodePtr : k # j => One(k, j) = 0
          BY DEF One
        <5> QED
          BY <1>1, <1>8, <1>10, <3>4, <5>1
      <4>4. d \notin DevLost(t)
        BY <4>1, <4>2 DEF DevLost
      <4>5. d \in DevLost(u) <=> IsDev(t, j)
        BY <2>1, <4>1, <4>2, <4>3 DEF DevLost
      <4>6. DevLost(t) \ {d} = DevLost(u) \ {d}
        <5> SUFFICES ASSUME NEW k \in InodePtr, NEW e \in 1 .. MaxLost + 1, <<k, e>> # d
                     PROVE  <<k, e>> \in DevLost(t) <=> <<k, e>> \in DevLost(u)
          BY DEF DevLost
        <5>1. e <= t.lost[k] <=> e <= u.lost[k]
          <6>1. CASE k = j
            <7>1. e # n
              BY <6>1
            <7> QED
              BY <4>1, <4>3, <6>1, <7>1
          <6>2. CASE k # j
            BY <4>3, <6>2
          <6> QED
            BY <6>1, <6>2
        <5> QED
          BY <2>1, <5>1 DEF DevLost
      <4> HIDE DEF d, D
      <4>7. Cardinality(DevLost(u)) + (IF d \in DevLost(t) THEN 1 ELSE 0)
            = Cardinality(DevLost(t)) + (IF d \in DevLost(u) THEN 1 ELSE 0)
            /\ Cardinality(DevLost(u)) \in Nat
        BY <3>1, <4>2, <4>6, Recount
      <4> QED
        BY <3>2, <4>4, <4>5, <4>7
    <3> QED
      BY <1>1, <3>2, <3>3, <3>4 DEF InodeOrNull, j
  <2>4. u.opens = t.opens + B(x) /\ B(x) \in Nat /\ B(j) \in Nat
    BY <1>1, <1>10 DEF m
  <2>5. t.opens = Cardinality(DevPtrs(t)) + Cardinality(DevLost(t))
    BY DEF OpensMatch
  <2> HIDE DEF B
  <2> QED
    BY <2>2, <2>3, <2>4, <2>5 DEF OpensMatch
<1>15. FreePtrs(u)
  BY <1>11 DEF FreePtrs, PtrOrNull
<1>16. Dirs(u) /\ (Diagonal(t) => Diagonal(u))
  BY <1>10 DEF Dirs, Diagonal
<1>17. Ones(t) => Ones(u)
  BY <1>11 DEF Ones, PtrOrNull
<1> QED
  BY <1>13, <1>14, <1>15, <1>16, <1>17 DEF Steady, u

\* descr_get() fails, or enters a file pointer that is not used.
LEMMA DescrGot ==
  ASSUME NEW t
  PROVE  \/ descr_get(t).t = Error(t)
         \/ \E a \in Fildes, b \in FilePtr :
              /\ descr_get(t).t = Descr(t, a, a, b) /\ descr_get(t).fildes = a
              /\ t.file_ptr[b].count = 0
<1> DEFINE fds  == {d \in Fildes : OPEN_DESCR(t, d) = NULL}
           ptrs == {f \in FilePtr : t.file_ptr[f].count = 0}
<1>1. CASE fds = {} \/ ptrs = {}
  BY <1>1 DEF descr_get
<1>2. CASE fds # {} /\ ptrs # {}
  <2>1. fds \subseteq Nat /\ ptrs \subseteq Nat
    BY FilesAssumption DEF Fildes, FilePtr
  <2>2. Min(fds) \in Fildes /\ Min(ptrs) \in FilePtr /\ t.file_ptr[Min(ptrs)].count = 0
    <3>1. Min(fds) \in fds
      <4> HIDE DEF fds
      <4> QED
        BY <1>2, <2>1, MinIn
    <3>2. Min(ptrs) \in ptrs
      <4> HIDE DEF ptrs
      <4> QED
        BY <1>2, <2>1, MinIn
    <3> QED
      BY <3>1, <3>2
  <2>3. descr_get(t) = [t |-> Descr(t, Min(fds), Min(fds), Min(ptrs)), fildes |-> Min(fds)]
    BY <1>2 DEF descr_get, Set_OPEN_DESCR, Descr
  <2> HIDE DEF fds, ptrs
  <2> QED
    BY <2>2, <2>3
<1> QED
  BY <1>1, <1>2

\* do_fs_open: with its descriptor taken first and put again when the path fails or the
\* driver is not willing.
LEMMA OpenSteady ==
  ASSUME NEW t, Steady(t), Diagonal(t), ~t.err, ~t.panic,
         \A i \in InodePtr : t.lost[i] <= MaxLost,
         NEW p, NEW path, Begins(t, p, path), NEW deny, NEW willing
  PROVE  /\ Steady(do_fs_open(t, p, path, deny, willing))
         /\ Diagonal(do_fs_open(t, p, path, deny, willing))
         /\ Ones(t) => Ones(do_fs_open(t, p, path, deny, willing))
<1> DEFINE z == do_fs_open(t, p, path, deny, willing)
<1>1. PICK d : d = descr_get(t)
  OBVIOUS
<1>2. PICK w : w = path_to_inode(d.t, p, path, deny)
  OBVIOUS
<1>3. PICK o : o = IF IsDev(w.t, w.ip) THEN [w.t EXCEPT !.opens = @ + 1] ELSE w.t
  OBVIOUS
<1>4. z = IF d.t.err THEN d.t
          ELSE IF w.t.err \/ w.t.panic THEN descr_put(w.t, d.fildes)
          ELSE IF IsDev(w.t, w.ip) /\ ~willing
               THEN Error(inode_put(descr_put(w.t, d.fildes), w.ip))
          ELSE FillPtr(o, o.proc[p].descr[d.fildes], w.ip)
  BY <1>1, <1>2, <1>3 DEF do_fs_open
<1>5. \/ d.t = Error(t)
      \/ \E a \in Fildes, b \in FilePtr :
           d.t = Descr(t, a, a, b) /\ d.fildes = a /\ t.file_ptr[b].count = 0
  BY <1>1, DescrGot
<1> HIDE DEF z
<1>6. CASE d.t = Error(t)
  <2>1. d.t.err
    BY <1>6, ErrorGood DEF Steady
  <2>2. z = Error(t)
    BY <1>4, <1>6, <2>1
  <2>3. Steady(z) /\ Diagonal(z) /\ z.file_ptr = t.file_ptr
    BY <2>2, ErrorSteady
  <2> QED
    BY <2>3 DEF Ones, z
<1>7. ASSUME NEW a \in Fildes, NEW b \in FilePtr,
             d.t = Descr(t, a, a, b), d.fildes = a, t.file_ptr[b].count = 0
      PROVE  Steady(z) /\ Diagonal(z) /\ (Ones(t) => Ones(z))
  <2> DEFINE s == d.t
  <2>1. a \in Pids /\ b \in PtrOrNull /\ NULL \in PtrOrNull
    BY Constant DEF PtrOrNull
  <2>2. /\ Good(s, NULL, NULL) /\ s.inode = t.inode /\ s.file_ptr = t.file_ptr
        /\ s.err = t.err /\ s.panic = t.panic /\ s.lost = t.lost
        /\ \A q \in Pids : s.proc[q].root = t.proc[q].root /\ s.proc[q].work = t.proc[q].work
        /\ \A q \in Pids, e \in Fildes :
             s.proc[q].descr[e] = IF q = a /\ e = a THEN b ELSE t.proc[q].descr[e]
        /\ OpensMatch(s) /\ FreePtrs(s) /\ Dirs(s) /\ Diagonal(s)
    BY <1>7, <2>1, DescrGood DEF Steady
  <2> HIDE DEF s
  <2>3. Steady(s)
    BY <2>2 DEF Steady
  <2>4. p \in Pids /\ Begins(s, p, path)
    <3>1. start_dir(s, p, path) = start_dir(t, p, path) /\ p \in Pids
      BY <2>2 DEF Begins, start_dir
    <3> QED
      BY <2>2, <3>1 DEF Begins
  <2>5. Walked(s, NULL, w)
    <3>1. w = path_to_inode(s, p, path, deny)
      BY <1>2 DEF s
    <3> QED
      BY <2>2, <2>4, <3>1, PathWalked
  <2>6. /\ Good(w.t, w.ip, NULL) /\ Kept(s, w.t) /\ SameInos(s, w.t) /\ w.ip \in InodeOrNull
        /\ w.t.file_ptr = t.file_ptr /\ w.t.proc = s.proc /\ w.t.lost = t.lost
    BY <2>2, <2>5, KeptInos DEF Walked, Walks, Kept, SameRest
  <2>7. OpensMatch(w.t) /\ FreePtrs(w.t) /\ Dirs(w.t) /\ Diagonal(w.t) /\ (Ones(t) => Ones(w.t))
    <3>1. OpensMatch(w.t)
      BY <2>2, <2>6, OpensKept DEF Good
    <3> QED
      BY <2>2, <2>6, <3>1 DEF FreePtrs, Dirs, Diagonal, Ones
  <2>8. descr_put(w.t, d.fildes) = Descr(w.t, a, a, NULL)
    BY <1>7 DEF descr_put, Set_OPEN_DESCR, Descr
  <2> DEFINE v == Descr(w.t, a, a, NULL)
  <2>9. /\ Good(v, w.ip, NULL) /\ OpensMatch(v) /\ FreePtrs(v) /\ Dirs(v) /\ Diagonal(v)
        /\ v.file_ptr = t.file_ptr
    BY <2>1, <2>6, <2>7, DescrGood
  <2> HIDE DEF v
  <2>10. ~d.t.err
    BY <2>2 DEF s
  <2>11. CASE w.t.err \/ w.t.panic
    <3>1. w.ip = NULL
      BY <2>2, <2>5, <2>11 DEF Walked
    <3>2. z = v
      BY <1>4, <2>8, <2>10, <2>11 DEF v
    <3>3. Good(v, NULL, NULL)
      BY <2>9, <3>1
    <3> QED
      BY <2>9, <3>2, <3>3 DEF Steady, Ones
  <2>12. CASE ~(w.t.err \/ w.t.panic) /\ IsDev(w.t, w.ip) /\ ~willing
    <3>1. z = Error(inode_put(v, w.ip))
      BY <1>4, <2>8, <2>10, <2>12 DEF v
    <3> DEFINE y == inode_put(v, w.ip)
    <3>2. Steady(y) /\ Diagonal(y) /\ y.file_ptr = v.file_ptr
      BY <2>6, <2>9, PutSettles
    <3> HIDE DEF y
    <3>3. Steady(Error(y)) /\ Diagonal(Error(y)) /\ Error(y).file_ptr = y.file_ptr
      BY <3>2, ErrorSteady
    <3>4. z = Error(y)
      BY <3>1 DEF y
    <3> QED
      BY <2>9, <3>2, <3>3, <3>4 DEF Ones
  <2>13. CASE ~(w.t.err \/ w.t.panic) /\ ~(IsDev(w.t, w.ip) /\ ~willing)
    <3>1. w.ip \in InodePtr /\ w.ip # NULL
      BY <2>5, <2>6, <2>13, Constant DEF Walked, InodeOrNull
    <3> DEFINE f == s.proc[p].descr[a]
    <3>2. o.proc = s.proc
      <4>1. w.t \in Tables
        BY <2>6 DEF Good, Tidy
      <4> QED
        BY <1>3, <2>6, <4>1 DEF Tables
    <3>3. z = FillPtr(o, f, w.ip)
      BY <1>4, <1>7, <2>10, <2>13, <3>2
    <3>4. f \in PtrOrNull /\ (f # NULL => w.t.file_ptr[f].inode = NULL)
      <4>1. CASE p = a
        <5>1. f = b
          BY <2>2, <2>4, <4>1
        <5>2. w.t.file_ptr[b].inode = NULL
          BY <1>7, <2>6 DEF Steady, FreePtrs
        <5> QED
          BY <2>1, <5>1, <5>2
      <4>2. CASE p # a
        <5>1. f = NULL
          BY <2>2, <2>4, <4>2 DEF Diagonal
        <5> QED
          BY <2>1, <5>1
      <4> QED
        BY <4>1, <4>2
    <3> HIDE DEF f
    <3>5. \A i \in InodePtr : w.t.lost[i] <= MaxLost
      BY <2>6
    <3>6. /\ Steady(FillPtr(o, f, w.ip)) /\ Diagonal(FillPtr(o, f, w.ip))
          /\ (Ones(w.t) => Ones(FillPtr(o, f, w.ip)))
      BY <1>3, <2>6, <2>7, <3>1, <3>4, <3>5, FillSteady
    <3> QED
      BY <2>7, <3>3, <3>6
  <2> QED
    BY <2>11, <2>12, <2>13
<1> QED
  BY <1>5, <1>6, <1>7 DEF z

\* do_fs_execve opens and closes.
LEMMA ExecveSteady ==
  ASSUME NEW t, Steady(t), Diagonal(t), Ones(t), ~t.err, ~t.panic,
         \A i \in InodePtr : t.lost[i] <= MaxLost,
         NEW p, NEW path, Begins(t, p, path), ~do_fs_open(t, p, path, 0, FALSE).err
  PROVE  Steady(do_fs_execve(t, p, path)) /\ Diagonal(do_fs_execve(t, p, path))
<1>1. PICK willing \in BOOLEAN : willing = FALSE
  OBVIOUS
<1>2. PICK deny \in Int : deny = 0
  OBVIOUS
<1> DEFINE u == do_fs_open(t, p, path, deny, willing)
<1>3. ~u.err
  BY <1>1, <1>2
<1>4. Steady(u) /\ Diagonal(u) /\ Ones(u)
  BY OpenSteady
<1>5. PICK d : d = descr_get(t).fildes
  OBVIOUS
<1>6. do_fs_execve(t, p, path) = do_fs_close(u, p, d)
  BY <1>5, <1>1, <1>2 DEF do_fs_execve
<1>7. d \in Fildes
  <2>1. CASE descr_get(t).t = Error(t)
    <3>1. Error(t).err
      BY ErrorGood DEF Steady
    <3>2. u = Error(t)
      BY <2>1, <3>1 DEF do_fs_open
    <3> QED
      BY <1>3, <3>1, <3>2
  <2> QED
    BY <1>5, <2>1, DescrGot
<1>8. p \in Pids
  BY DEF Begins
<1> HIDE DEF u
<1> QED
  BY <1>4, <1>6, <1>7, <1>8, CloseSteady

-----------------------------------------------------------------------------
(* Processes, and the calls without one. *)

\* What a fork copies is all NULL, if every file pointer in use has one descriptor before
\* and after.
Plain(t) == \A f \in FilePtr : t.file_ptr[f].count > 0 =>
              t.file_ptr[f].count = 1 /\ t.file_ptr[f].inode # NULL

\* do_fs_fork: the child's directories are two more references.  It copies the descriptors,
\* and what that shares is not Plain any more.
LEMMA ForkSteady ==
  ASSUME NEW t, Steady(t), Diagonal(t), Plain(t), NEW parent \in Pids, NEW child \in Pids,
         t.proc[parent].root # NULL, t.proc[child].root = NULL
  PROVE  /\ Steady(do_fs_fork(t, parent, child))
         /\ Plain(do_fs_fork(t, parent, child)) => Diagonal(do_fs_fork(t, parent, child))
<1> DEFINE q == t.proc[parent]
           a == q.root
           b == q.work
           r == [t EXCEPT !.inode[a].count = @ + 1]
           s == [r EXCEPT !.inode[b].count = @ + 1]
           P == [t.proc EXCEPT ![child] = q]
           w == [s EXCEPT !.proc = P]
           n(f) == Cardinality({d \in Fildes : q.descr[d] = f})
           c == [f \in PtrOrNull |->
                   [inode |-> t.file_ptr[f].inode,
                    count |-> IF f = NULL THEN t.file_ptr[f].count
                              ELSE t.file_ptr[f].count + n(f)]]
           z == do_fs_fork(t, parent, child)
<1>1. /\ Good(t, NULL, NULL) /\ t \in Tables /\ t.proc \in [Pids -> Procs] /\ q \in Procs
      /\ t.file_ptr \in [PtrOrNull -> FilePtrs]
  BY TablesFields DEF Steady, Good, Tidy
<1>2. a \in InodePtr /\ b \in InodePtr /\ a \in InodeOrNull /\ b \in InodeOrNull
  <2>1. a # NULL /\ b # NULL /\ a \in InodeOrNull /\ b \in InodeOrNull
    BY <1>1 DEF Steady, Dirs, Procs
  <2> QED
    BY <2>1 DEF InodeOrNull
<1>3. References(t, a) >= 1 /\ References(t, b) >= 1
  BY RefsSome
<1>4. t.inode[a].count > 0
  <2> HIDE DEF a
  <2>1. /\ References(t, a) \in Nat /\ t.lost[a] \in Nat /\ One(a, NULL) \in 0 .. 1
        /\ t.inode[a].count = References(t, a) + t.lost[a] + One(a, NULL) + One(a, NULL)
    BY <1>1, <1>2, GoodTerms
  <2> QED
    BY <1>3, <2>1
<1>5. Good(r, a, NULL) /\ Kept(t, r) /\ Good(r, NULL, a)
  <2> HIDE DEF a
  <2>1. Good(r, a, NULL) /\ Kept(t, r)
    BY <1>1, <1>2, <1>4, StartGood
  <2> HIDE DEF r
  <2> QED
    BY <2>1, GoodSwap
<1> HIDE DEF a, b, r
<1>6. r.inode[b].count > 0
  <2>1. References(r, b) = References(t, b)
    BY <1>5, RefsSame DEF Kept, SameRest
  <2>2. /\ References(r, b) \in Nat /\ r.lost[b] \in Nat /\ One(b, NULL) \in 0 .. 1
        /\ One(b, a) \in 0 .. 1
        /\ r.inode[b].count = References(r, b) + r.lost[b] + One(b, NULL) + One(b, a)
    BY <1>2, <1>5, GoodTerms
  <2> QED
    BY <1>3, <2>1, <2>2
<1>7. Good(s, b, a) /\ Kept(t, s)
  <2>1. Good(s, b, a) /\ Kept(r, s)
    BY <1>2, <1>5, <1>6, StartGood
  <2> HIDE DEF s
  <2> QED
    BY <1>5, <2>1, KeptTwice
<1> DEFINE shared == [f \in DOMAIN t.file_ptr |->
                        [t.file_ptr[f] EXCEPT !.count = IF f = NULL THEN @ ELSE @ + n(f)]]
<1>8. z = [[r EXCEPT !.inode[b].count = @ + 1, !.proc[child] = q] EXCEPT !.file_ptr = shared]
  BY DEF do_fs_fork, r, a, b
<1> HIDE DEF shared
<1>9. s \in Tables /\ s.proc = t.proc /\ s.file_ptr = t.file_ptr /\ s.lost = t.lost
      /\ s.super = t.super /\ s.opens = t.opens /\ r \in Tables
  BY <1>5, <1>7 DEF Good, Tidy, Kept, SameRest
<1>10. [r EXCEPT !.inode[b].count = @ + 1, !.proc[child] = q] = w
  <2>1. r.proc = t.proc
    BY <1>5 DEF Kept, SameRest
  <2> QED
    BY <1>9, <2>1 DEF Tables
<1> HIDE DEF s
<1>11. P \in [Pids -> Procs] /\ P[child] = q /\ \A p \in Pids : p # child => P[p] = t.proc[p]
  BY <1>1
<1> HIDE DEF P
<1>12. /\ w \in Tables /\ w.proc = P /\ w.file_ptr = t.file_ptr /\ w.lost = t.lost
       /\ w.super = t.super /\ w.opens = t.opens /\ w.inode = s.inode /\ w.device = s.device
  BY <1>9, <1>11 DEF Tables
<1> HIDE DEF w
<1>13. ASSUME NEW i \in InodePtr
       PROVE  References(w, i) = References(s, i) + One(i, a) + One(i, b)
  <2>1. /\ References(w, i) = Cardinality(Roots(w, i)) + Cardinality(Works(w, i))
                              + Cardinality(PtrsTo(w, i)) + One(w.super, i)
        /\ Cardinality(Roots(w, i)) \in Nat /\ Cardinality(Works(w, i)) \in Nat
        /\ Cardinality(PtrsTo(w, i)) \in Nat /\ One(w.super, i) \in Nat
    BY RefsBound, Constant DEF One
  <2>2. /\ References(s, i) = Cardinality(Roots(s, i)) + Cardinality(Works(s, i))
                              + Cardinality(PtrsTo(s, i)) + One(s.super, i)
        /\ Cardinality(Roots(s, i)) \in Nat /\ Cardinality(Works(s, i)) \in Nat
    BY RefsBound, Constant DEF One
  <2>3. PtrsTo(w, i) = PtrsTo(s, i) /\ w.super = s.super
    BY <1>9, <1>12 DEF PtrsTo
  <2>4. s.proc[child].root = NULL /\ s.proc[child].work = NULL
    BY <1>9 DEF Steady, Dirs
  <2>5. w.proc[child].root = a /\ w.proc[child].work = b
    BY <1>11, <1>12 DEF a, b
  <2>6. Cardinality(Roots(w, i)) + One(i, NULL) = Cardinality(Roots(s, i)) + One(i, a)
    <3>1. \A p \in Pids \ {child} : w.proc[p].root = s.proc[p].root
      BY <1>9, <1>11, <1>12
    <3> QED
      BY <2>4, <2>5, <3>1, RootMoves
  <2>7. Cardinality(Works(w, i)) + One(i, NULL) = Cardinality(Works(s, i)) + One(i, b)
    <3>1. \A p \in Pids \ {child} : w.proc[p].work = s.proc[p].work
      BY <1>9, <1>11, <1>12
    <3>2. Cardinality(Works(w, i)) + One(i, s.proc[child].work)
          = Cardinality(Works(s, i)) + One(i, w.proc[child].work)
      BY <3>1, WorkMoves
    <3> QED
      BY <2>4, <2>5, <3>2
  <2>8. One(i, NULL) = 0 /\ One(i, a) \in Nat /\ One(i, b) \in Nat
    BY Constant DEF One
  <2> QED
    BY <2>1, <2>2, <2>3, <2>6, <2>7, <2>8
<1>14. Steady(w)
  <2>1. \A i \in InodePtr : References(w, i) + w.lost[i] + One(i, NULL) + One(i, NULL)
                            = References(s, i) + s.lost[i] + One(i, b) + One(i, a)
    <3> TAKE i \in InodePtr
    <3>1. /\ One(i, NULL) = 0 /\ One(i, a) \in Nat /\ One(i, b) \in Nat
          /\ References(s, i) \in Nat /\ References(w, i) \in Nat /\ s.lost[i] \in Nat
      BY <1>9, Constant, RefsBound, TablesFields DEF One
    <3>2. References(w, i) = References(s, i) + One(i, a) + One(i, b) /\ w.lost[i] = s.lost[i]
      BY <1>9, <1>12, <1>13
    <3> QED
      BY <3>1, <3>2
  <2>2. LostBounded(w)
    BY <1>1, <1>12 DEF Good, Tidy, LostBounded
  <2>3. Good(w, NULL, NULL)
    BY <1>7, <1>12, <2>1, <2>2, Reshaped
  <2>4. OpensMatch(w)
    <3>1. OpensMatch(s)
      BY <1>1, <1>7, KeptInos, OpensKept DEF Steady, Good
    <3>2. \A i : IsDev(w, i) <=> IsDev(s, i)
      BY <1>12 DEF IsDev, KindOf
    <3>3. DevPtrs(w) = DevPtrs(s) /\ DevLost(w) = DevLost(s)
      BY <1>9, <1>12, <3>2 DEF DevPtrs, DevLost
    <3> QED
      BY <1>9, <1>12, <3>1, <3>3 DEF OpensMatch
  <2>5. FreePtrs(w)
    BY <1>12 DEF Steady, FreePtrs
  <2>6. Dirs(w)
    <3>1. w.proc[child].root = a /\ w.proc[child].work = b /\ a # NULL /\ b # NULL
      BY <1>2, <1>11, <1>12, Constant DEF a, b
    <3> QED
      BY <1>11, <1>12, <3>1, Constant DEF Steady, Dirs
  <2> QED
    BY <2>3, <2>4, <2>5, <2>6 DEF Steady
<1>15. \A f : n(f) \in Nat /\ ((\E d \in Fildes : q.descr[d] = f) => n(f) >= 1)
  <2> TAKE f
  <2> DEFINE F == {d \in Fildes : q.descr[d] = f}
  <2>1. IsFiniteSet(F)
    <3>1. IsFiniteSet(Fildes) /\ F \subseteq Fildes
      BY FilesAssumption, FS_Interval DEF Fildes
    <3> HIDE DEF F
    <3> QED
      BY <3>1, FS_Subset
  <2>2. (\E d \in Fildes : q.descr[d] = f) => F # {}
    OBVIOUS
  <2> HIDE DEF F
  <2>3. Cardinality(F) \in Nat /\ (F # {} => Cardinality(F) # 0)
    BY <2>1, FS_CardinalityType, FS_EmptySet
  <2>4. n(f) = Cardinality(F)
    BY DEF F
  <2> HIDE DEF n
  <2> QED
    BY <2>2, <2>3, <2>4
<1>16. z = [w EXCEPT !.file_ptr = c]
  <2>1. z = [w EXCEPT !.file_ptr = shared]
    <3> HIDE DEF z, n
    <3> QED
      BY <1>8, <1>10
  <2>2. ASSUME NEW f \in PtrOrNull
        PROVE  [t.file_ptr[f] EXCEPT !.count = IF f = NULL THEN @ ELSE @ + n(f)]
               = [inode |-> t.file_ptr[f].inode,
                  count |-> IF f = NULL THEN t.file_ptr[f].count ELSE t.file_ptr[f].count + n(f)]
    <3>1. t.file_ptr[f] \in FilePtrs
      BY <1>1
    <3> HIDE DEF n
    <3> QED
      BY <3>1 DEF FilePtrs
  <2>3. shared = c
    <3>1. DOMAIN t.file_ptr = PtrOrNull
      BY <1>1
    <3> HIDE DEF n
    <3> QED
      BY <2>2, <3>1 DEF shared
  <2> HIDE DEF c
  <2> QED
    BY <2>1, <2>3
<1> HIDE DEF n, z
<1>17. /\ c \in [PtrOrNull -> FilePtrs] /\ c[NULL].inode = t.file_ptr[NULL].inode /\ c[NULL].count = t.file_ptr[NULL].count
       /\ \A f \in FilePtr : /\ c[f].inode = t.file_ptr[f].inode
                             /\ c[f].count = t.file_ptr[f].count + n(f)
       /\ \A f \in PtrOrNull : t.file_ptr[f] \in FilePtrs /\ t.file_ptr[f].count \in Nat
  <2>1. \A f \in PtrOrNull : /\ t.file_ptr[f] \in FilePtrs /\ t.file_ptr[f].inode \in InodeOrNull
                             /\ t.file_ptr[f].count \in Nat
    BY <1>1 DEF FilePtrs
  <2>2. \A f \in PtrOrNull : c[f] \in FilePtrs
    BY <1>15, <2>1 DEF FilePtrs
  <2>3. c \in [PtrOrNull -> FilePtrs] /\ c[NULL].inode = t.file_ptr[NULL].inode
        /\ c[NULL].count = t.file_ptr[NULL].count
    BY <2>2 DEF PtrOrNull
  <2>4. \A f \in FilePtr : /\ c[f].inode = t.file_ptr[f].inode
                           /\ c[f].count = t.file_ptr[f].count + n(f)
    BY Constant DEF PtrOrNull
  <2> QED
    BY <2>1, <2>3, <2>4
<1> HIDE DEF c
<1>18. /\ z \in Tables /\ z.file_ptr = c /\ z.inode = w.inode /\ z.device = w.device
       /\ z.proc = w.proc /\ z.opens = w.opens /\ z.lost = w.lost /\ z.super = w.super
  BY <1>12, <1>16, <1>17 DEF Tables
<1>19. Steady(z) /\ (Diagonal(w) => Diagonal(z))
  <2>1. \A f \in PtrOrNull : /\ z.file_ptr[f].inode = w.file_ptr[f].inode
                             /\ z.file_ptr[f].count = 0 => w.file_ptr[f].count = 0
    <3> TAKE f \in PtrOrNull
    <3>1. CASE f = NULL
      BY <1>12, <1>17, <1>18, <3>1
    <3>2. CASE f \in FilePtr
      <4>1. t.file_ptr[f].count \in Nat /\ n(f) \in Nat
        BY <1>15, <1>17
      <4>2. /\ z.file_ptr[f].inode = w.file_ptr[f].inode
            /\ z.file_ptr[f].count = w.file_ptr[f].count + n(f)
            /\ w.file_ptr[f].count = t.file_ptr[f].count
        BY <1>12, <1>17, <1>18, <3>2
      <4> QED
        BY <4>1, <4>2
    <3> QED
      BY <3>1, <3>2 DEF PtrOrNull
  <2> QED
    BY <1>14, <1>18, <2>1, PtrCounts
<1>20. ASSUME Plain(z) PROVE Diagonal(w)
  <2>1. ASSUME NEW d \in Fildes PROVE q.descr[d] = NULL
    <3> SUFFICES ASSUME NEW f \in FilePtr, q.descr[d] = f PROVE FALSE
      BY <1>1 DEF Procs, PtrOrNull
    <3>1. n(f) \in Nat /\ n(f) >= 1
      BY <1>15
    <3>2. t.file_ptr[f].count \in Nat /\ f \in PtrOrNull
      BY <1>17 DEF PtrOrNull
    <3>3. z.file_ptr[f].inode = t.file_ptr[f].inode /\ z.file_ptr[f].count = t.file_ptr[f].count + n(f)
      BY <1>17, <1>18
    <3>4. z.file_ptr[f].count = 1 /\ z.file_ptr[f].inode # NULL
      BY <1>20, <3>1, <3>2, <3>3 DEF Plain
    <3>5. t.file_ptr[f].count = 0
      BY <3>1, <3>2, <3>3, <3>4
    <3> QED
      BY <3>3, <3>4, <3>5 DEF Steady, FreePtrs
  <2> QED
    BY <1>11, <1>12, <2>1 DEF Diagonal
<1> QED
  BY <1>19, <1>20 DEF z

\* A process with its directories exits.
LEMMA ExitSteady ==
  ASSUME NEW t, Steady(t), Diagonal(t), Ones(t), NEW p \in Pids, p # FS_PID
  PROVE  Steady(do_fs_exit(t, p)) /\ Diagonal(do_fs_exit(t, p))
<1>1. PICK root \in {"root", "work"} : root = "root"
  OBVIOUS
<1>2. PICK work \in {"root", "work"} : work = "work"
  OBVIOUS
<1>3. PICK none \in InodeOrNull : none = NULL
  BY DEF InodeOrNull
<1> DEFINE r == Dir(inode_put(t, t.proc[p][root]), p, root, none)
           d == Dir(inode_put(r, r.proc[p][work]), p, work, none)
           close(x, i) == IF t.proc[p].descr[i - 1] = NULL THEN x ELSE do_fs_close(x, p, i - 1)
           c[n \in 0 .. OPEN_MAX] ==
             IF n = 0 THEN d
             ELSE IF t.proc[p].descr[n - 1] = NULL THEN c[n - 1] ELSE do_fs_close(c[n - 1], p, n - 1)
           S == {x \in Tables : Steady(x) /\ Ones(x) /\ Diagonal(x)}
           G == [z \in (1 .. OPEN_MAX) \X S |-> close(z[2], z[1])]
<1>4. Good(t, none, NULL) /\ OpensMatch(t)
  BY <1>3 DEF Steady
<1>5. /\ Good(r, NULL, NULL) /\ OpensMatch(r) /\ r.file_ptr = t.file_ptr
      /\ \A q \in Pids : r.proc[q].descr = t.proc[q].descr
      /\ \A q \in Pids \ {p} : r.proc[q] = t.proc[q]
      /\ r.proc[p].root = none
  <2>1. root = "root"
    BY <1>1
  <2> HIDE DEF r
  <2> QED
    BY <1>4, <2>1, DirPut DEF r
<1>6. [inode_put(t, t.proc[p].root) EXCEPT !.proc[p].root = NULL] = r
  <2>1. t.proc[p][root] = t.proc[p].root
    BY <1>1
  <2> QED
    BY <1>1, <1>3, <2>1 DEF Dir
<1> HIDE DEF r
<1>7. /\ Good(d, NULL, NULL) /\ OpensMatch(d) /\ d.file_ptr = t.file_ptr
      /\ \A q \in Pids : d.proc[q].descr = t.proc[q].descr
      /\ \A q \in Pids \ {p} : d.proc[q] = t.proc[q]
      /\ d.proc[p].root = NULL /\ d.proc[p].work = NULL
  <2>1. work = "work" /\ Good(r, none, NULL)
    BY <1>2, <1>3, <1>5
  <2>2. /\ Good(d, NULL, NULL) /\ OpensMatch(d) /\ d.file_ptr = r.file_ptr
        /\ \A q \in Pids : d.proc[q].descr = r.proc[q].descr
        /\ \A q \in Pids \ {p} : d.proc[q] = r.proc[q]
        /\ d.proc[p].work = none /\ d.proc[p].root = r.proc[p].root
    <3> HIDE DEF d
    <3> QED
      BY <1>5, <2>1, DirPut DEF d
  <2> HIDE DEF d
  <2> QED
    BY <1>3, <1>5, <2>2
<1>8. [inode_put(r, r.proc[p].work) EXCEPT !.proc[p].work = NULL] = d
  <2>1. r.proc[p][work] = r.proc[p].work
    BY <1>2
  <2> QED
    BY <1>2, <1>3, <2>1 DEF Dir
<1> HIDE DEF d
<1>9. do_fs_exit(t, p) = c[OPEN_MAX]
  <2> DEFINE a == [inode_put(t, t.proc[p].root) EXCEPT !.proc[p].root = NULL]
             b(x) == [inode_put(x, x.proc[p].work) EXCEPT !.proc[p].work = NULL]
             closed(x) ==
               LET f[n \in 0 .. OPEN_MAX] ==
                     IF n = 0 THEN x
                     ELSE IF t.proc[p].descr[n - 1] = NULL THEN f[n - 1]
                     ELSE do_fs_close(f[n - 1], p, n - 1)
               IN f[OPEN_MAX]
  <2>1. do_fs_exit(t, p) = closed(b(a))
    BY Zenon DEF do_fs_exit
  <2>2. closed(d) = c[OPEN_MAX]
    BY Zenon
  <2>3. a = r /\ b(r) = d
    BY <1>6, <1>8
  <2> HIDE DEF a, b, closed, c
  <2> QED
    BY <2>1, <2>2, <2>3
<1>10. d \in S
  <2>1. FreePtrs(d) /\ Ones(d) /\ Diagonal(d)
    BY <1>7 DEF Steady, FreePtrs, Ones, Diagonal
  <2>2. Dirs(d)
    BY <1>7, Constant DEF Steady, Dirs
  <2>3. d \in Tables
    BY <1>7 DEF Good, Tidy
  <2> QED
    BY <1>7, <2>1, <2>2, <2>3 DEF Steady
<1>11. OPEN_MAX \in Nat
  BY FilesAssumption
<1>12. ASSUME NEW i \in 1 .. OPEN_MAX, NEW x \in S PROVE close(x, i) \in S
  <2>1. i - 1 \in Fildes
    BY <1>11 DEF Fildes
  <2> DEFINE y == do_fs_close(x, p, i - 1)
  <2>2. Steady(y) /\ Ones(y) /\ Diagonal(y)
    BY <2>1, CloseSteady
  <2> HIDE DEF y
  <2>3. y \in Tables
    BY <2>2 DEF Steady, Good, Tidy
  <2>4. y \in S
    BY <2>2, <2>3
  <2> HIDE DEF S
  <2> QED
    BY <2>4 DEF y
<1> HIDE DEF S, close
<1>13. G \in [(1 .. OPEN_MAX) \X S -> S]
  BY <1>12
<1>14. PICK f \in [0 .. OPEN_MAX -> S] : Turns(OPEN_MAX, d, G, f)
  <2> HIDE DEF G
  <2> QED
    BY <1>10, <1>11, <1>13, LoopExists
<1>15. f = [n \in 0 .. OPEN_MAX |-> IF n = 0 THEN d ELSE close(f[n - 1], n)]
  <2>1. \A n \in 0 .. OPEN_MAX : n # 0 => G[<<n, f[n - 1]>>] = close(f[n - 1], n)
    BY <1>11
  <2> HIDE DEF G
  <2>2. \A n \in 0 .. OPEN_MAX : f[n] = IF n = 0 THEN d ELSE close(f[n - 1], n)
    BY <1>14, <2>1 DEF Turns
  <2> QED
    BY <2>2
<1>16. c = [n \in 0 .. OPEN_MAX |-> IF n = 0 THEN d ELSE close(c[n - 1], n)]
  BY <1>15 DEF c, close
<1> HIDE DEF c
<1> DEFINE A == {n \in 0 .. OPEN_MAX : c[n] \in S}
<1>17. 0 \in A
  BY <1>10, <1>11, <1>16
<1>18. ASSUME NEW n \in 0 .. OPEN_MAX - 1, n \in A PROVE n + 1 \in A
  <2>1. n + 1 \in 1 .. OPEN_MAX /\ (n + 1) - 1 = n /\ n + 1 # 0
    BY <1>11
  <2>2. PICK k \in 0 .. OPEN_MAX : k = n + 1
    BY <2>1
  <2>3. c[k] = close(c[k - 1], k)
    BY <1>16, <2>1, <2>2
  <2>4. c[n + 1] = close(c[n], n + 1)
    BY <2>1, <2>2, <2>3
  <2> QED
    BY <1>12, <1>18, <2>1, <2>4
<1> HIDE DEF A
<1>19. OPEN_MAX \in A
  BY <1>11, <1>17, <1>18, UpTo
<1>20. c[OPEN_MAX] \in S
  BY <1>19 DEF A
<1> QED
  BY <1>9, <1>20 DEF S

\* SyncInodes writes one inode after the other.
LEMMA SyncSteady ==
  ASSUME NEW t, Steady(t)
  PROVE  Steady(SyncInodes(t)) /\ (Diagonal(t) => Diagonal(SyncInodes(t)))
<1> DEFINE w[i \in 0 .. NumInodes] == IF i = 0 THEN t ELSE inode_write(w[i - 1], i)
           S == {x \in Tables : Good(x, NULL, NULL) /\ SameInos(t, x)}
           G == [z \in (1 .. NumInodes) \X S |-> inode_write(z[2], z[1])]
<1>1. SyncInodes(t) = w[NumInodes]
  BY DEF SyncInodes
<1>2. NumInodes \in Nat
  BY Constant
<1>3. t \in S
  <2>1. Good(t, NULL, NULL) /\ t \in Tables
    BY DEF Steady, Good, Tidy
  <2> QED
    BY <2>1, KeptSelf, KeptInos
<1>4. ASSUME NEW i \in 1 .. NumInodes, NEW x \in S PROVE inode_write(x, i) \in S
  <2> DEFINE y == inode_write(x, i)
  <2>1. i \in InodePtr /\ Good(x, NULL, NULL) /\ SameInos(t, x)
    BY DEF InodePtr
  <2>2. Good(y, NULL, NULL) /\ SameInos(x, y)
    BY <2>1, WriteGood
  <2> HIDE DEF y
  <2>3. y \in Tables /\ SameInos(t, y)
    BY <2>1, <2>2, SameInosTwice DEF Good, Tidy
  <2>4. y \in S
    BY <2>2, <2>3
  <2> HIDE DEF S
  <2> QED
    BY <2>4 DEF y
<1> HIDE DEF S
<1>5. G \in [(1 .. NumInodes) \X S -> S]
  BY <1>4
<1>6. PICK f \in [0 .. NumInodes -> S] : Turns(NumInodes, t, G, f)
  <2> HIDE DEF G
  <2> QED
    BY <1>2, <1>3, <1>5, LoopExists
<1>7. f = [i \in 0 .. NumInodes |-> IF i = 0 THEN t ELSE inode_write(f[i - 1], i)]
  <2>1. \A i \in 0 .. NumInodes : i # 0 => G[<<i, f[i - 1]>>] = inode_write(f[i - 1], i)
    BY <1>2
  <2> HIDE DEF G
  <2>2. \A i \in 0 .. NumInodes : f[i] = IF i = 0 THEN t ELSE inode_write(f[i - 1], i)
    BY <1>6, <2>1 DEF Turns
  <2> QED
    BY <2>2
<1>8. w = [i \in 0 .. NumInodes |-> IF i = 0 THEN t ELSE inode_write(w[i - 1], i)]
  BY <1>7 DEF w
<1> HIDE DEF w
<1> DEFINE A == {i \in 0 .. NumInodes : w[i] \in S}
<1>9. 0 \in A
  BY <1>2, <1>3, <1>8
<1>10. ASSUME NEW i \in 0 .. NumInodes - 1, i \in A PROVE i + 1 \in A
  <2>1. i + 1 \in 1 .. NumInodes /\ (i + 1) - 1 = i /\ i + 1 # 0
    BY <1>2
  <2>2. PICK k \in 0 .. NumInodes : k = i + 1
    BY <2>1
  <2>3. w[k] = inode_write(w[k - 1], k)
    BY <1>8, <2>1, <2>2
  <2>4. w[i + 1] = inode_write(w[i], i + 1)
    BY <2>1, <2>2, <2>3
  <2> QED
    BY <1>4, <1>10, <2>1, <2>4
<1> HIDE DEF A
<1>11. NumInodes \in A
  <2>1. \A i \in 0 .. NumInodes - 1 : i \in A => i + 1 \in A
    BY <1>10
  <2>2. \A i \in 0 .. NumInodes : i \in A
    BY <1>2, <1>9, <2>1, UpTo
  <2> QED
    BY <1>2, <2>2
<1>12. Good(w[NumInodes], NULL, NULL) /\ SameInos(t, w[NumInodes])
  BY <1>11 DEF A, S
<1> QED
  BY <1>1, <1>12, Settled

\* SHUTDOWN puts the root directory's inode.
LEMMA ShutdownSteady ==
  ASSUME NEW t, Steady(t)
  PROVE  /\ Steady([inode_put(t, t.super) EXCEPT !.super = NULL, !.down = TRUE])
         /\ Diagonal(t) => Diagonal([inode_put(t, t.super) EXCEPT !.super = NULL, !.down = TRUE])
<1> DEFINE x == t.super
           v == inode_put(t, x)
           r == [v EXCEPT !.super = NULL, !.down = TRUE]
<1>1. Good(t, NULL, NULL) /\ Tidy(t) /\ t \in Tables /\ x \in InodeOrNull
  BY TablesFields DEF Steady, Good, Tidy
<1>2. References(t, x) >= 1
  BY RefsSome
<1> HIDE DEF x
<1>3. x \in InodePtr => t.inode[x].count \in 1 .. 255
  <2> SUFFICES ASSUME x \in InodePtr PROVE t.inode[x].count \in 1 .. 255
    OBVIOUS
  <2>1. /\ t.inode[x].count \in 0 .. 255
        /\ References(t, x) \in Nat /\ t.lost[x] \in Nat /\ One(x, NULL) \in 0 .. 1
        /\ t.inode[x].count = References(t, x) + t.lost[x] + One(x, NULL) + One(x, NULL)
    BY <1>1, GoodTerms
  <2> QED
    BY <1>2, <2>1
<1>4. /\ Tidy(v) /\ SameRest(t, v)
      /\ \A j \in InodePtr :
           /\ v.inode[j].ino = t.inode[j].ino
           /\ v.inode[j].count = t.inode[j].count - One(j, x)
  <2>1. CASE x = NULL
    <3>1. v = t
      BY <2>1 DEF inode_put
    <3>2. \A j \in InodePtr : One(j, x) = 0 /\ t.inode[j].count \in Nat
      BY <1>1, <2>1, Constant, SlotFields DEF One
    <3> HIDE DEF v
    <3> QED
      BY <1>1, <3>1, <3>2 DEF SameRest
  <2>2. CASE x \in InodePtr
    BY <1>1, <1>3, <2>2, PutTable
  <2> QED
    BY <1>1, <2>1, <2>2 DEF InodeOrNull
<1> HIDE DEF v
<1>5. v \in Tables /\ NULL \in InodeOrNull
  BY <1>4 DEF Tidy, InodeOrNull
<1>6. /\ r \in Tables /\ r.super = NULL /\ r.inode = v.inode /\ r.device = v.device
      /\ r.file_ptr = v.file_ptr /\ r.proc = v.proc /\ r.opens = v.opens /\ r.lost = v.lost
  BY <1>5 DEF Tables
<1>7. v.super = x /\ v.proc = t.proc /\ v.file_ptr = t.file_ptr /\ v.lost = t.lost
      /\ v.opens = t.opens
  BY <1>4 DEF SameRest, x
<1> HIDE DEF r
<1>8. ASSUME NEW i \in InodePtr
      PROVE  References(r, i) + One(i, x) = References(t, i)
  <2>1. /\ References(r, i) = Cardinality(Roots(r, i)) + Cardinality(Works(r, i))
                              + Cardinality(PtrsTo(r, i)) + One(r.super, i)
        /\ Cardinality(Roots(r, i)) \in Nat /\ Cardinality(Works(r, i)) \in Nat
        /\ Cardinality(PtrsTo(r, i)) \in Nat /\ One(r.super, i) \in Nat
    BY RefsBound, Constant DEF One
  <2>2. /\ References(t, i) = Cardinality(Roots(t, i)) + Cardinality(Works(t, i))
                              + Cardinality(PtrsTo(t, i)) + One(t.super, i)
    BY RefsBound
  <2>3. Roots(r, i) = Roots(t, i) /\ Works(r, i) = Works(t, i) /\ PtrsTo(r, i) = PtrsTo(t, i)
    BY <1>6, <1>7 DEF Roots, Works, PtrsTo
  <2>4. One(r.super, i) = 0 /\ One(t.super, i) = One(i, x) /\ One(i, x) \in Nat
    BY <1>6, Constant DEF One, x
  <2> QED
    BY <2>1, <2>2, <2>3, <2>4
<1>9. Counted(r, NULL, NULL)
  <2> SUFFICES ASSUME NEW i \in InodePtr
               PROVE  r.inode[i].count = References(r, i) + r.lost[i] + One(i, NULL) + One(i, NULL)
    BY DEF Counted
  <2>1. One(i, NULL) = 0 /\ One(i, x) \in Nat
    BY Constant DEF One
  <2>2. r.inode[i].count = t.inode[i].count - One(i, x) /\ r.lost[i] = t.lost[i]
    BY <1>4, <1>6, <1>7
  <2>3. References(r, i) + One(i, x) = References(t, i) /\ References(r, i) \in Nat
    BY <1>8, RefsBound, Constant
  <2> QED
    BY <1>1, <2>1, <2>2, <2>3, GoodTerms
<1>10. Tidy(r)
  BY <1>4, <1>6 DEF Tidy, OneSlot, DeviceRight, IdleClean, UsedHasIno, LostBounded
<1>11. OpensMatch(r)
  <2>1. SameInos(t, v)
    BY <1>4 DEF SameInos
  <2>2. OpensMatch(v)
    BY <1>1, <2>1, OpensKept DEF Steady
  <2>3. \A i : IsDev(r, i) <=> IsDev(v, i)
    BY <1>6 DEF IsDev, KindOf
  <2>4. DevPtrs(r) = DevPtrs(v) /\ DevLost(r) = DevLost(v)
    BY <1>6, <2>3 DEF DevPtrs, DevLost
  <2> QED
    BY <1>6, <2>2, <2>4 DEF OpensMatch
<1>12. FreePtrs(r) /\ Dirs(r) /\ (Diagonal(t) => Diagonal(r))
  BY <1>6, <1>7 DEF Steady, FreePtrs, Dirs, Diagonal
<1> QED
  BY <1>9, <1>10, <1>11, <1>12 DEF Steady, Good, r, v, x


-----------------------------------------------------------------------------
(* The steps. *)

\* What Regular says of the tables fs.
LEMMA RegularTables ==
  ASSUME Regular
  PROVE  /\ Plain(fs) /\ \A i \in InodePtr : fs.lost[i] <= MaxLost
         /\ \A p \in Callers : \A i \in {fs.proc[p].root, fs.proc[p].work} :
              i # NULL => fs.inode[i].links > 0
<1>1. Plain(fs)
  BY DEF Regular, Plain
<1> QED
  BY <1>1 DEF Regular

\* Only a mark of failure changes.
LEMMA MarkSteady ==
  ASSUME NEW t, Steady(t), NEW u \in Tables,
         u.inode = t.inode, u.device = t.device, u.proc = t.proc, u.opens = t.opens,
         u.lost = t.lost, u.super = t.super, u.file_ptr = t.file_ptr
  PROVE  Steady(u) /\ (Diagonal(t) => Diagonal(u)) /\ (Plain(u) => Plain(t))
<1>1. \A f \in PtrOrNull : /\ u.file_ptr[f].inode = t.file_ptr[f].inode
                           /\ u.file_ptr[f].count = 0 => t.file_ptr[f].count = 0
  OBVIOUS
<1>2. Steady(u) /\ (Diagonal(t) => Diagonal(u))
  BY <1>1, PtrCounts
<1> QED
  BY <1>2 DEF Plain

\* A message is served with tables in which every count matches.
LEMMA Served ==
  ASSUME IInv, Regular, NEW t, Steady(t), Plain(t) => Diagonal(t), Serve(t)
  PROVE  IInv'
<1>1. PICK v : v = fs'
  OBVIOUS
<1>2. fs \in Tables /\ t \in Tables /\ Steady(fs) /\ ~fs.err /\ Diagonal(fs)
  BY DEF IInv, Steady, Good, Tidy
<1>3. Steady(v) /\ ~v.err /\ (Plain(v) => Diagonal(v))
  <2>1. CASE t.panic
    <3> DEFINE u == [fs EXCEPT !.panic = TRUE]
    <3>1. v = u
      BY <1>1, <2>1 DEF Serve
    <3>2. /\ u \in Tables /\ u.inode = fs.inode /\ u.device = fs.device /\ u.proc = fs.proc
          /\ u.opens = fs.opens /\ u.lost = fs.lost /\ u.super = fs.super
          /\ u.file_ptr = fs.file_ptr
      BY <1>2 DEF Tables
    <3>3. ~u.err
      BY <1>2 DEF Tables
    <3> HIDE DEF u
    <3>4. Steady(u) /\ Diagonal(u)
      BY <1>2, <3>2, MarkSteady
    <3> QED
      BY <3>1, <3>3, <3>4
  <2>2. CASE ~t.panic
    <3> DEFINE u == [t EXCEPT !.err = FALSE]
    <3>1. v = u
      BY <1>1, <2>2 DEF Serve
    <3>2. /\ u \in Tables /\ u.inode = t.inode /\ u.device = t.device /\ u.proc = t.proc
          /\ u.opens = t.opens /\ u.lost = t.lost /\ u.super = t.super
          /\ u.file_ptr = t.file_ptr
      BY <1>2 DEF Tables
    <3>3. ~u.err
      BY <1>2 DEF Tables
    <3> HIDE DEF u
    <3>4. Steady(u) /\ (Diagonal(t) => Diagonal(u)) /\ (Plain(u) => Plain(t))
      BY <1>2, <3>2, MarkSteady
    <3> QED
      BY <3>1, <3>3, <3>4
  <2> QED
    BY <2>1, <2>2
<1>4. Regular' => Plain(v)
  BY <1>1 DEF Regular, Plain
<1> QED
  BY <1>1, <1>3, <1>4 DEF IInv

\* Every path that a user gives starts at a directory that has links.
LEMMA UserBegins ==
  ASSUME IInv, Regular, NEW p \in Users, NEW path \in AllPaths
  PROVE  Begins(fs, p, path)
<1>1. p \in Callers /\ p \in Pids /\ fs.proc[p].root # NULL
  BY Constant DEF Users, HasDirs
<1>2. fs \in Tables /\ fs.proc[p].work # NULL
  BY <1>1 DEF IInv, Steady, Dirs, Good, Tidy
<1>3. fs.proc[p].root \in InodePtr /\ fs.proc[p].work \in InodePtr
  BY <1>1, <1>2, TablesFields DEF Procs, InodeOrNull
<1>4. fs.inode[fs.proc[p].root].links > 0 /\ fs.inode[fs.proc[p].work].links > 0
  BY <1>1, <1>2, RegularTables
<1>5. Len(path.comps) \in Nat
  <2>1. CASE path \in Paths
    BY <2>1, FilesAssumption
  <2>2. CASE path = [abs |-> TRUE, comps |-> <<>>, slash |-> FALSE]
    BY <2>2
  <2> QED
    BY <2>1, <2>2 DEF AllPaths
<1> QED
  BY <1>1, <1>3, <1>4, <1>5 DEF Begins, start_dir

\* The calls of a user.
LEMMA UserStep ==
  ASSUME IInv, Regular, ~fs.panic, NEW p \in Users,
         \/ Open(p) \/ Close(p) \/ Dup(p) \/ Dup2(p) \/ Chdir(p) \/ Chroot(p)
         \/ Link(p) \/ Unlink(p) \/ Name(p) \/ Exit(p) \/ Execve(p)
  PROVE  IInv'
<1>1. p \in Pids /\ p # FS_PID /\ fs.proc[p].root # NULL
  BY Constant DEF Users, HasDirs
<1>2. Steady(fs) /\ Diagonal(fs) /\ ~fs.err
  BY DEF IInv
<1>3. Plain(fs) /\ \A i \in InodePtr : fs.lost[i] <= MaxLost
  BY RegularTables
<1>4. Ones(fs)
  <2> SUFFICES ASSUME NEW f \in FilePtr PROVE fs.file_ptr[f].count <= 1
    BY DEF Ones
  <2>1. fs.file_ptr[f].count \in Nat
    BY <1>2, TablesFields DEF Steady, Good, Tidy, FilePtrs, PtrOrNull
  <2> QED
    BY <1>3, <2>1 DEF Plain
<1>5. \A path \in AllPaths : Begins(fs, p, path)
  BY UserBegins
<1>6. Paths \subseteq AllPaths
  BY DEF AllPaths
<1>7. CASE Open(p)
  <2>1. PICK path \in Paths : \E deny \in Denials(path), willing \in BOOLEAN :
          Serve(do_fs_open(fs, p, path, deny, willing))
    BY <1>7 DEF Open
  <2>2. PICK deny \in Denials(path), willing \in BOOLEAN :
          Serve(do_fs_open(fs, p, path, deny, willing))
    BY <2>1
  <2>3. PICK t : t = do_fs_open(fs, p, path, deny, willing)
    OBVIOUS
  <2>4. Steady(t) /\ Diagonal(t)
    BY <1>2, <1>3, <1>5, <1>6, <2>3, OpenSteady
  <2> QED
    BY <2>2, <2>3, <2>4, Served
<1>8. CASE Close(p)
  <2>1. PICK d \in Fildes : Serve(do_fs_close(fs, p, d))
    BY <1>8 DEF Close
  <2>2. PICK t : t = do_fs_close(fs, p, d)
    OBVIOUS
  <2>3. Steady(t) /\ Diagonal(t)
    BY <1>1, <1>2, <1>4, <2>2, CloseSteady
  <2> QED
    BY <2>1, <2>2, <2>3, Served
<1>9. CASE Dup(p)
  <2>1. PICK d \in Fildes : Serve(dupfd(fs, d, 0))
    BY <1>9 DEF Dup
  <2>2. PICK z \in Fildes : z = 0
    BY FilesAssumption DEF Fildes
  <2>3. PICK t : t = dupfd(fs, d, z)
    OBVIOUS
  <2>4. Steady(t) /\ Diagonal(t)
    BY <1>2, <2>3, DupSteady
  <2> QED
    BY <2>1, <2>2, <2>3, <2>4, Served
<1>10. CASE Dup2(p)
  <2>1. PICK d \in Fildes, e \in Fildes : Serve(do_fs_dup2(fs, p, d, e))
    BY <1>10 DEF Dup2
  <2>2. PICK t : t = do_fs_dup2(fs, p, d, e)
    OBVIOUS
  <2>3. Steady(t) /\ Diagonal(t)
    BY <1>1, <1>2, <1>4, <2>2, Dup2Steady
  <2> QED
    BY <2>1, <2>2, <2>3, Served
<1>11. ASSUME NEW dir \in {"root", "work"}, NEW path \in AllPaths, NEW deny,
              Serve(change(fs, p, path, deny, dir))
       PROVE  IInv'
  <2>1. PICK t : t = change(fs, p, path, deny, dir)
    OBVIOUS
  <2>2. Steady(t) /\ Diagonal(t)
    BY <1>1, <1>2, <1>5, <2>1, ChangeSteady
  <2> QED
    BY <1>11, <2>1, <2>2, Served
<1>12. CASE Chdir(p)
  BY <1>11, <1>12 DEF Chdir
<1>13. CASE Chroot(p)
  BY <1>11, <1>13 DEF Chroot
<1>14. CASE Link(p)
  <2>1. PICK path1 \in Paths, path2 \in Paths, su \in BOOLEAN :
          Serve(do_fs_link(fs, p, path1, path2, 0, su))
    BY <1>14 DEF Link
  <2>2. PICK z : z = 0
    OBVIOUS
  <2>3. PICK t : t = do_fs_link(fs, p, path1, path2, z, su)
    OBVIOUS
  <2>4. Steady(t) /\ Diagonal(t)
    BY <1>2, <1>5, <1>6, <2>3, LinkSteady
  <2> QED
    BY <2>1, <2>2, <2>3, <2>4, Served
<1>15. CASE Unlink(p)
  <2>1. PICK path \in AllPaths, su \in BOOLEAN : Serve(do_fs_unlink(fs, p, path, 0, su))
    BY <1>15 DEF Unlink
  <2>2. PICK z : z = 0
    OBVIOUS
  <2>3. PICK t : t = do_fs_unlink(fs, p, path, z, su)
    OBVIOUS
  <2>4. Steady(t) /\ Diagonal(t)
    BY <1>2, <1>5, <2>3, UnlinkSteady
  <2> QED
    BY <2>1, <2>2, <2>3, <2>4, Served
<1>16. CASE Name(p)
  <2>1. PICK path \in AllPaths, changes \in BOOLEAN : Serve(NameCall(fs, p, path, 0, changes))
    BY <1>16 DEF Name
  <2>2. PICK z : z = 0
    OBVIOUS
  <2>3. PICK t : t = NameCall(fs, p, path, z, changes)
    OBVIOUS
  <2>4. Steady(t) /\ Diagonal(t)
    BY <1>2, <1>5, <2>3, NameSteady
  <2> QED
    BY <2>1, <2>2, <2>3, <2>4, Served
<1>17. CASE Exit(p)
  <2>1. PICK t : t = do_fs_exit(fs, p)
    OBVIOUS
  <2>2. Steady(t) /\ Diagonal(t)
    BY <1>1, <1>2, <1>4, <2>1, ExitSteady
  <2> QED
    BY <1>17, <2>1, <2>2, Served DEF Exit
<1>18. CASE Execve(p)
  <2>1. PICK path \in Paths : /\ ~do_fs_open(fs, p, path, 0, FALSE).err
                              /\ Serve(do_fs_execve(fs, p, path))
    BY <1>18 DEF Execve
  <2>2. PICK t : t = do_fs_execve(fs, p, path)
    OBVIOUS
  <2>3. Begins(fs, p, path)
    BY <1>5, <1>6
  <2>4. Steady(t) /\ Diagonal(t)
    BY <1>2, <1>3, <1>4, <2>1, <2>2, <2>3, ExecveSteady
  <2> QED
    BY <2>1, <2>2, <2>4, Served
<1> QED
  BY <1>7, <1>8, <1>9, <1>10, <1>12, <1>13, <1>14, <1>15, <1>16, <1>17, <1>18

\* Every message.
LEMMA Step ==
  ASSUME IInv, FilesNext
  PROVE  IInv'
<1>1. Regular /\ ~fs.panic
  BY DEF FilesNext
<1>2. Steady(fs) /\ Diagonal(fs) /\ Plain(fs)
  BY <1>1, RegularTables DEF IInv
<1>3. CASE \E p \in Users : \/ Open(p) \/ Close(p) \/ Dup(p) \/ Dup2(p) \/ Chdir(p) \/ Chroot(p)
                            \/ Link(p) \/ Unlink(p) \/ Name(p) \/ Exit(p) \/ Execve(p)
  BY <1>1, <1>3, UserStep
<1>4. CASE \E p \in Users \cup {FS_PID} : Fork(p)
  <2>1. PICK p \in Users \cup {FS_PID} : Fork(p)
    BY <1>4
  <2>2. PICK c \in Callers : ~HasDirs(c) /\ Serve(do_fs_fork(fs, p, c))
    BY <2>1 DEF Fork
  <2>3. p \in Pids /\ fs.proc[p].root # NULL /\ c \in Pids /\ fs.proc[c].root = NULL
    BY <1>2, <2>2, Constant DEF Users, HasDirs, Steady, Dirs
  <2>4. PICK t : t = do_fs_fork(fs, p, c)
    OBVIOUS
  <2>5. Steady(t) /\ (Plain(t) => Diagonal(t))
    BY <1>2, <2>3, <2>4, ForkSteady
  <2> QED
    BY <1>1, <2>2, <2>4, <2>5, Served
<1>5. CASE FilesSync
  <2>1. PICK t : t = SyncInodes(fs)
    OBVIOUS
  <2>2. Steady(t) /\ Diagonal(t)
    BY <1>2, <2>1, SyncSteady
  <2> QED
    BY <1>1, <1>5, <2>1, <2>2, Served DEF FilesSync
<1>6. CASE Shutdown
  <2>1. PICK t : t = [inode_put(fs, fs.super) EXCEPT !.super = NULL, !.down = TRUE]
    OBVIOUS
  <2>2. Steady(t) /\ Diagonal(t)
    BY <1>2, <2>1, ShutdownSteady
  <2> QED
    BY <1>1, <1>6, <2>1, <2>2, Served DEF Shutdown
<1> QED
  BY <1>3, <1>4, <1>5, <1>6 DEF FilesNext

\* Nothing changes.
LEMMA Stutter ==
  ASSUME IInv, UNCHANGED fs
  PROVE  IInv'
<1>1. Regular' <=> Regular
  BY DEF Regular
<1> QED
  BY <1>1 DEF IInv


-----------------------------------------------------------------------------
(* The initial tables and the properties. *)

\* mount_root() has got the root directory for its superblock and for the file system's
\* two directories.
LEMMA FilesStarts ==
  ASSUME FilesInit
  PROVE  IInv
<1> DEFINE start == [ino |-> EXT2_ROOT_INO, count |-> 3, dirty |-> FALSE, links |-> 1]
           none  == [d \in Fildes |-> NULL]
<1>1. /\ fs.inode = [i \in InodePtr |-> IF i = 1 THEN start ELSE Unused]
      /\ fs.device = [i \in Inos |-> 1]
      /\ fs.file_ptr = [f \in PtrOrNull |-> [inode |-> NULL, count |-> 0]]
      /\ fs.proc = [p \in Pids |-> IF p = FS_PID THEN [root |-> 1, work |-> 1, descr |-> none]
                                   ELSE [root |-> NULL, work |-> NULL, descr |-> none]]
      /\ fs.opens = 0 /\ fs.lost = [i \in InodePtr |-> 0] /\ fs.super = 1
  BY DEF FilesInit, PtrOrNull
<1>2. fs.err = FALSE /\ fs.panic = FALSE /\ fs.down = FALSE
  BY DEF FilesInit
<1>3. 1 \in InodePtr /\ NULL \in InodeOrNull /\ NULL \in PtrOrNull /\ NULL = 0
  BY Constant DEF InodePtr, InodeOrNull, PtrOrNull, NULL
<1>4. fs \in Tables
  <2>1. start \in Slots /\ Unused \in Slots
    BY Constant DEF Slots, Unused
  <2>2. fs.inode \in [InodePtr -> Slots] /\ fs.device \in [Inos -> Nat]
    BY <1>1, <2>1
  <2>3. fs.file_ptr \in [PtrOrNull -> FilePtrs]
    BY <1>1, <1>3 DEF FilePtrs
  <2>4. none \in [Fildes -> PtrOrNull]
    BY <1>3
  <2>5. fs.proc \in [Pids -> Procs]
    BY <1>1, <1>3, <2>4 DEF Procs, InodeOrNull
  <2>6. fs.opens \in Int /\ fs.lost \in [InodePtr -> Nat] /\ fs.super \in InodeOrNull
    BY <1>1, <1>3 DEF InodeOrNull
  <2>7. fs = [inode |-> fs.inode, device |-> fs.device, file_ptr |-> fs.file_ptr,
              proc |-> fs.proc, err |-> fs.err, panic |-> fs.panic, opens |-> fs.opens,
              lost |-> fs.lost, super |-> fs.super, down |-> fs.down]
    BY DEF FilesInit
  <2> QED
    BY <1>2, <2>2, <2>3, <2>5, <2>6, <2>7 DEF Tables
<1>5. \A i \in InodePtr : fs.inode[i] = IF i = 1 THEN start ELSE Unused
  BY <1>1
<1>6. /\ fs.proc[FS_PID].root = 1 /\ fs.proc[FS_PID].work = 1
      /\ \A p \in Pids : p # FS_PID => fs.proc[p].root = NULL /\ fs.proc[p].work = NULL
      /\ \A p \in Pids, d \in Fildes : fs.proc[p].descr[d] = NULL
      /\ \A f \in PtrOrNull : fs.file_ptr[f].inode = NULL /\ fs.file_ptr[f].count = 0
  BY <1>1, Constant
<1>7. Tidy(fs)
  <2>1. OneSlot(fs) /\ UsedHasIno(fs)
    BY <1>5, Constant DEF OneSlot, UsedHasIno, Unused
  <2>2. DeviceRight(fs)
    BY <1>1, <1>5, Constant DEF DeviceRight, Unused
  <2>3. IdleClean(fs) /\ LostBounded(fs)
    BY <1>1, <1>5, Constant DEF IdleClean, LostBounded, Unused
  <2> QED
    BY <1>4, <2>1, <2>2, <2>3 DEF Tidy
<1>8. Counted(fs, NULL, NULL)
  <2> SUFFICES ASSUME NEW i \in InodePtr
               PROVE  fs.inode[i].count = References(fs, i) + fs.lost[i] + One(i, NULL) + One(i, NULL)
    BY DEF Counted
  <2>1. One(i, NULL) = 0 /\ fs.lost[i] = 0 /\ i # NULL
    BY <1>1, Constant DEF One
  <2>2. /\ References(fs, i) = Cardinality(Roots(fs, i)) + Cardinality(Works(fs, i))
                               + Cardinality(PtrsTo(fs, i)) + One(fs.super, i)
    BY RefsBound
  <2>3. PtrsTo(fs, i) = {} /\ Cardinality(PtrsTo(fs, i)) = 0
    BY <1>6, <2>1, FS_EmptySet DEF PtrsTo
  <2>4. CASE i = 1
    <3>1. Roots(fs, i) = {FS_PID} /\ Works(fs, i) = {FS_PID}
      BY <1>3, <1>6, <2>1, <2>4, Constant DEF Roots, Works
    <3>2. Cardinality({FS_PID}) = 1
      BY FS_Singleton
    <3>3. One(fs.super, i) = 1 /\ fs.inode[i].count = 3
      BY <1>1, <1>5, <2>4 DEF One
    <3> QED
      BY <2>1, <2>2, <2>3, <3>1, <3>2, <3>3
  <2>5. CASE i # 1
    <3>1. Roots(fs, i) = {} /\ Works(fs, i) = {}
      BY <1>3, <1>6, <2>1, <2>5 DEF Roots, Works
    <3>2. Cardinality(Roots(fs, i)) = 0 /\ Cardinality(Works(fs, i)) = 0
      BY <3>1, FS_EmptySet
    <3>3. One(fs.super, i) = 0 /\ fs.inode[i].count = 0
      BY <1>1, <1>5, <2>5 DEF One, Unused
    <3> QED
      BY <2>1, <2>2, <2>3, <3>2, <3>3
  <2> QED
    BY <2>4, <2>5
<1>9. OpensMatch(fs)
  <2>1. DevPtrs(fs) = {}
    BY <1>6 DEF DevPtrs, IsDev, PtrOrNull
  <2>2. DevLost(fs) = {}
    BY <1>1, Constant DEF DevLost
  <2> QED
    BY <1>1, <2>1, <2>2, FS_EmptySet DEF OpensMatch
<1>10. FreePtrs(fs) /\ Diagonal(fs)
  BY <1>6 DEF FreePtrs, Diagonal, PtrOrNull
<1>11. Dirs(fs)
  BY <1>3, <1>6 DEF Dirs
<1> QED
  BY <1>2, <1>7, <1>8, <1>9, <1>10, <1>11 DEF IInv, Steady, Good

\* What the invariant says of fs.
LEMMA Invariants ==
  ASSUME IInv
  PROVE  CountsMatch /\ CleanOnDevice /\ DriverOpens /\ OneSlotPerInode
<1>1. Tidy(fs) /\ fs \in Tables /\ Counted(fs, NULL, NULL) /\ OpensMatch(fs)
  BY DEF IInv, Steady, Good, Tidy
<1>2. CountsMatch
  <2> SUFFICES ASSUME NEW i \in InodePtr
               PROVE  fs.inode[i].count = References(fs, i) + fs.lost[i]
    BY DEF CountsMatch
  <2>1. One(i, NULL) = 0 /\ References(fs, i) \in Nat /\ fs.lost[i] \in Nat
    BY <1>1, Constant, RefsBound, TablesFields DEF One
  <2> QED
    BY <1>1, <2>1 DEF Counted
<1>3. CleanOnDevice
  BY <1>1 DEF CleanOnDevice, Tidy, DeviceRight, IdleClean
<1>4. DriverOpens
  BY <1>1 DEF DriverOpens, OpensMatch
<1>5. OneSlotPerInode
  BY <1>1 DEF OneSlotPerInode, Tidy, OneSlot
<1> QED
  BY <1>2, <1>3, <1>4, <1>5

\* Whatever messages it has served, between two of them the tables are as IInv says:
\* the inductive invariant.
THEOREM FilesInvariant == FilesSpec => []IInv
<1>1. FilesInit => IInv
  BY FilesStarts
<1>2. IInv /\ [FilesNext]_fs => IInv'
  BY Step, Stutter
<1> QED
  BY <1>1, <1>2, PTL DEF FilesSpec

\* An inode's count is that of the pointers to it that the tables hold and of those lost in
\* file_ptr[NULL], whichever calls have failed half-way: of path_to_inode's walk, of link's
\* two walks, of open, exit and fork, none keeps an inode or puts one twice.
THEOREM CountsMatchCorrect == FilesSpec => []CountsMatch
  BY FilesInvariant, Invariants, PTL

\* A clean inode is as on its device, and one that nobody uses is clean, so that inode_get
\* may give its slot to another: inode_put's last put writes whatever a call has changed.
THEOREM CleanOnDeviceCorrect == FilesSpec => []CleanOnDevice
  BY FilesInvariant, Invariants, PTL

\* The opens that a driver has seen less its closes are the file pointers to its device's
\* inodes, the lost ones included: open and close tell the driver of each, in every order.
THEOREM DriverOpensCorrect == FilesSpec => []DriverOpens
  BY FilesInvariant, Invariants, PTL

\* No inode is in two slots: inode_get looks for it in all of them, in use or not.
THEOREM OneSlotPerInodeCorrect == FilesSpec => []OneSlotPerInode
  BY FilesInvariant, Invariants, PTL

-----------------------------------------------------------------------------
(* The data of a file. *)

\* The blocks of block numbers are as mke2fs has left them, and the other blocks have the
\* file's bytes.
Laid(d) ==
  /\ d = [b \in BlockNums |-> d[b]]
  /\ d[1] = Ext2[1]
  /\ \A n \in 0 .. TRIPLE - 1 : DOMAIN d[DataBlock(n)] = Cells

HasBytes(d, at) ==
  \A n \in 0 .. DOUBLE - 1, c \in Cells : d[DataBlock(n)][c] = at[n * BLOCK_SIZE + c]

DataInv ==
  /\ Laid(dev) /\ HasBytes(dev, written.at)
  /\ DOMAIN written.at = 0 .. TRIPLE * BLOCK_SIZE - 1
  /\ descr = [mode |-> descr.mode, offset |-> descr.offset] /\ descr.offset \in Nat
  /\ DataRight

\* The geometry.
LEMMA Geometry ==
  /\ BLOCK_SIZE \in Nat /\ BLOCK_SIZE >= 2 /\ NUM_DIRECT \in Nat /\ NUM_DIRECT >= 2
  /\ NUM_INDIRECT \in Nat /\ NUM_INDIRECT >= 2
  /\ DOUBLE \in Nat /\ DOUBLE = NUM_DIRECT + NUM_INDIRECT
  /\ TRIPLE \in Nat /\ DOUBLE < TRIPLE
<1>1. BLOCK_SIZE \in Nat /\ BLOCK_SIZE >= 2 /\ NUM_DIRECT \in Nat /\ NUM_DIRECT >= 2
      /\ NUM_INDIRECT \in Nat /\ NUM_INDIRECT >= 2
  BY FileDataAssumption
<1>2. NUM_INDIRECT * NUM_INDIRECT \in Nat /\ NUM_INDIRECT * NUM_INDIRECT > 0
  BY <1>1
<1> QED
  BY <1>1, <1>2 DEF DOUBLE, TRIPLE

LEMMA DataBlocks ==
  ASSUME NEW n \in 0 .. TRIPLE - 1
  PROVE  /\ DataBlock(n) \in BlockNums /\ DataBlock(n) >= DataBlock(0) /\ DataBlock(n) > 2
         /\ \A k \in 0 .. TRIPLE - 1 : DataBlock(k) = DataBlock(n) => k = n
  BY Geometry DEF DataBlock, BlockNums

\* A direct or single indirect block is found.
LEMMA FindLower ==
  ASSUME Laid(dev), NEW n \in 0 .. DOUBLE - 1
  PROVE  block_find(n) = DataBlock(n)
<1>1. CASE n < NUM_DIRECT
  BY <1>1, Geometry DEF block_find, i_block
<1>2. CASE n >= NUM_DIRECT
  <2> DEFINE m    == n - NUM_DIRECT
             divs == {1, NUM_INDIRECT, NUM_INDIRECT * NUM_INDIRECT}
             div  == CHOOSE d \in divs : d \in 1 .. m \cup {1} /\ \A e \in divs : e <= m => e <= d
             Go(p) == IF p.found THEN p
                      ELSE [blk |-> dev[p.blk][p.n \div p.div], n |-> p.n % p.div,
                            div |-> p.div \div NUM_INDIRECT, found |-> p.n < NUM_INDIRECT]
             first == [blk |-> 1, n |-> m, div |-> div, found |-> FALSE]
             s[k \in 0 .. 3] == IF k = 0 THEN first ELSE LET p == s[k - 1] IN Go(p)
             f == [k \in 0 .. 3 |-> IF k = 0 THEN first ELSE IF k = 1 THEN Go(first)
                                    ELSE IF k = 2 THEN Go(Go(first)) ELSE Go(Go(Go(first)))]
  <2>1. m \in Nat /\ m < NUM_INDIRECT /\ n = NUM_DIRECT + m
    BY <1>2, Geometry
  <2>2. NUM_INDIRECT * NUM_INDIRECT >= NUM_INDIRECT /\ NUM_INDIRECT * NUM_INDIRECT \in Nat
    BY Geometry
  <2> HIDE DEF m
  <2>3. div = 1
    <3>1. 1 \in divs /\ 1 \in 1 .. m \cup {1} /\ \A e \in divs : e <= m => e <= 1
      BY <2>1, <2>2, Geometry
    <3>2. ASSUME NEW d \in divs, d \in 1 .. m \cup {1} PROVE d = 1
      BY <2>1, <2>2, <3>2, Geometry
    <3> HIDE DEF divs
    <3>3. div \in divs /\ div \in 1 .. m \cup {1}
      BY <3>1
    <3> QED
      BY <3>2, <3>3
  <2> HIDE DEF div, divs
  <2>4. i_block[NUM_DIRECT] = 1
    BY Geometry DEF i_block
  <2>5. block_find(n) = s[3].blk
    <3>1. n < DOUBLE /\ ~(n < NUM_DIRECT)
      BY <1>2, Geometry
    <3> HIDE DEF Go
    <3> QED
      BY <3>1, <2>4 DEF block_find, Down, m, divs, div, Go
  <2> HIDE DEF Go, first
  <2>6. f = [k \in 0 .. 3 |-> IF k = 0 THEN first ELSE Go(f[k - 1])]
    <3>1. \A k \in 0 .. 3 : f[k] = IF k = 0 THEN first ELSE Go(f[k - 1])
      OBVIOUS
    <3> HIDE DEF f
    <3>2. f = [k \in 0 .. 3 |-> f[k]]
      BY DEF f
    <3> QED
      BY <3>1, <3>2
  <2>7. s = [k \in 0 .. 3 |-> IF k = 0 THEN first ELSE Go(s[k - 1])]
    <3> HIDE DEF f
    <3> QED
      BY <2>6 DEF s
  <2> HIDE DEF s, f
  <2>8. s[3] = Go(Go(Go(first)))
    <3>1. s[0] = first /\ s[1] = Go(s[0]) /\ s[2] = Go(s[1]) /\ s[3] = Go(s[2])
      BY <2>7
    <3> QED
      BY <3>1
  <2>9. /\ Go(first).found = TRUE
        /\ Go(first).blk = dev[1][m \div 1]
    BY <2>1, <2>3 DEF Go, first
  <2>10. s[3] = Go(first)
    <3>1. ASSUME NEW p, p.found = TRUE PROVE Go(p) = p
      BY <3>1 DEF Go
    <3> QED
      BY <2>8, <2>9, <3>1
  <2>11. dev[1][m] = DataBlock(NUM_DIRECT + m)
    <3>1. m \in Ptrs /\ 1 \in BlockNums
      BY <2>1, Geometry DEF Ptrs, BlockNums
    <3> QED
      BY <3>1 DEF Laid, Ext2, SINGLE
  <2> QED
    BY <2>1, <2>5, <2>9, <2>10, <2>11
<1> QED
  BY <1>1, <1>2, Geometry

\* The quotient and the remainder.
LEMMA Quotient ==
  ASSUME NEW x \in Nat, NEW b \in Nat, b >= 2
  PROVE  x \div b \in Nat /\ x % b \in 0 .. b - 1 /\ x = (x \div b) * b + (x % b)
  OBVIOUS

\* They are determined.
LEMMA QuotientOf ==
  ASSUME NEW b \in Nat, b >= 2, NEW q \in Nat, NEW r \in 0 .. b - 1
  PROVE  (q * b + r) \div b = q /\ (q * b + r) % b = r
  OBVIOUS

\* Blocks of a number of bytes are apart.
LEMMA BlocksApart ==
  ASSUME NEW b \in Nat, b >= 2, NEW p \in Nat, NEW q \in Nat, NEW r \in 0 .. b - 1, p < q
  PROVE  p * b + r < q * b
<1>1. PICK d \in Nat : q = p + 1 + d
  <2>1. q - p - 1 \in Nat /\ q = p + 1 + (q - p - 1)
    OBVIOUS
  <2> QED
    BY <2>1
<1>2. q * b = p * b + b + d * b
  BY <1>1
<1>3. d * b \in Nat /\ p * b \in Nat
  OBVIOUS
<1> HIDE <1>1
<1> QED
  BY <1>2, <1>3

\* Where the i-th byte of nbyte from off on is, if they are in one block or begin with one.
LEMMA PlaceOf ==
  ASSUME NEW off \in Nat, NEW nbyte \in Nat, NEW i \in 0 .. nbyte - 1,
         off % BLOCK_SIZE = 0 \/ (off % BLOCK_SIZE) + nbyte <= BLOCK_SIZE
  PROVE  LET k == i \div BLOCK_SIZE
             t == Turn(off, nbyte, k)
             c == t.index + i - t.done
         IN /\ c \in Cells /\ t.block \in Nat /\ t.block * BLOCK_SIZE + c = off + i
            /\ t.block <= (off + nbyte - 1) \div BLOCK_SIZE
<1> PICK b \in Nat : b = BLOCK_SIZE /\ b >= 2
  BY Geometry
<1>1. PICK q \in Nat, r \in 0 .. b - 1 : off \div b = q /\ off % b = r /\ off = q * b + r
  <2>1. off \div b \in Nat /\ off % b \in 0 .. b - 1 /\ off = (off \div b) * b + (off % b)
    BY Quotient
  <2> QED
    BY <2>1
<1>2. i \in Nat
  OBVIOUS
<1>3. PICK k \in Nat, e \in 0 .. b - 1 : i \div b = k /\ i % b = e /\ i = k * b + e
  <2>1. i \div b \in Nat /\ i % b \in 0 .. b - 1 /\ i = (i \div b) * b + (i % b)
    BY <1>2, Quotient
  <2> QED
    BY <2>1
<1> DEFINE t == Turn(off, nbyte, k)
           c == t.index + i - t.done
<1>4. t.block = q + k /\ t.index = (IF k = 0 THEN r ELSE 0) /\ t.done = k * b
  BY <1>1, <1>3 DEF Turn
<1> HIDE DEF t
<1>5. k * b \in Nat /\ q * b \in Nat /\ (q + k) * b = q * b + k * b
  OBVIOUS
<1>6. c \in 0 .. b - 1 /\ (q + k) * b + c = off + i
  <2>1. CASE r = 0
    <3>1. t.index = 0
      BY <1>4, <2>1
    <3>2. c = e
      BY <1>3, <1>4, <1>5, <3>1
    <3> QED
      BY <1>1, <1>3, <1>5, <2>1, <3>2
  <2>2. CASE r # 0
    <3>1. r + nbyte <= b /\ i < b
      BY <1>1, <2>2
    <3>2. k = 0
      <4>1. CASE k >= 1
        <5>1. k * b >= b
          BY <4>1
        <5> QED
          BY <1>3, <1>5, <3>1, <5>1
      <4> QED
        BY <4>1
    <3>3. i = e /\ k * b = 0 /\ c = r + e
      BY <1>3, <1>4, <3>2
    <3> QED
      BY <1>1, <1>3, <1>5, <3>1, <3>3
  <2> QED
    BY <2>1, <2>2
<1> HIDE DEF c
<1>7. q + k <= (off + nbyte - 1) \div b
  <2>1. PICK g \in Nat, h \in 0 .. b - 1 :
          (off + nbyte - 1) \div b = g /\ off + nbyte - 1 = g * b + h
    <3>1. off + nbyte - 1 \in Nat
      OBVIOUS
    <3> QED
      BY <3>1, Quotient
  <2>2. CASE g < q + k
    <3>1. g * b + h < (q + k) * b
      BY <2>2, BlocksApart
    <3>2. (q + k) * b <= off + i
      BY <1>5, <1>6
    <3>3. off + i <= off + nbyte - 1
      OBVIOUS
    <3>4. (q + k) * b \in Nat /\ g * b \in Nat
      OBVIOUS
    <3> QED
      BY <2>1, <3>1, <3>2, <3>3, <3>4
  <2> QED
    BY <2>1, <2>2
<1> QED
  BY <1>3, <1>4, <1>6, <1>7 DEF c, t, Cells

LEMMA ReadRight ==
  ASSUME DataInv, NEW off \in Nat, NEW nbyte \in Nat, nbyte >= 1,
         off % BLOCK_SIZE = 0 \/ (off % BLOCK_SIZE) + nbyte <= BLOCK_SIZE,
         (off + nbyte - 1) \div BLOCK_SIZE < DOUBLE,
         NEW i \in 0 .. nbyte - 1
  PROVE  Read(off, nbyte)[i] = written.at[off + i]
<1> PICK t : t = Turn(off, nbyte, i \div BLOCK_SIZE)
  OBVIOUS
<1> DEFINE c == t.index + i - t.done
<1>1. /\ c \in Cells /\ t.block \in Nat /\ t.block * BLOCK_SIZE + c = off + i
      /\ t.block <= (off + nbyte - 1) \div BLOCK_SIZE
  BY PlaceOf
<1>2. Read(off, nbyte)[i] = ByteAt(dev[block_find(t.block)], c)
  BY DEF Read
<1> HIDE DEF c
<1>3. t.block \in 0 .. DOUBLE - 1
  <2>1. (off + nbyte - 1) \div BLOCK_SIZE \in Nat
    <3>1. off + nbyte - 1 \in Nat
      OBVIOUS
    <3> QED
      BY <3>1, Geometry, Quotient
  <2> QED
    BY <1>1, <2>1, Geometry
<1>4. block_find(t.block) = DataBlock(t.block) /\ t.block \in 0 .. TRIPLE - 1
  BY <1>3, FindLower, Geometry DEF DataInv
<1>5. ByteAt(dev[DataBlock(t.block)], c) = dev[DataBlock(t.block)][c]
  BY <1>1, <1>4 DEF ByteAt, DataInv, Laid
<1>6. dev[DataBlock(t.block)][c] = written.at[t.block * BLOCK_SIZE + c]
  BY <1>1, <1>3 DEF DataInv, HasBytes
<1> QED
  BY <1>1, <1>2, <1>4, <1>5, <1>6

LEMMA SeekStep ==
  ASSUME DataInv, NEW off \in Offsets, do_fs_lseek(off)
  PROVE  DataInv'
<1>1. dev' = dev /\ written' = written /\ last'.op = "lseek"
  BY DEF do_fs_lseek
<1>2. descr' = [mode |-> descr.mode, offset |-> off]
  BY DEF do_fs_lseek, DataInv
<1>3. off \in Nat
  BY Geometry DEF Offsets
<1>4. DataRight'
  BY <1>1 DEF DataRight
<1> QED
  BY <1>1, <1>2, <1>3, <1>4 DEF DataInv

LEMMA ReadStep ==
  ASSUME DataInv, NEW nbyte \in 1 .. 2 * BLOCK_SIZE + 1, do_fs_read(nbyte)
  PROVE  DataInv'
<1>1. dev' = dev /\ written' = written
  BY DEF do_fs_read
<1>2. nbyte \in Nat /\ nbyte >= 1 /\ descr.offset \in Nat
  BY Geometry DEF DataInv
<1>3. descr' = [mode |-> descr'.mode, offset |-> descr'.offset] /\ descr'.offset \in Nat
  <2>1. CASE Permitted
    <3>1. descr' = [mode |-> descr.mode, offset |-> descr.offset + nbyte]
      BY <2>1 DEF do_fs_read, DataInv
    <3> QED
      BY <1>2, <3>1
  <2>2. CASE ~Permitted
    BY <2>2 DEF do_fs_read, DataInv
  <2> QED
    BY <2>1, <2>2
<1>4. DataRight'
  <2>1. CASE Permitted
    <3>1. last'.op = "read" /\ last'.offset = descr.offset /\ last'.buf = Read(descr.offset, nbyte)
      BY <2>1 DEF do_fs_read
    <3>2. DOMAIN Read(descr.offset, nbyte) = 0 .. nbyte - 1
      BY DEF Read
    <3>3. Cardinality(DOMAIN last'.buf) = nbyte
      BY <1>2, <3>1, <3>2, FromZero
    <3>4. SUFFICES ASSUME descr.offset % BLOCK_SIZE = 0 \/ (descr.offset % BLOCK_SIZE) + nbyte <= BLOCK_SIZE,
                          (descr.offset + nbyte - 1) \div BLOCK_SIZE < DOUBLE,
                          NEW i \in 0 .. nbyte - 1
                   PROVE  Read(descr.offset, nbyte)[i] = written.at[descr.offset + i]
      BY <1>1, <3>1, <3>3 DEF DataRight
    <3> QED
      BY <1>2, <3>4, ReadRight
  <2>2. CASE ~Permitted
    <3>1. last'.op = "EPERM"
      BY <2>2 DEF do_fs_read
    <3> QED
      BY <3>1 DEF DataRight
  <2> QED
    BY <2>1, <2>2
<1> QED
  BY <1>1, <1>3, <1>4 DEF DataInv

LEMMA WriteStep ==
  ASSUME DataInv, NEW n \in 1 .. BLOCK_SIZE, NEW buf \in [1 .. n -> DataBytes], do_fs_write(buf)
  PROVE  DataInv'
<1>1. CASE Permitted
  <2> PICK b \in Nat : b = BLOCK_SIZE /\ b >= 2
    BY Geometry
  <2>1. n \in 1 .. b /\ Len(buf) = n
    BY Geometry
  <2>2. PICK off \in Nat : off = descr.offset
    BY DEF DataInv
  <2>3. /\ Placed(off, n)
        /\ dev' = Written(off, buf)
        /\ descr' = [descr EXCEPT !.offset = @ + n]
        /\ written' = [count |-> written.count + 1,
                       at |-> [i \in DOMAIN written.at |->
                                 IF i \in off .. off + n - 1 THEN buf[i - off + 1] ELSE written.at[i]]]
        /\ last'.op = "write"
    BY <1>1, <2>1, <2>2 DEF do_fs_write
  <2>4. PICK q \in Nat : off = q * b /\ off \div b = q /\ q \in 0 .. DOUBLE - 1
    <3>1. off \div b \in Nat /\ off % b = 0 /\ off = (off \div b) * b + (off % b)
      BY <2>2, <2>3, Quotient DEF Placed
    <3>2. (off \div b) * b \in Nat
      BY <3>1
    <3>3. off \div b < DOUBLE /\ off = (off \div b) * b
      BY <2>3, <3>1, <3>2 DEF Placed
    <3> QED
      BY <3>1, <3>3, Geometry
  <2>5. Passes(n) = {0}
    <3>1. (n - 1) \div b = 0
      BY <2>1
    <3>2. 0 .. 0 = {0}
      OBVIOUS
    <3> QED
      BY <3>1, <3>2 DEF Passes
  <2>6. Turn(off, n, 0) = [block |-> q, index |-> 0, done |-> 0, size |-> n]
    <3>1. off % b = 0
      BY <2>3 DEF Placed
    <3>2. 0 * b = 0 /\ q + 0 = q
      OBVIOUS
    <3>3. n < b \/ n = b
      BY <2>1
    <3>4. n - 0 = n
      BY <2>1
    <3> QED
      BY <2>4, <3>1, <3>2, <3>3, <3>4 DEF Turn
  <2>7. block_find(q) = DataBlock(q) /\ q \in 0 .. TRIPLE - 1
    BY <2>4, FindLower, Geometry DEF DataInv
  <2>8. dev' = [x \in BlockNums |->
                 IF x = DataBlock(q)
                 THEN [c \in Cells |-> IF c \in 0 .. n - 1 THEN buf[c + 1] ELSE dev[x][c]]
                 ELSE dev[x]]
    <3>1. DOMAIN dev = BlockNums /\ DOMAIN dev[DataBlock(q)] = Cells
      BY <2>7 DEF DataInv, Laid
    <3> DEFINE K(x) == {k \in Passes(n) : block_find(Turn(off, n, k).block) = x}
               T(x) == Turn(off, n, CHOOSE k \in K(x) : TRUE)
               New(x) == IF K(x) = {} THEN dev[x]
                         ELSE [c \in DOMAIN dev[x] |->
                                 IF c \in T(x).done .. T(x).done + T(x).size - 1
                                 THEN ByteAt(buf, T(x).index + c - T(x).done + 1) ELSE dev[x][c]]
    <3>2. Written(off, buf) = [x \in BlockNums |-> New(x)]
      BY <2>1, <3>1 DEF Written
    <3>3. ASSUME NEW x, x # DataBlock(q) PROVE New(x) = dev[x]
      <4>1. K(x) = {}
        BY <2>5, <2>6, <2>7, <3>3
      <4> HIDE DEF K
      <4> QED
        BY <4>1
    <3>4. New(DataBlock(q)) = [c \in Cells |-> IF c \in 0 .. n - 1 THEN buf[c + 1]
                                               ELSE dev[DataBlock(q)][c]]
      <4>1. K(DataBlock(q)) = {0}
        BY <2>5, <2>6, <2>7
      <4> HIDE DEF K
      <4>2. T(DataBlock(q)) = [block |-> q, index |-> 0, done |-> 0, size |-> n]
        BY <2>6, <4>1
      <4> HIDE DEF T
      <4>3. K(DataBlock(q)) # {}
        BY <4>1
      <4>4. New(DataBlock(q)) =
              [c \in Cells |-> IF c \in 0 .. 0 + n - 1 THEN ByteAt(buf, 0 + c - 0 + 1)
                               ELSE dev[DataBlock(q)][c]]
        BY <3>1, <4>2, <4>3
      <4>5. ASSUME NEW c \in Cells, c \in 0 .. n - 1 PROVE ByteAt(buf, 0 + c - 0 + 1) = buf[c + 1]
        <5>1. 0 + c - 0 + 1 = c + 1 /\ c + 1 \in 1 .. n
          BY <2>1, <4>5
        <5> QED
          BY <5>1 DEF ByteAt
      <4>6. 0 + n - 1 = n - 1
        BY <2>1
      <4> HIDE DEF New
      <4> QED
        BY <4>4, <4>5, <4>6
    <3> HIDE DEF New
    <3> QED
      BY <2>3, <3>2, <3>3, <3>4
  <2>9. Laid(dev')
    <3>1. DataBlock(q) # 1 /\ 1 \in BlockNums
      BY <2>7, DataBlocks, Geometry DEF BlockNums
    <3>2. dev'[1] = Ext2[1]
      BY <2>8, <3>1 DEF DataInv, Laid
    <3>3. ASSUME NEW m \in 0 .. TRIPLE - 1 PROVE DOMAIN dev'[DataBlock(m)] = Cells
      <4>1. DataBlock(m) \in BlockNums
        BY DataBlocks
      <4> QED
        BY <2>8, <4>1 DEF DataInv, Laid
    <3>4. dev' = [x \in BlockNums |-> dev'[x]]
      BY <2>8
    <3> QED
      BY <3>2, <3>3, <3>4 DEF Laid
  <2>10. HasBytes(dev', written'.at)
    <3>1. SUFFICES ASSUME NEW m \in 0 .. DOUBLE - 1, NEW c \in Cells
                   PROVE  dev'[DataBlock(m)][c] = written'.at[m * b + c]
      BY DEF HasBytes
    <3>2. m \in 0 .. TRIPLE - 1 /\ m \in Nat /\ c \in 0 .. b - 1
      BY Geometry DEF Cells
    <3>3. DataBlock(m) \in BlockNums /\ (DataBlock(m) = DataBlock(q) => m = q)
      BY <2>7, <3>2, DataBlocks
    <3>4. m * b + c \in DOMAIN written.at
      <4>1. m * b + c < TRIPLE * b
        BY <3>2, BlocksApart, Geometry
      <4>2. m * b \in Nat /\ TRIPLE * b \in Nat
        BY <3>2, Geometry
      <4> HIDE DEF DOUBLE, TRIPLE
      <4> QED
        BY <3>2, <4>1, <4>2 DEF DataInv
    <3>5. dev[DataBlock(m)][c] = written.at[m * b + c]
      BY DEF DataInv, HasBytes
    <3>6. written'.at[m * b + c] = IF m * b + c \in off .. off + n - 1
                                   THEN buf[m * b + c - off + 1] ELSE written.at[m * b + c]
      <4>1. PICK j \in Nat : j = m * b + c
        <5>1. m * b + c \in Nat
          BY <3>2
        <5> QED
          BY <5>1
      <4>2. written'.at[j] = IF j \in off .. off + n - 1 THEN buf[j - off + 1] ELSE written.at[j]
        BY <2>3, <3>4, <4>1
      <4> QED
        BY <3>2, <4>1, <4>2
    <3>7. CASE m = q
      <4>1. q * b \in Nat
        OBVIOUS
      <4>2. m * b + c \in off .. off + n - 1 <=> c \in 0 .. n - 1
        BY <2>1, <2>4, <3>2, <3>7, <4>1
      <4>3. m * b + c - off + 1 = c + 1
        BY <2>4, <3>2, <3>7, <4>1
      <4>4. dev'[DataBlock(m)][c] = IF c \in 0 .. n - 1 THEN buf[c + 1] ELSE dev[DataBlock(m)][c]
        BY <2>8, <3>3, <3>7
      <4> QED
        BY <3>5, <3>6, <4>2, <4>3, <4>4
    <3>8. CASE m # q
      <4>1. m * b + c \notin off .. off + n - 1
        <5>1. m * b \in Nat /\ q * b \in Nat
          BY <3>2
        <5>2. CASE m < q
          <6>1. m * b + c < q * b
            BY <3>2, <5>2, BlocksApart
          <6> QED
            BY <2>1, <2>4, <3>2, <5>1, <6>1
        <5>3. CASE q < m
          <6>1. PICK e \in 0 .. b - 1 : e = n - 1
            BY <2>1
          <6>2. q * b + e < m * b
            BY <3>2, <5>3, BlocksApart
          <6> QED
            BY <2>1, <2>4, <3>2, <5>1, <6>1, <6>2
        <5> QED
          BY <3>2, <3>8, <5>2, <5>3
      <4>2. dev'[DataBlock(m)] = dev[DataBlock(m)]
        BY <2>8, <3>3, <3>8
      <4> QED
        BY <3>5, <3>6, <4>1, <4>2
    <3> QED
      BY <3>7, <3>8
  <2>11. DOMAIN written'.at = 0 .. TRIPLE * BLOCK_SIZE - 1
    BY <2>3 DEF DataInv
  <2>12. descr' = [mode |-> descr.mode, offset |-> off + n]
    BY <2>2, <2>3 DEF DataInv
  <2>13. DataRight'
    BY <2>3 DEF DataRight
  <2>14. off + n \in Nat
    BY <2>1
  <2> QED
    BY <2>9, <2>10, <2>11, <2>12, <2>13, <2>14 DEF DataInv
<1>2. CASE ~Permitted
  <2>1. dev' = dev /\ descr' = descr /\ written' = written /\ last'.op = "EPERM"
    BY <1>2 DEF do_fs_write
  <2>2. DataRight'
    BY <2>1 DEF DataRight
  <2> QED
    BY <2>1, <2>2 DEF DataInv
<1> QED
  BY <1>1, <1>2

LEMMA DataInitial == DataInit => DataInv
<1> SUFFICES ASSUME DataInit PROVE DataInv
  OBVIOUS
<1>1. dev = Ext2 /\ last.op = "open"
      /\ written = [count |-> 0, at |-> [i \in 0 .. TRIPLE * BLOCK_SIZE - 1 |-> 0]]
      /\ \E mode \in {0, O_RDONLY} : descr = [mode |-> mode, offset |-> 0]
  BY DEF DataInit
<1>2. DataRight
  BY <1>1 DEF DataRight
<1>3. ASSUME NEW n \in 0 .. TRIPLE - 1 PROVE dev[DataBlock(n)] = [c \in Cells |-> 0]
  <2>1. DataBlock(n) \in BlockNums /\ DataBlock(n) >= DataBlock(0) /\ DataBlock(n) > 2
        /\ DataBlock(n) # 1 /\ DataBlock(n) # 2
    BY DataBlocks, Geometry DEF DataBlock
  <2> QED
    BY <1>1, <2>1 DEF Ext2
<1>4. Ext2 = [b \in BlockNums |-> Ext2[b]]
  BY DEF Ext2
<1>5. Laid(dev)
  BY <1>1, <1>3, <1>4 DEF Laid
<1>6. HasBytes(dev, written.at)
  <2>1. SUFFICES ASSUME NEW n \in 0 .. DOUBLE - 1, NEW c \in Cells
                 PROVE  dev[DataBlock(n)][c] = written.at[n * BLOCK_SIZE + c]
    BY DEF HasBytes
  <2> PICK b \in Nat : b = BLOCK_SIZE /\ b >= 2
    BY Geometry
  <2>2. n \in Nat /\ n \in 0 .. TRIPLE - 1 /\ c \in 0 .. b - 1
    BY Geometry DEF Cells
  <2>3. n * b + c < TRIPLE * b
    BY <2>2, BlocksApart, Geometry
  <2>4. n * b \in Nat /\ TRIPLE * b \in Nat
    BY <2>2, Geometry
  <2>5. n * b + c \in 0 .. TRIPLE * b - 1
    BY <2>2, <2>3, <2>4
  <2> QED
    BY <1>1, <1>3, <2>2, <2>5
<1>7. descr = [mode |-> descr.mode, offset |-> descr.offset] /\ descr.offset \in Nat
  BY <1>1
<1> QED
  BY <1>1, <1>2, <1>5, <1>6, <1>7 DEF DataInv

\* What a read returns is what has last been written at its offset (block_find() and
\* rw_fildes()), for any geometry of the blocks and any bytes.
THEOREM DataRightCorrect == DataSpec => []DataRight
<1>1. DataInv /\ [DataNext]_dataVars => DataInv'
  <2> SUFFICES ASSUME DataInv, [DataNext]_dataVars PROVE DataInv'
    OBVIOUS
  <2>1. CASE UNCHANGED dataVars
    BY <2>1 DEF dataVars, DataInv, Laid, HasBytes, DataRight
  <2>2. ASSUME NEW off \in Offsets, do_fs_lseek(off) PROVE DataInv'
    BY <2>2, SeekStep
  <2>3. ASSUME NEW nbyte \in 1 .. 2 * BLOCK_SIZE + 1, do_fs_read(nbyte) PROVE DataInv'
    BY <2>3, ReadStep
  <2>4. ASSUME NEW n \in 1 .. BLOCK_SIZE, NEW buf \in [1 .. n -> DataBytes], do_fs_write(buf)
        PROVE DataInv'
    BY <2>4, WriteStep
  <2> QED
    BY <2>1, <2>2, <2>3, <2>4 DEF DataNext
<1>2. DataInv => DataRight
  BY DEF DataInv
<1> QED
  BY <1>1, <1>2, DataInitial, PTL DEF DataSpec
=============================================================================
