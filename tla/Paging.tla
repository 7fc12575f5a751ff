------------------------------- MODULE Paging -------------------------------
(***************************************************************************)
(* Physical pages and address spaces (src/kernel/paging.c, task.c,         *)
(* stack.c, and the page faults of malloc.c): the two linked lists of free *)
(* and used pages, page directories and tables in the pages themselves,    *)
(* and the kernel's calls on them.                                         *)
(*                                                                         *)
(* A linear address is a page number, pde * PTES + pte.  The directory's   *)
(* quarters are, in this order, kernel heap (after the system's pages),    *)
(* kernel stack, user heap and user stack.  The temporary mappings through *)
(* which the code reaches a directory or table are left out: a directory   *)
(* is addressed by its page.                                               *)
(***************************************************************************)
EXTENDS Integers, FiniteSets, FiniteSetsExt

CONSTANTS
  num_pgs,   \* pages of memory
  sys_pgs,   \* the first of them, the system's
  PTES,      \* entries of a page table: 1024
  QUARTER,   \* directory entries of each region: 256
  IDLE_PID, FS_PID,
  Tasks,     \* the processes
  MaxGrow,   \* bound: pages of a stack, and of the kernel heap
  MaxSteps   \* bound: calls (they can shuffle the free pages without end)

\* The idle process takes five pages after the system's.  A stack stays in its region, and
\* so does the kernel heap, of which pg_next_addr() uses two pages of every table but the
\* first.
ASSUME PagingAssumption ==
  /\ PTES \in Nat /\ sys_pgs \in 2 .. PTES - 1   \* one table maps them, and pte > 1 follows
  /\ num_pgs \in Nat /\ num_pgs >= sys_pgs + 5
  /\ QUARTER \in Nat \ {0} /\ MaxGrow \in Nat \ {0} /\ MaxSteps \in Nat
  /\ MaxGrow <= QUARTER * PTES /\ sys_pgs + MaxGrow <= PTES - 2 + 2 * QUARTER
  /\ {IDLE_PID, FS_PID} \subseteq Tasks /\ IDLE_PID # FS_PID

NULL    == -1
Frames  == 0 .. num_pgs - 1
Pdes    == 0 .. 4 * QUARTER - 1
Ptes    == 0 .. PTES - 1
Entries == Pdes \cup Ptes

VARIABLES mm, steps
\* mm.free, mm.used, mm.next, mm.prev: the page lists
\* mm.mem[f]    what a page holds, when it is a directory or a table: the page that each
\*              entry with the p bit points to
\* mm.cr3[p]    a process's directory
\* mm.spoiled   history: a fork or an exec has been done

\* pg_dir_new(), pg_tbl_new()
Blank == [e \in Entries |-> NULL]

-----------------------------------------------------------------------------
(* The page lists. *)

\* pg_pop(): the page is the first used one afterwards.
pg_pop(t) ==
  LET f == t.free
      n == t.next[f]
  IN [t EXCEPT !.free = n, !.used = f,
               !.next = [@ EXCEPT ![f] = t.used],
               !.prev = [g \in Frames |-> IF g = n THEN NULL
                                          ELSE IF g = t.used THEN f ELSE @[g]]]

pg_push_keeps_prev(t, f) ==
  LET p == t.prev[f]
      n == t.next[f]
  IN [t EXCEPT !.used = IF p = NULL THEN n ELSE @, !.free = f,
               !.next = [g \in Frames |-> IF g = f THEN t.free ELSE IF g = p THEN n ELSE @[g]],
               !.prev = [g \in Frames |-> IF g = f THEN NULL ELSE IF g = t.free THEN f ELSE @[g]]]

\* pg_push()
pg_push(t, f) ==
  LET p == t.prev[f]
      n == t.next[f]
  IN [t EXCEPT !.used = IF p = NULL THEN n ELSE @, !.free = f,
               !.next = [g \in Frames |-> IF g = f THEN t.free ELSE IF g = p THEN n ELSE @[g]],
               !.prev = [g \in Frames |-> IF g = f THEN NULL ELSE IF g = t.free THEN f
                                          ELSE IF g = n THEN p ELSE @[g]]]

\* A list, from its first page.
Listed(t, head) ==
  LET n == [f \in Frames \cup {NULL} |-> IF f = NULL THEN NULL ELSE t.next[f]]
      l[k \in 0 .. num_pgs] == IF k = 0 THEN head ELSE n[l[k - 1]]
  IN {l[k] : k \in 0 .. num_pgs} \ {NULL}

-----------------------------------------------------------------------------
(* Address spaces. *)

Table(t, dir, lin)   == t.mem[dir][lin \div PTES]
pg_mapped(t, dir, lin) == Table(t, dir, lin) # NULL /\ t.mem[Table(t, dir, lin)][lin % PTES] # NULL
Target(t, dir, lin)  == t.mem[Table(t, dir, lin)][lin % PTES]
Pages(pdes)          == {d * PTES + e : d \in pdes, e \in Ptes}
Mapped(t, dir, pdes) == {lin \in Pages(pdes) : pg_mapped(t, dir, lin)}

pg_map(t, dir, f, lin) ==
  LET d == lin \div PTES
      p == pg_pop(t)
      w == IF t.mem[dir][d] # NULL THEN t
           ELSE [p EXCEPT !.mem = [@ EXCEPT ![dir][d] = p.used, ![p.used] = Blank]]
  IN [w EXCEPT !.mem[w.mem[dir][d]][lin % PTES] = f]

\* pg_unmap() releases a table whose last page it unmaps.
pg_unmap(t, dir, lin) ==
  LET tbl == Table(t, dir, lin)
      w   == [t EXCEPT !.mem[tbl][lin % PTES] = NULL]
  IN IF \E e \in Ptes : w.mem[tbl][e] # NULL THEN w
     ELSE [pg_push(w, tbl) EXCEPT !.mem[dir][lin \div PTES] = NULL]

\* The step of pg_next_addr(): "pte == heap ? 1023 : 0" compares pte with heap, so that
\* a heap goes on in the next table after entry 1, not after the last; pte has ten bits.
NextLin(lin, heap) ==
  LET d == lin \div PTES
      e == lin % PTES
  IN IF e = (IF heap THEN 1 ELSE 0)
     THEN IF heap THEN (d + 1) * PTES ELSE (d - 1) * PTES + PTES - 1
     ELSE (d * PTES) + ((IF heap THEN e + 1 ELSE e - 1) % PTES)

\* pg_next_addr(): the first unmapped page from start on.
pg_next_addr(mapped, start, heap) ==
  LET l[k \in 0 .. Cardinality(mapped)] ==
        IF k = 0 THEN start
        ELSE LET lin == l[k - 1] IN IF lin \in mapped THEN NextLin(lin, heap) ELSE lin
  IN l[Cardinality(mapped)]

\* pg_alloc(), heap and stack
pg_alloc(t, dir, start, heap) ==
  LET p == pg_pop(t)
  IN pg_map(p, dir, p.used, pg_next_addr(Mapped(t, dir, Pdes), start, heap))

KernelHeap  == sys_pgs
KernelStack == 2 * QUARTER * PTES - 1
UserHeap    == 2 * QUARTER * PTES
UserStack   == 4 * QUARTER * PTES - 1

\* pg_space_create(): the directory is the result's cr3[pid].
pg_space_create(t, pid) ==
  LET p == pg_pop(t)
      m[j \in 0 .. sys_pgs] ==
        IF j = 0 THEN [p EXCEPT !.mem[p.used] = Blank, !.cr3[pid] = p.used]
        ELSE pg_map(m[j - 1], p.used, j - 1, j - 1)
  IN m[sys_pgs]

\* task_create(): the space, its kernel stack, user heap and user stack.
task_create(t, pid) ==
  LET s == pg_space_create(t, pid)
      k == pg_alloc(s, s.cr3[pid], KernelStack, FALSE)
      h == pg_alloc(k, s.cr3[pid], UserHeap, TRUE)
  IN pg_alloc(h, s.cr3[pid], UserStack, FALSE)

\* pg_push of the pages that the entries in D point to.
PushAll(t, tbl, D) ==
  LET p[k \in 0 .. 4 * QUARTER + PTES] ==
        IF k = 0 THEN t
        ELSE IF k - 1 \in D /\ t.mem[tbl][k - 1] # NULL THEN pg_push(p[k - 1], t.mem[tbl][k - 1])
        ELSE p[k - 1]
  IN p[4 * QUARTER + PTES]

\* Push the pages and the tables of the directory entries in D, in order; dir keeps
\* its entries.
PushTables(t, dir, D) ==
  LET p[d \in 0 .. 4 * QUARTER] ==
        IF d = 0 THEN t
        ELSE IF d - 1 \in D /\ t.mem[dir][d - 1] # NULL
        THEN pg_push(PushAll(p[d - 1], t.mem[dir][d - 1], Ptes), t.mem[dir][d - 1])
        ELSE p[d - 1]
  IN p[4 * QUARTER]

Private == QUARTER .. 4 * QUARTER - 1

pg_space_destroy_all(t, dir) == pg_push(PushTables(t, dir, Pdes), dir)

\* pg_space_destroy(): of the kernel heap's quarter only the tables.
pg_space_destroy(t, dir) ==
  pg_push(PushTables(PushAll(t, dir, Pdes \ Private), dir, Private), dir)

\* The loop of pg_fork(), over dir1's private addresses in order: a copy of each mapped
\* page, mapped in dir.
CopyPages(t, dir1, dir) ==
  LET c[k \in 0 .. 3 * QUARTER * PTES] ==
        IF k = 0 THEN t
        ELSE LET lin == QUARTER * PTES + k - 1
                 p   == pg_pop(c[k - 1])
                 f   == Target(p, dir1, lin)
             IN IF pg_mapped(c[k - 1], dir1, lin)
                THEN pg_map([p EXCEPT !.mem[p.used] = p.mem[f]], dir, p.used, lin)
                ELSE c[k - 1]
  IN c[3 * QUARTER * PTES]

pg_fork_maps_parent(t, dir1, dir2) == CopyPages(PushTables(t, dir2, Private), dir1, dir1)

\* pg_fork(): the child's pages and tables are released, but its directory still has
\* the tables, through which the copies are then mapped.
pg_fork(t, dir1, dir2) == CopyPages(PushTables(t, dir2, Private), dir1, dir2)

\* pg_exec(): the file system's user heap becomes the process's, through tables just
\* released as in pg_fork(); the file system gets a new one.
pg_exec(t, dir1, dir2) ==
  LET m[k \in 0 .. QUARTER * PTES] ==
        IF k = 0 THEN PushTables(t, dir2, 2 * QUARTER .. 3 * QUARTER - 1)
        ELSE LET s   == m[k - 1]
                 lin == 2 * QUARTER * PTES + k - 1
             IN IF pg_mapped(s, dir1, lin)
                THEN pg_unmap(pg_map(s, dir2, Target(s, dir1, lin), lin), dir1, lin)
                ELSE s
  IN pg_alloc(m[QUARTER * PTES], dir1, UserHeap, TRUE)

-----------------------------------------------------------------------------
(* The kernel's calls.  pg_pop panics when there is no page: the guards.      *)

Exists(p)  == mm.cr3[p] # NULL
Enough(n)  == Cardinality(Listed(mm, mm.free)) >= n
Grown(p, pdes) == Cardinality(Mapped(mm, mm.cr3[p], pdes))

\* Pages that task_create() takes: the directory, the system's table, and a table and
\* a page for each of three regions.
TaskPages == 8

\* paging_init() and task_init()
PagingInit ==
  LET lists == [free |-> 0, used |-> NULL,
                next |-> [f \in Frames |-> IF f = num_pgs - 1 THEN NULL ELSE f + 1],
                prev |-> [f \in Frames |-> IF f = 0 THEN NULL ELSE f - 1],
                mem  |-> [f \in Frames |-> Blank],
                cr3  |-> [p \in Tasks |-> NULL],
                spoiled |-> FALSE]
      s[j \in 0 .. sys_pgs] == IF j = 0 THEN lists ELSE pg_pop(s[j - 1])
      i == pg_space_create(s[sys_pgs], IDLE_PID)
      k == pg_alloc(i, i.cr3[IDLE_PID], KernelHeap, TRUE)
  IN mm = pg_alloc(k, i.cr3[IDLE_PID], UserHeap, TRUE) /\ steps = 0

Create(p) ==
  /\ ~Exists(p) /\ Enough(TaskPages)
  /\ mm' = task_create(mm, p)

\* task_destroy(), for proc_exit()
Destroy(p) ==
  /\ Exists(p) /\ p # IDLE_PID
  /\ mm' = [pg_space_destroy(mm, mm.cr3[p]) EXCEPT !.cr3[p] = NULL]

\* stack_pg_fault(): the page below the stack's last one.
stack_pg_fault(p, kernel) ==
  LET D == IF kernel THEN QUARTER .. 2 * QUARTER - 1 ELSE 3 * QUARTER .. 4 * QUARTER - 1 IN
  /\ Exists(p) /\ p # IDLE_PID /\ Enough(2)
  /\ Grown(p, D) < MaxGrow
  /\ mm' = pg_alloc(mm, mm.cr3[p], IF kernel THEN KernelStack ELSE UserStack, FALSE)

\* common_sbrk(): a page of the kernel heap, in the reference directory, IDLE_PID's.
ksbrk ==
  /\ Enough(2)
  /\ Grown(IDLE_PID, Pdes \ Private) < sys_pgs + MaxGrow
  /\ mm' = pg_alloc(mm, mm.cr3[IDLE_PID], KernelHeap, TRUE)

heap_pg_fault_new_page(p, lin) ==
  /\ Exists(p) /\ Enough(2)
  /\ pg_mapped(mm, mm.cr3[IDLE_PID], lin) /\ ~pg_mapped(mm, mm.cr3[p], lin)
  /\ LET f == pg_pop(mm) IN mm' = pg_map(f, f.cr3[p], f.used, lin)

\* heap_pg_fault(): a page of the kernel heap that the reference directory has.
heap_pg_fault(p, lin) ==
  /\ Exists(p) /\ Enough(1)
  /\ pg_mapped(mm, mm.cr3[IDLE_PID], lin) /\ ~pg_mapped(mm, mm.cr3[p], lin)
  /\ mm' = pg_map(mm, mm.cr3[p], Target(mm, mm.cr3[IDLE_PID], lin), lin)

\* proc_fork(): task_create() and task_fork().
Fork(p, c) ==
  /\ Exists(p) /\ ~Exists(c) /\ p # IDLE_PID
  /\ Enough(TaskPages + 2 * Cardinality(Mapped(mm, mm.cr3[p], Private)))
  /\ LET t == task_create(mm, c)
     IN mm' = [pg_fork(t, t.cr3[p], t.cr3[c]) EXCEPT !.spoiled = TRUE]

\* task_exec()
Exec(p) ==
  /\ Exists(p) /\ Exists(FS_PID) /\ p \notin {FS_PID, IDLE_PID} /\ Enough(2)
  /\ mm' = [pg_exec(mm, mm.cr3[FS_PID], mm.cr3[p]) EXCEPT !.spoiled = TRUE]

\* After a fork or an exec tables are free and in use: the model stops there.
PagingNext ==
  /\ ~mm.spoiled
  /\ steps < MaxSteps /\ steps' = steps + 1
  /\ \/ \E p \in Tasks : Create(p) \/ Destroy(p) \/ Exec(p)
     \/ \E p \in Tasks, kernel \in BOOLEAN : stack_pg_fault(p, kernel)
     \/ ksbrk
     \/ \E p \in Tasks, lin \in Pages(Pdes \ Private) : heap_pg_fault(p, lin)
     \/ \E p, c \in Tasks : Fork(p, c)

pagingVars == <<mm, steps>>
PagingSpec == PagingInit /\ [][PagingNext]_pagingVars

-----------------------------------------------------------------------------
(* Properties *)

\* The two lists are doubly linked, disjoint, and have every page between them: a page
\* is never lost or handed out twice, wherever in the list it is taken out.
ListsPartition ==
  LET free == Listed(mm, mm.free)
      used == Listed(mm, mm.used)
  IN /\ free \cap used = {} /\ free \cup used = Frames
     /\ \A f \in Frames : /\ mm.next[f] # NULL => mm.prev[mm.next[f]] = f
                          /\ mm.prev[f] = NULL <=> f \in {mm.free, mm.used}

Spaces == {p \in Tasks : Exists(p)}

\* What a page is used for.
Uses(f) ==
  (IF f < sys_pgs THEN {<<"system">>} ELSE {})
  \cup (IF f \in Listed(mm, mm.free) THEN {<<"free">>} ELSE {})
  \cup {<<"dir", p>> : p \in {q \in Spaces : mm.cr3[q] = f}}
  \cup {<<"table", x>> : x \in {y \in Spaces \X Pdes : mm.mem[mm.cr3[y[1]]][y[2]] = f}}
  \cup {<<"page", x>> : x \in {y \in Spaces \X Pages(Private) :
                         pg_mapped(mm, mm.cr3[y[1]], y[2]) /\ Target(mm, mm.cr3[y[1]], y[2]) = f}}
  \cup {<<"heap", x>> : x \in {y \in Pages(Pdes \ Private) \ 0 .. sys_pgs - 1 :
                         pg_mapped(mm, mm.cr3[IDLE_PID], y) /\ Target(mm, mm.cr3[IDLE_PID], y) = f}}

\* Every page has one use: none is shared but the kernel heap's, and what a process had
\* is free after it, except for the shared pages.
OneUse == ~mm.spoiled => \A f \in Frames : Cardinality(Uses(f)) = 1

\* The kernel heap is the same in every space, as far as faults have brought it in.
KernelHeapShared ==
  ~mm.spoiled => \A p \in Spaces : \A lin \in Mapped(mm, mm.cr3[p], Pdes \ Private) :
    pg_mapped(mm, mm.cr3[IDLE_PID], lin) /\ Target(mm, mm.cr3[p], lin) = Target(mm, mm.cr3[IDLE_PID], lin)

Space(t, p) == [lin \in Mapped(t, t.cr3[p], Pdes) |-> Target(t, t.cr3[p], lin)]

\* A fork changes nothing for the parent.
ForkKeepsParent == [][\A p, c \in Tasks : Fork(p, c) => Space(mm', p) = Space(mm, p)]_pagingVars
=============================================================================
