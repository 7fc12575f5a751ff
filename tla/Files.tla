------------------------------- MODULE Files --------------------------------
(***************************************************************************)
(* The file system's tables above the block cache: the inode table         *)
(* (src/fs/inode.c), the processes' directories and descriptors            *)
(* (fildes.c, open.c, proc.c), path names (path.c, search.c) and the       *)
(* calls on names (dir.c, link.c, perm.c, stat.c, time.c), as fs_main      *)
(* (main.c) serves them: one message after another, each to its end, so a  *)
(* message is one step.  An inode's block is what BlockCache's Disk        *)
(* promises: the inode last written to it.                                 *)
(*                                                                         *)
(* The descriptor table is the source's: OPEN_DESCR(fildes) is             *)
(* fs_proc[fildes].open_descr[fildes] (src/inc/fs/fildes.h:53), whatever   *)
(* process calls.  A write through a null file pointer goes to address 0,  *)
(* which every address space maps; it is the record file_ptr[NULL] here.   *)
(*                                                                         *)
(* Next stops where the code's counts go wrong by construction, see        *)
(* Regular.                                                                *)
(***************************************************************************)
EXTENDS Integers, FiniteSets, FiniteSetsExt, Sequences

CONSTANTS
  NumInodes, NumFilePtrs, NumProcs, OPEN_MAX, LINK_MAX,   \* config.h, limits.h
  FS_PID,      \* the file system; mount_root() gives it the first directories
  Callers,     \* the processes that send messages
  Inos,        \* the inodes of the root device
  EXT2_ROOT_INO,
  Kind,        \* Kind[ino]: "dir", "reg" or "dev"
  Entries,     \* Entries[ino]: what the names in a directory stand for
  Paths,       \* path names: [abs, comps, slash]
  MaxLost      \* bound: how often an inode's pointer is lost in file_ptr[NULL]

\* The last conjunct: the pointers there can be to an inode, and the two that a call holds
\* while it runs, can be counted in its count, an unsigned char (config.h: 32 processes,
\* 128 file pointers).
ASSUME FilesAssumption ==
  /\ NumInodes \in Nat \ {0} /\ NumFilePtrs \in Nat \ {0} /\ NumProcs \in Nat
  /\ OPEN_MAX \in 1 .. NumProcs
  /\ Callers \subseteq 0 .. NumProcs - 1 /\ FS_PID \in (0 .. NumProcs - 1) \ Callers
  /\ LINK_MAX \in Nat \ {0} /\ MaxLost \in Nat
  /\ EXT2_ROOT_INO \in Inos /\ 0 \notin Inos
  /\ Kind \in [Inos -> {"dir", "reg", "dev"}]
  /\ \A d \in Inos : \A n \in DOMAIN Entries[d] : Entries[d][n] \in Inos
  /\ \A path \in Paths : path.abs \in BOOLEAN /\ Len(path.comps) \in Nat
  /\ 2 * NumProcs + NumFilePtrs + MaxLost + 5 < 256

NULL     == 0
InodePtr == 1 .. NumInodes
FilePtr  == 1 .. NumFilePtrs
Pids     == 0 .. NumProcs - 1
Fildes   == 0 .. OPEN_MAX - 1

VARIABLE fs
\* fs.inode[i]     the inode table; links is what the model keeps of the fields that
\*                 reside on the device and change
\* fs.device[ino]  what the device has of an inode
\* fs.file_ptr[f]  the file pointer table
\* fs.proc[p]      fs_proc
\* fs.err          err_code is set
\* fs.panic        inode_get has found no free slot
\* fs.opens        external: opens less closes that the driver has seen
\* fs.lost         history: how often an inode pointer was overwritten in file_ptr[NULL]
\* fs.super        the root superblock's root_dir_inode_ptr
\* fs.down         the file system has served SHUTDOWN

Unused == [ino |-> 0, count |-> 0, dirty |-> FALSE, links |-> 0]

\* inode_init(), descr_init(), and fs_register() of the driver with the root device:
\* mount_root() gets the root directory once, FS_PID twice.
FilesInit ==
  LET root   == [ino |-> EXT2_ROOT_INO, count |-> 3, dirty |-> FALSE, links |-> 1]
      none   == [f \in Fildes |-> NULL]
  IN fs = [inode    |-> [i \in InodePtr |-> IF i = 1 THEN root ELSE Unused],
           device   |-> [i \in Inos |-> 1],
           file_ptr |-> [f \in FilePtr \cup {NULL} |-> [inode |-> NULL, count |-> 0]],
           proc     |-> [p \in Pids |-> IF p = FS_PID
                                        THEN [root |-> 1, work |-> 1, descr |-> none]
                                        ELSE [root |-> NULL, work |-> NULL, descr |-> none]],
           err      |-> FALSE,
           panic    |-> FALSE,
           opens    |-> 0,
           lost     |-> [i \in InodePtr |-> 0],
           super    |-> 1,
           down     |-> FALSE]

-----------------------------------------------------------------------------
(* The inode table. *)

KindOf(t, i) == Kind[t.inode[i].ino]

\* inode_rw(WRITE)
inode_write(t, i) ==
  LET n == t.inode[i] IN
  IF n.dirty THEN [t EXCEPT !.device[n.ino] = n.links, !.inode[i].dirty = FALSE] ELSE t

\* inode_get(): the slot that has the inode, in use or not, or the first slot that
\* is not in use; returns the tables and the pointer.
inode_get_used_only(t, ino) ==
  LET has  == {i \in InodePtr : t.inode[i].ino = ino /\ t.inode[i].count > 0}
      free == {i \in InodePtr : t.inode[i].count = 0}
      new  == [ino |-> ino, count |-> 1, dirty |-> FALSE, links |-> t.device[ino]]
  IN IF has # {} THEN [t |-> [t EXCEPT !.inode[Min(has)].count = @ + 1], ip |-> Min(has)]
     ELSE IF free # {} THEN [t |-> [t EXCEPT !.inode[Min(free)] = new], ip |-> Min(free)]
     ELSE [t |-> [t EXCEPT !.panic = TRUE], ip |-> NULL]

inode_get(t, ino) ==
  LET has  == {i \in InodePtr : t.inode[i].ino = ino}
      free == {i \in InodePtr : t.inode[i].count = 0}
      new  == [ino |-> ino, count |-> 1, dirty |-> FALSE, links |-> t.device[ino]]
  IN IF has # {} THEN [t |-> [t EXCEPT !.inode[Min(has)].count = @ + 1], ip |-> Min(has)]
     ELSE IF free # {} THEN [t |-> [t EXCEPT !.inode[Min(free)] = new], ip |-> Min(free)]
     ELSE [t |-> [t EXCEPT !.panic = TRUE], ip |-> NULL]

inode_put_no_write(t, i) ==
  IF i = NULL THEN t
  ELSE LET c == (t.inode[i].count + 255) % 256
           d == [t EXCEPT !.inode[i].count = c]
       IN IF c > 0 THEN d ELSE [d EXCEPT !.inode[i].dirty = TRUE]

\* inode_put(): the last put updates the access time and writes the inode.  count is
\* an unsigned char.
inode_put(t, i) ==
  IF i = NULL THEN t
  ELSE LET c == (t.inode[i].count + 255) % 256
           d == [t EXCEPT !.inode[i].count = c]
       IN IF c > 0 THEN d ELSE inode_write([d EXCEPT !.inode[i].dirty = TRUE], i)

-----------------------------------------------------------------------------
(* Path names. *)

\* search_dir().  name is never reset in path_to_inode(): the k-th component is
\* looked up under the first k components strung together.
search_dir(ino, name) == IF name \in DOMAIN Entries[ino] THEN Entries[ino][name] ELSE 0

Error(t) == [t EXCEPT !.err = TRUE]
Fails(t, i) == [t |-> Error(inode_put(t, i)), ip |-> NULL]

\* A slash trails the k-th component.
Slashed(path, k) == k < Len(path.comps) \/ path.slash

\* One turn of path_to_inode(): the k-th component.  Search permission is denied in
\* component deny, if there is one.
next_component_keeps_dir(w, path, deny, k) ==
  LET ino == search_dir(w.t.inode[w.ip].ino, SubSeq(path.comps, 1, k))
      got == inode_get(w.t, ino)
  IN IF w.t.err \/ w.t.panic THEN w
     ELSE IF deny = k \/ ino = 0 THEN Fails(w.t, w.ip)
     ELSE IF got.t.panic \/ ~Slashed(path, k) \/ KindOf(got.t, got.ip) = "dir" THEN got
     ELSE Fails(got.t, got.ip)

next_component(w, path, deny, k) ==
  LET ino == search_dir(w.t.inode[w.ip].ino, SubSeq(path.comps, 1, k))
      got == inode_get(inode_put(w.t, w.ip), ino)
  IN IF w.t.err \/ w.t.panic THEN w
     ELSE IF deny = k \/ ino = 0 THEN Fails(w.t, w.ip)
     ELSE IF got.t.panic \/ ~Slashed(path, k) \/ KindOf(got.t, got.ip) = "dir" THEN got
     ELSE Fails(got.t, got.ip)

start_dir(t, p, path) == IF path.abs THEN t.proc[p].root ELSE t.proc[p].work

path_to_inode(t, p, path, deny) ==
  LET start == start_dir(t, p, path)
      n     == Len(path.comps)
      walk[k \in 0 .. n] ==
        IF k = 0 THEN [t |-> [t EXCEPT !.inode[start].count = @ + 1], ip |-> start]
        ELSE next_component(walk[k - 1], path, deny, k)
  IN IF n = 0 /\ ~path.abs THEN Fails(t, NULL)
     ELSE IF t.inode[start].links = 0 THEN Fails(t, start)
     ELSE walk[n]

-----------------------------------------------------------------------------
(* Descriptors. *)

OPEN_DESCR(t, fildes) == t.proc[fildes].descr[fildes]
Set_OPEN_DESCR(t, fildes, f) == [t EXCEPT !.proc[fildes].descr[fildes] = f]

\* descr_get(): the first descriptor and the first file pointer that are not used.
descr_get(t) ==
  LET fds  == {d \in Fildes : OPEN_DESCR(t, d) = NULL}
      ptrs == {f \in FilePtr : t.file_ptr[f].count = 0}
  IN IF fds = {} \/ ptrs = {} THEN [t |-> Error(t), fildes |-> -1]
     ELSE [t |-> Set_OPEN_DESCR(t, Min(fds), Min(ptrs)), fildes |-> Min(fds)]

descr_put(t, fildes) == IF fildes \in Fildes THEN Set_OPEN_DESCR(t, fildes, NULL) ELSE t

IsDev(t, i) == i # NULL /\ KindOf(t, i) = "dev"

\* The file pointer gets its inode; one that was in file_ptr[NULL] is lost.
FillPtr(t, f, i) ==
  [t EXCEPT !.file_ptr[f] = [inode |-> i, count |-> 1],
            !.lost = [j \in InodePtr |-> IF f = NULL /\ j = t.file_ptr[f].inode
                                         THEN @[j] + 1 ELSE @[j]]]

\* do_fs_open().  willing: the driver of a device file opens the device.
do_fs_open(t, p, path, deny, willing) ==
  LET d == descr_get(t)
      w == path_to_inode(d.t, p, path, deny)
      o == IF IsDev(w.t, w.ip) THEN [w.t EXCEPT !.opens = @ + 1] ELSE w.t
  IN IF d.t.err THEN d.t
     ELSE IF w.t.err \/ w.t.panic THEN descr_put(w.t, d.fildes)
     ELSE IF IsDev(w.t, w.ip) /\ ~willing THEN Error(inode_put(descr_put(w.t, d.fildes), w.ip))
     ELSE FillPtr(o, o.proc[p].descr[d.fildes], w.ip)

\* do_fs_close(): the inode is put for every descriptor, the file pointer is
\* released with the only one.
do_fs_close_no_driver(t, p, fildes) ==
  LET f == t.proc[p].descr[fildes]
      i == t.file_ptr[f].inode
      r == IF t.file_ptr[f].count = 1
           THEN [t EXCEPT !.file_ptr[f] = [inode |-> NULL, count |-> 0]] ELSE t
  IN IF f = NULL THEN Error(t) ELSE inode_put(descr_put(r, fildes), i)

do_fs_close(t, p, fildes) ==
  LET f == t.proc[p].descr[fildes]
      i == t.file_ptr[f].inode
      r == IF t.file_ptr[f].count = 1
           THEN [t EXCEPT !.opens = IF IsDev(t, i) THEN @ - 1 ELSE @,
                          !.file_ptr[f] = [inode |-> NULL, count |-> 0]]
           ELSE t
  IN IF f = NULL THEN Error(t) ELSE inode_put(descr_put(r, fildes), i)

\* do_fs_fcntl(F_DUPFD): from 0 on the first unused descriptor, another one as it is.
dupfd(t, fildes, arg) ==
  LET f    == OPEN_DESCR(t, fildes)
      fds  == {d \in Fildes : OPEN_DESCR(t, d) = NULL}
      to   == IF arg = 0 THEN Min(fds) ELSE arg
  IN IF f = NULL \/ (arg = 0 /\ fds = {}) THEN Error(t)
     ELSE [Set_OPEN_DESCR(t, to, f) EXCEPT !.file_ptr[f].count = @ + 1]

do_fs_dup2(t, p, fildes, fildes2) ==
  IF OPEN_DESCR(t, fildes) # NULL /\ OPEN_DESCR(t, fildes) = OPEN_DESCR(t, fildes2) THEN t
  ELSE dupfd(do_fs_close(t, p, fildes2), fildes, fildes2)

-----------------------------------------------------------------------------
(* Calls on names.  su: the caller is the super user. *)

Relinked(t, i, links) == [t EXCEPT !.inode[i] = [@ EXCEPT !.links = links, !.dirty = TRUE]]

do_fs_link(t, p, path1, path2, deny, su) ==
  LET a    == path_to_inode(t, p, path1, deny)
      b    == path_to_inode(a.t, p, path2, deny)
      n    == b.t.inode[a.ip]
      both == inode_put(inode_put(b.t, a.ip), b.ip)
  IN IF a.ip = NULL \/ b.t.panic THEN both
     ELSE IF \/ n.links >= LINK_MAX
             \/ ~su /\ KindOf(b.t, a.ip) = "dir"
             \/ b.ip # NULL
     THEN Error(both)
     ELSE inode_put(Relinked(b.t, a.ip, n.links + 1), a.ip)

do_fs_unlink(t, p, path, deny, su) ==
  LET w == path_to_inode(t, p, path, deny)
      n == w.t.inode[w.ip]
  IN IF w.ip = NULL THEN w.t
     ELSE IF n.ino = EXT2_ROOT_INO \/ (~su /\ KindOf(w.t, w.ip) = "dir")
     THEN Error(inode_put(w.t, w.ip))
     ELSE inode_put(Relinked(w.t, w.ip, (n.links + 65535) % 65536), w.ip)

\* change(): dir is "root" or "work".
change(t, p, path, deny, dir) ==
  LET w == path_to_inode(t, p, path, deny) IN
  IF w.ip = NULL THEN w.t
  ELSE IF KindOf(w.t, w.ip) # "dir" THEN Error(inode_put(w.t, w.ip))
  ELSE [inode_put(w.t, w.t.proc[p][dir]) EXCEPT !.proc[p][dir] = w.ip]

\* access, stat: changes = FALSE; utime, chown, chmod with the file's kind in its
\* argument: changes = TRUE.
NameCall(t, p, path, deny, changes) ==
  LET w == path_to_inode(t, p, path, deny) IN
  IF w.ip = NULL THEN w.t
  ELSE inode_put([w.t EXCEPT !.inode[w.ip].dirty = @ \/ changes], w.ip)

-----------------------------------------------------------------------------
(* Processes. *)

do_fs_fork(t, parent, child) ==
  LET q    == t.proc[parent]
      r    == [t EXCEPT !.inode[q.root].count = @ + 1]
      w    == [r EXCEPT !.inode[q.work].count = @ + 1, !.proc[child] = q]
      n(f) == Cardinality({d \in Fildes : q.descr[d] = f})
      shared == [f \in DOMAIN t.file_ptr |->
                   [t.file_ptr[f] EXCEPT !.count = IF f = NULL THEN @ ELSE @ + n(f)]]
  IN [w EXCEPT !.file_ptr = shared]

do_fs_exit(t, p) ==
  LET r == [inode_put(t, t.proc[p].root) EXCEPT !.proc[p].root = NULL]
      d == [inode_put(r, r.proc[p].work) EXCEPT !.proc[p].work = NULL]
      c[n \in 0 .. OPEN_MAX] ==
        IF n = 0 THEN d
        ELSE IF t.proc[p].descr[n - 1] = NULL THEN c[n - 1] ELSE do_fs_close(c[n - 1], p, n - 1)
  IN c[OPEN_MAX]

\* do_fs_execve() of a file that can be opened: whatever follows, it is closed.
do_fs_execve(t, p, path) ==
  LET d == descr_get(t).fildes IN do_fs_close(do_fs_open(t, p, path, 0, FALSE), p, d)

\* do_fs_sync()'s inodes
SyncInodes(t) ==
  LET w[i \in 0 .. NumInodes] == IF i = 0 THEN t ELSE inode_write(w[i - 1], i) IN w[NumInodes]

-----------------------------------------------------------------------------
(* fs_main: the messages. *)

\* Where the counts are no longer those of the references:
\*  - a file pointer that two descriptors share (dup, fork): do_fs_close puts the inode
\*    for each of them but clears nothing of the pointer until its count is 1;
\*  - a file pointer without an inode that a descriptor refers to (dup);
\*  - a directory without links that a path starts at: path_to_inode puts it unasked;
\*  - a file unlinked more often than it has links: no call removes a directory entry.
\* MaxLost bounds what opening loses: the count of an inode lost 256 times wraps.
Regular ==
  /\ \A i \in InodePtr : fs.lost[i] <= MaxLost /\ fs.inode[i].links <= LINK_MAX
  /\ \A f \in FilePtr : LET x == fs.file_ptr[f] IN x.count > 0 => x.count = 1 /\ x.inode # NULL
  /\ \A p \in Callers : \A i \in {fs.proc[p].root, fs.proc[p].work} : i # NULL => fs.inode[i].links > 0

\* A process has directories from its fork to its exit.
HasDirs(p) == fs.proc[p].root # NULL
Users      == {p \in Callers : HasDirs(p)}

\* A message is served, with err_code = 0 at first, until the file system is shut down;
\* panic stops it where it is.
Serve(t) == fs' = IF t.panic THEN [fs EXCEPT !.panic = TRUE] ELSE [t EXCEPT !.err = FALSE]

\* Paths, and "/" in the calls that open nothing.
AllPaths == Paths \cup {[abs |-> TRUE, comps |-> <<>>, slash |-> FALSE]}
\* The component in which search permission is denied; 0: none.
Denials(path) == IF path.comps = <<>> THEN {0} ELSE 0 .. 1

Open(p)   == \E path \in Paths : \E deny \in Denials(path), willing \in BOOLEAN :
               Serve(do_fs_open(fs, p, path, deny, willing))
Close(p)  == \E d \in Fildes : Serve(do_fs_close(fs, p, d))
Dup(p)    == \E d \in Fildes : Serve(dupfd(fs, d, 0))
Dup2(p)   == \E d, e \in Fildes : Serve(do_fs_dup2(fs, p, d, e))
Chdir(p)  == \E path \in AllPaths : \E deny \in Denials(path) :
               Serve(change(fs, p, path, deny, "work"))
Chroot(p) == \E path \in AllPaths : \E deny \in Denials(path) :
               Serve(change(fs, p, path, deny, "root"))
Link(p)   == \E path1, path2 \in Paths, su \in BOOLEAN :
               Serve(do_fs_link(fs, p, path1, path2, 0, su))
Unlink(p) == \E path \in AllPaths, su \in BOOLEAN : Serve(do_fs_unlink(fs, p, path, 0, su))
Name(p)   == \E path \in AllPaths, changes \in BOOLEAN :
               Serve(NameCall(fs, p, path, 0, changes))
Fork(p)   == \E c \in Callers : ~HasDirs(c) /\ Serve(do_fs_fork(fs, p, c))
Exit(p)   == Serve(do_fs_exit(fs, p))
Execve(p) == \E path \in Paths :
               /\ ~do_fs_open(fs, p, path, 0, FALSE).err
               /\ Serve(do_fs_execve(fs, p, path))
FilesSync == Serve(SyncInodes(fs))

\* SHUTDOWN: umount_root() puts the root directory; inodes are written only there.
Shutdown  == Serve([inode_put(fs, fs.super) EXCEPT !.super = NULL, !.down = TRUE])

FilesNext ==
  /\ Regular /\ ~fs.panic /\ ~fs.down
  /\ \/ \E p \in Users : \/ Open(p) \/ Close(p) \/ Dup(p) \/ Dup2(p) \/ Chdir(p) \/ Chroot(p)
                          \/ Link(p) \/ Unlink(p) \/ Name(p) \/ Exit(p) \/ Execve(p)
     \/ \E p \in Users \cup {FS_PID} : Fork(p)
     \/ FilesSync
     \/ Shutdown

FilesSpec == FilesInit /\ [][FilesNext]_fs

-----------------------------------------------------------------------------
(* Properties *)

References(t, i) ==
  Cardinality({p \in Pids : t.proc[p].root = i}) + Cardinality({p \in Pids : t.proc[p].work = i})
  + Cardinality({f \in FilePtr \cup {NULL} : t.file_ptr[f].inode = i})
  + (IF t.super = i THEN 1 ELSE 0)

\* An inode's count is the number of pointers to it that the file system keeps, over
\* every path that can fail half-way (path_to_inode, link with its two paths, open);
\* and of those that opening through file_ptr[NULL] has lost.
CountsMatch ==
  \A i \in InodePtr : fs.inode[i].count = References(fs, i) + fs.lost[i]

\* An inode that is not dirty is as on its device, and one that nobody uses is not
\* dirty: inode_get may reuse its slot.
CleanOnDevice ==
  \A i \in InodePtr : LET n == fs.inode[i] IN
    /\ n.ino # 0 /\ ~n.dirty => fs.device[n.ino] = n.links
    /\ n.count = 0 => ~n.dirty

\* The file pointers to devices, and the lost ones.
DevPtrs(t) == {f \in FilePtr \cup {NULL} : IsDev(t, t.file_ptr[f].inode)}
DevLost(t) == {x \in InodePtr \X (1 .. MaxLost + 1) : x[2] <= t.lost[x[1]] /\ IsDev(t, x[1])}

\* A driver has been told of as many opens as there are file pointers to its files.
DriverOpens == fs.opens = Cardinality(DevPtrs(fs)) + Cardinality(DevLost(fs))

\* No inode is in two slots, where changes to one would not be seen in the other.
OneSlotPerInode ==
  \A i, j \in InodePtr : fs.inode[i].ino = fs.inode[j].ino => i = j \/ fs.inode[i].ino = 0
=============================================================================
