-------------------------------- MODULE Ipc ---------------------------------
(***************************************************************************)
(* Message passing in the Brainix kernel (src/kernel/message.c) with the   *)
(* processes that use it: system-call stubs (src/kernel/syscall.c), the    *)
(* file system's loop (src/fs/main.c, src/fs/device.c), a device driver's  *)
(* loop (src/driver/driver.c) and the hardware interrupts that queue       *)
(* messages (src/kernel/irq.c).                                            *)
(*                                                                         *)
(* The mailboxes are the circular doubly linked lists of the source, link  *)
(* by link: msg_check does not reset the links of the message it takes     *)
(* out and msg_free unlinks the message again.  A section between          *)
(* intr_lock and intr_unlock is one step; the timer may preempt, and an    *)
(* interrupt may be taken, between any two steps.                          *)
(*                                                                         *)
(* Scheduling is the contract of process.c: a process runs only while it   *)
(* is current_proc, and proc_sched picks some READY process, or the idle   *)
(* process when there is none.                                             *)
(***************************************************************************)
EXTENDS Naturals, FiniteSets, Sequences

CONSTANTS
  Clients,    \* user processes, each in a system call or not
  FS,         \* the file system process
  Driver,     \* a device driver process
  Idle,       \* the idle process
  Msgs,       \* the message-sized pieces of kernel heap (bound on live messages)
  Requests,   \* the system calls the clients make, a subset of SysCalls
  MaxIrqs,    \* bound on the interrupt messages alive at once
  HARDWARE, ANYONE, NULL

\* A call that is answered, and one that is not.  SYS_READ stands for all the
\* calls of do_syscall that wait for the file system.
SysCalls == {"SYS_READ", "SYS_SYNC"}

ASSUME IpcAssumption ==
  /\ IsFiniteSet(Msgs)
  /\ Requests \subseteq SysCalls
  /\ MaxIrqs \in Nat
  /\ FS # Driver /\ FS # Idle /\ Driver # Idle
  /\ Clients \cap {FS, Driver, Idle} = {}
  /\ NULL \notin Msgs
  /\ {HARDWARE, ANYONE} \cap (Clients \cup {FS, Driver, Idle}) = {}
  /\ HARDWARE # ANYONE

Procs == Clients \cup {FS, Driver, Idle}
Pids  == Procs \cup {HARDWARE}
Ops   == SysCalls \cup {"IRQ"}

VARIABLES
  live,       \* messages that are kmalloc'ed
  from, to, op,
  next, prev, \* a message's links
  rally,      \* the pids a message has travelled through (domino.c)
  mbox,       \* mbox[pid]: the head of the process' mailbox
  state,      \* proc[pid].state
  current,    \* current_proc
  pc,         \* where each process is
  msg,        \* its local message pointer
  held,       \* the file system's global msg while it talks to a driver
  seen,       \* msg_check's local: mbox[to] as read before intr_lock
  frame,      \* the message of an interrupt handler on the process' stack
  fpc         \* where that handler is

heapVars  == <<live, from, to, op, rally>>
linkVars  == <<mbox, next, prev>>
schedVars == <<state, current>>
procVars  == <<pc, msg, held, seen>>
irqVars   == <<frame, fpc>>
vars == <<heapVars, linkVars, schedVars, procVars, irqVars>>

Labels == {"idle", "send", "wake", "wakeSync", "check", "lock", "sleep",
           "sched", "got", "served", "swap"}

-----------------------------------------------------------------------------
(* The state after boot: the servers enter msg_receive, the clients compute. *)

Init ==
  /\ live  = {}
  /\ from  = [m \in Msgs |-> Idle]
  /\ to    = [m \in Msgs |-> Idle]
  /\ op    = [m \in Msgs |-> "IRQ"]
  /\ next  = [m \in Msgs |-> m]
  /\ prev  = [m \in Msgs |-> m]
  /\ rally = [m \in Msgs |-> <<>>]
  /\ mbox  = [p \in Procs |-> NULL]
  /\ state = [p \in Procs |-> "READY"]
  /\ current = Idle
  /\ pc    = [p \in Procs |-> IF p \in {FS, Driver} THEN "check" ELSE "idle"]
  /\ msg   = [p \in Procs |-> NULL]
  /\ held  = [p \in Procs |-> NULL]
  /\ seen  = [p \in Procs |-> NULL]
  /\ frame = [p \in Procs |-> NULL]
  /\ fpc   = [p \in Procs |-> "none"]

-----------------------------------------------------------------------------
(* The scheduler's contract. *)

\* The processes in the ready queue.
ReadyIn(st) == {p \in Procs \ {Idle} : st[p] = "READY"}

\* proc_sched(): some process of the ready queue, or the idle process.
proc_sched(st) ==
  IF ReadyIn(st) = {} THEN current' = Idle ELSE current' \in ReadyIn(st)

\* proc_wakeup(q): enqueue a blocked process, and switch to it at once when it
\* is the only one in the ready queue.
proc_wakeup(q) ==
  IF state[q] = "BLOCKED"
  THEN /\ state' = [state EXCEPT ![q] = "READY"]
       /\ IF ReadyIn(state) = {} THEN current' = q ELSE UNCHANGED current
  ELSE UNCHANGED schedVars

-----------------------------------------------------------------------------
(* Messages and mailboxes. *)

\* msg_alloc(dst, o), for the pid f that ends up in the from field.
msg_alloc(m, f, dst, o) ==
  /\ m \in Msgs \ live
  /\ live'  = live \cup {m}
  /\ from'  = [from  EXCEPT ![m] = f]
  /\ to'    = [to    EXCEPT ![m] = dst]
  /\ op'    = [op    EXCEPT ![m] = o]
  /\ next'  = [next  EXCEPT ![m] = m]
  /\ prev'  = [prev  EXCEPT ![m] = m]
  /\ rally' = [rally EXCEPT ![m] = <<>>]
  /\ UNCHANGED mbox

\* m->prev->next = m->next; m->next->prev = m->prev;
Unlink(m) ==
  /\ next' = [next EXCEPT ![prev[m]] = next[m]]
  /\ prev' = [prev EXCEPT ![next[m]] = prev[m]]

\* Mutant of Behead: the head moves only when the mailbox becomes empty.
BeheadLastOnly(p, m) ==
  mbox' = IF mbox[p] = m /\ next[m] = m THEN [mbox EXCEPT ![p] = NULL] ELSE mbox

\* Advance the head of p's mailbox past m.
Behead(p, m) ==
  mbox' = IF mbox[p] = m
          THEN [mbox EXCEPT ![p] = IF next[m] = m THEN NULL ELSE next[m]]
          ELSE mbox

\* msg_free(m).  The freed memory keeps what it holds until it is reused; only
\* the to field is still read (WakeTargets), the other fields are set to fixed
\* values here.
msg_free(m) ==
  /\ Behead(to[m], m)
  /\ next' = [next EXCEPT ![prev[m]] = next[m], ![m] = m]
  /\ prev' = [prev EXCEPT ![next[m]] = prev[m], ![m] = m]
  /\ live'  = live \ {m}
  /\ from'  = [from  EXCEPT ![m] = Idle]
  /\ op'    = [op    EXCEPT ![m] = "IRQ"]
  /\ rally' = [rally EXCEPT ![m] = <<>>]
  /\ UNCHANGED to

\* Mutant of rally_grow: the sender is never put on the record.
rally_grow_recipients(m) == rally' = [rally EXCEPT ![m] = Append(@, to[m])]

\* rally_grow(m, from, to): the sender goes on the record once, the recipient
\* every time.
rally_grow(m) ==
  rally' = [rally EXCEPT ![m] =
              IF @ = <<>> THEN <<from[m], to[m]>> ELSE Append(@, to[m])]

\* Mutant of msg_send: the old tail stays the head's prev.
msg_send_no_prev(m) ==
  LET q    == to[m]
      head == mbox[q]
  IN /\ IF head = NULL
        THEN /\ mbox' = [mbox EXCEPT ![q] = m]
             /\ next' = [next EXCEPT ![m] = m]
             /\ prev' = [prev EXCEPT ![m] = m]
        ELSE /\ next' = [next EXCEPT ![m] = head, ![prev[head]] = m]
             /\ prev' = [prev EXCEPT ![m] = prev[head]]
             /\ UNCHANGED mbox
     /\ rally_grow(m)
     /\ UNCHANGED <<live, from, to, op>>

\* Mutant of msg_send: the message becomes the head of the mailbox.
msg_send_at_head(m) ==
  LET q    == to[m]
      head == mbox[q]
  IN /\ IF head = NULL
        THEN /\ next' = [next EXCEPT ![m] = m]
             /\ prev' = [prev EXCEPT ![m] = m]
        ELSE /\ next' = [next EXCEPT ![m] = head, ![prev[head]] = m]
             /\ prev' = [prev EXCEPT ![m] = prev[head], ![head] = m]
     /\ mbox' = [mbox EXCEPT ![q] = m]
     /\ rally_grow(m)
     /\ UNCHANGED <<live, from, to, op>>

\* The locked part of msg_send(m): put m at the tail of its recipient's mailbox.
msg_send(m) ==
  LET q    == to[m]
      head == mbox[q]
  IN /\ IF head = NULL
        THEN /\ mbox' = [mbox EXCEPT ![q] = m]
             /\ next' = [next EXCEPT ![m] = m]
             /\ prev' = [prev EXCEPT ![m] = m]
        ELSE /\ next' = [next EXCEPT ![m] = head, ![prev[head]] = m]
             /\ prev' = [prev EXCEPT ![m] = prev[head], ![head] = m]
             /\ UNCHANGED mbox
     /\ rally_grow(m)
     /\ UNCHANGED <<live, from, to, op>>

\* Mutant of WakeTargets: the sender is woken.
WakeTargetsFrom(m) == {from[m]}

\* The processes msg_send may wake: it reads m->to after intr_unlock, when the
\* recipient may be half-way through the exclusive ors of msg_reply.
WakeTargets(m) ==
  IF \E p \in Procs : pc[p] = "swap" /\ msg[p] = m THEN Procs ELSE {to[m]}

\* Mutant of Settles: the sender is not compared.
SettlesOnFirst(p, h, s, m) == m = h

\* msg_check(s) of process p, starting from h, settles on m: either m is the
\* first message and any will do, or m is from s and the search passes over
\* messages of other senders only, none of them the last of the mailbox.
Settles(p, h, s, m) ==
  IF s = ANYONE THEN m = h
  ELSE /\ from[m] = s
       /\ \E passed \in SUBSET (Msgs \ {m}) :
            /\ IF h = m THEN passed = {} ELSE h \in passed
            /\ \A x \in passed : /\ from[x] # s
                                 /\ next[x] # mbox[p]
                                 /\ next[x] \in passed \cup {m}

\* The sender a process is waiting for in msg_receive.
Awaited(p) ==
  IF p \in Clients THEN FS
  ELSE IF p = FS /\ held[FS] # NULL THEN Driver
  ELSE ANYONE

-----------------------------------------------------------------------------
(* The steps common to all processes.                                        *)

\* p runs its own code: it is the current process and no interrupt handler is
\* on its stack.
Runs(p) == current = p /\ fpc[p] = "none"

Goto(p, label) == pc' = [pc EXCEPT ![p] = label]
At(p, label)   == pc[p] = label

\* msg_send, up to intr_unlock.
SendLocked(p) ==
  /\ Runs(p) /\ At(p, "send")
  /\ msg_send(msg[p])
  /\ Goto(p, IF op[msg[p]] = "SYS_SYNC" THEN "wakeSync" ELSE "wake")
  /\ UNCHANGED <<msg, held, seen, schedVars, irqVars>>

\* The tail of msg_send, proc_wakeup(msg->to), and the return to the caller,
\* who awaits an answer or the next request; only do_sync does not.  Who awaits
\* an answer still has the pointer in its local variable.
SendWake(p) ==
  /\ Runs(p) /\ pc[p] \in {"wake", "wakeSync"}
  /\ \E q \in WakeTargets(msg[p]) : proc_wakeup(q)
  /\ Goto(p, IF At(p, "wake") THEN "check" ELSE "idle")
  /\ msg' = IF At(p, "wake") /\ Awaited(p) # ANYONE THEN msg
            ELSE [msg EXCEPT ![p] = NULL]
  /\ UNCHANGED <<held, seen, heapVars, linkVars, irqVars>>

\* msg_check reads mbox[to] before it locks.
CheckRead(p) ==
  /\ Runs(p) /\ At(p, "check")
  /\ seen' = [seen EXCEPT ![p] = mbox[p]]
  /\ Goto(p, "lock")
  /\ UNCHANGED <<msg, held, heapVars, linkVars, schedVars, irqVars>>

\* The locked part of msg_check: find a message and unlink it.
CheckLocked(p) ==
  /\ Runs(p) /\ At(p, "lock")
  /\ \/ \E m \in Msgs :
          /\ Settles(p, seen[p], Awaited(p), m)
          /\ Behead(p, m)
          /\ Unlink(m)
          /\ msg' = [msg EXCEPT ![p] = m]
          /\ Goto(p, "got")
     \/ /\ \A m \in Msgs : ~Settles(p, seen[p], Awaited(p), m)
        /\ Goto(p, "sleep")
        /\ UNCHANGED <<msg, linkVars>>
  /\ seen' = [seen EXCEPT ![p] = NULL]
  /\ UNCHANGED <<held, heapVars, schedVars, irqVars>>

\* proc_sleep(do_getpid()), up to intr_unlock: p leaves the ready queue.
SleepLocked(p) ==
  /\ Runs(p) /\ At(p, "sleep")
  /\ state' = [state EXCEPT ![p] = "BLOCKED"]
  /\ Goto(p, "sched")
  /\ UNCHANGED <<current, msg, held, seen, heapVars, linkVars, irqVars>>

\* The tail of proc_sleep, proc_sched().  When p runs again it checks again.
SleepSched(p) ==
  /\ Runs(p) /\ At(p, "sched")
  /\ proc_sched(state)
  /\ Goto(p, "check")
  /\ UNCHANGED <<state, msg, held, seen, heapVars, linkVars, irqVars>>

\* msg_reply exchanges from and to with three exclusive ors.  "swap" stands for
\* the moments between the first and the last, when msg->to is neither.
ReplyBegin(p) ==
  /\ from' = [from EXCEPT ![msg[p]] = to[msg[p]]]
  /\ to'   = [to   EXCEPT ![msg[p]] = from[msg[p]]]
  /\ Goto(p, "swap")
  /\ UNCHANGED <<live, op, rally, msg, held, seen, linkVars, schedVars, irqVars>>

ReplyEnd(p) ==
  /\ Runs(p) /\ At(p, "swap")
  /\ Goto(p, "send")
  /\ UNCHANGED <<msg, held, seen, heapVars, linkVars, schedVars, irqVars>>

-----------------------------------------------------------------------------
(* Clients: do_read (and the calls that work like it) and do_sync.           *)

ClientCall(c) ==
  /\ c \in Clients /\ Runs(c) /\ At(c, "idle")
  /\ \E m \in Msgs \ live, o \in Requests :
       /\ msg_alloc(m, c, FS, o)
       /\ msg' = [msg EXCEPT ![c] = m]
  /\ Goto(c, "send")
  /\ UNCHANGED <<held, seen, schedVars, irqVars>>

\* Mutant of ClientReturn: the answer is not freed.
ClientReturnLeak(c) ==
  /\ c \in Clients /\ Runs(c) /\ At(c, "got")
  /\ msg' = [msg EXCEPT ![c] = NULL]
  /\ Goto(c, "idle")
  /\ UNCHANGED <<held, seen, heapVars, linkVars, schedVars, irqVars>>

\* cleanup(msg): the answer is read and freed, and the system call returns.
ClientReturn(c) ==
  /\ c \in Clients /\ Runs(c) /\ At(c, "got")
  /\ msg_free(msg[c])
  /\ msg' = [msg EXCEPT ![c] = NULL]
  /\ Goto(c, "idle")
  /\ UNCHANGED <<held, seen, schedVars, irqVars>>

-----------------------------------------------------------------------------
(* The file system: fs_main's loop, and dev_rw for a device transfer.        *)

\* dev_rw, as far as msg_alloc: one transfer at most is made for a request
\* (bound); a cached block needs none.
FsAskDriver ==
  /\ Runs(FS) /\ At(FS, "got") /\ held[FS] = NULL
  /\ op[msg[FS]] \in {"SYS_READ", "SYS_SYNC"}
  /\ held' = [held EXCEPT ![FS] = msg[FS]]
  /\ \E m \in Msgs \ live :
       /\ msg_alloc(m, FS, Driver, "SYS_READ")
       /\ msg' = [msg EXCEPT ![FS] = m]
  /\ Goto(FS, "send")
  /\ UNCHANGED <<seen, schedVars, irqVars>>

\* The end of dev_rw: the driver's answer is freed.
FsDriverDone ==
  /\ Runs(FS) /\ At(FS, "got") /\ held[FS] # NULL
  /\ msg_free(msg[FS])
  /\ msg'  = [msg EXCEPT ![FS] = held[FS]]
  /\ held' = [held EXCEPT ![FS] = NULL]
  /\ Goto(FS, "served")
  /\ UNCHANGED <<seen, schedVars, irqVars>>

FsServed == /\ Runs(FS)
            /\ pc[FS] \in {"got", "served"}
            /\ held[FS] = NULL

FsReply == FsServed /\ op[msg[FS]] = "SYS_READ" /\ ReplyBegin(FS)

\* fs_main frees the requests that want no answer.
FsFree ==
  /\ FsServed /\ op[msg[FS]] = "SYS_SYNC"
  /\ msg_free(msg[FS])
  /\ msg' = [msg EXCEPT ![FS] = NULL]
  /\ Goto(FS, "check")
  /\ UNCHANGED <<held, seen, schedVars, irqVars>>

-----------------------------------------------------------------------------
(* A device driver: drvr_main's loop.                                        *)

\* Mutant of DriverReply: interrupt messages are answered too.
DriverReplyAll == Runs(Driver) /\ At(Driver, "got") /\ ReplyBegin(Driver)

DriverReply ==
  Runs(Driver) /\ At(Driver, "got") /\ op[msg[Driver]] # "IRQ" /\ ReplyBegin(Driver)

DriverIrq ==
  /\ Runs(Driver) /\ At(Driver, "got") /\ op[msg[Driver]] = "IRQ"
  /\ msg_free(msg[Driver])
  /\ msg' = [msg EXCEPT ![Driver] = NULL]
  /\ Goto(Driver, "check")
  /\ UNCHANGED <<held, seen, schedVars, irqVars>>

-----------------------------------------------------------------------------
(* Interrupts.  irq_handler runs on the stack of the process it interrupts;  *)
(* its own intr_unlock calls enable interrupts again, so it can be preempted *)
(* like any other code.                                                      *)

\* irq_handler as far as irq_eoi: msg_alloc, msg->from = HARDWARE.
IrqAlloc(p) ==
  /\ Runs(p)
  /\ Cardinality({m \in live : op[m] = "IRQ"}) < MaxIrqs
  /\ \E m \in Msgs \ live :
       /\ msg_alloc(m, HARDWARE, Driver, "IRQ")
       /\ frame' = [frame EXCEPT ![p] = m]
  /\ fpc' = [fpc EXCEPT ![p] = "send"]
  /\ UNCHANGED <<schedVars, procVars>>

IrqSendLocked(p) ==
  /\ current = p /\ fpc[p] = "send"
  /\ msg_send(frame[p])
  /\ fpc' = [fpc EXCEPT ![p] = "wake"]
  /\ UNCHANGED <<frame, schedVars, procVars>>

\* The tail of msg_send, and the return from the interrupt.
IrqSendWake(p) ==
  /\ current = p /\ fpc[p] = "wake"
  /\ \E q \in WakeTargets(frame[p]) : proc_wakeup(q)
  /\ frame' = [frame EXCEPT ![p] = NULL]
  /\ fpc'   = [fpc EXCEPT ![p] = "none"]
  /\ UNCHANGED <<heapVars, linkVars, procVars>>

\* The timer ticks between any two steps, and the scheduler runs.
Tick ==
  /\ proc_sched(state)
  /\ UNCHANGED <<state, heapVars, linkVars, procVars, irqVars>>

-----------------------------------------------------------------------------

Common(p) == \/ SendLocked(p) \/ SendWake(p)
             \/ CheckRead(p) \/ CheckLocked(p)
             \/ SleepLocked(p) \/ SleepSched(p)
             \/ ReplyEnd(p)

Fs     == FsAskDriver \/ FsDriverDone \/ FsReply \/ FsFree
Drvr   == DriverReply \/ DriverIrq
Client(c) == ClientCall(c) \/ ClientReturn(c)
Irq(p) == IrqAlloc(p) \/ IrqSendLocked(p) \/ IrqSendWake(p)

Next == \/ \E p \in Procs : Common(p) \/ Irq(p)
        \/ \E c \in Clients : Client(c)
        \/ Fs \/ Drvr
        \/ Tick

Spec == Init /\ [][Next]_vars

-----------------------------------------------------------------------------
(* What the mailboxes are made of.                                           *)

\* The messages that can be reached from the head of p's mailbox.
Ring(p) ==
  IF mbox[p] = NULL THEN {}
  ELSE {m \in Msgs : \A S \in SUBSET Msgs :
          (mbox[p] \in S /\ \A x \in S : next[x] \in S) => m \in S}

\* The messages in the hands of p's own code, and of an interrupt handler on
\* its stack.  Once it has sent a message p may still point to it, but the
\* message is no longer p's.
InHand(p) ==
  (IF pc[p] \in {"send", "got", "served", "swap"} THEN {msg[p]} ELSE {})
    \cup ({held[p]} \ {NULL})

InFrame(p) == IF fpc[p] = "send" THEN {frame[p]} ELSE {}

\* A process, or a handler on its stack, has queued a message for q and is
\* about to wake q.
Waking(q) ==
  \E p \in Procs : \/ pc[p] \in {"wake", "wakeSync"} /\ to[msg[p]] = q
                   \/ fpc[p] = "wake" /\ to[frame[p]] = q

\* q sleeps although its mailbox has a message it is waiting for.
SleepsOnMail(q) ==
  state[q] = "BLOCKED" /\ \E m \in Msgs : Settles(q, mbox[q], Awaited(q), m)

-----------------------------------------------------------------------------
(* Fairness.  proc_sched takes the ready queue round robin and the timer     *)
(* calls it 60 times a second, so a process that stays ready gets the        *)
(* processor again and again, and when it has the processor it executes.     *)
(* Nothing obliges a client to make a call or the hardware to interrupt.     *)

Continue(p) ==
  \/ Common(p) \/ IrqSendLocked(p) \/ IrqSendWake(p)
  \/ p \in Clients /\ ClientReturn(p)
  \/ p = FS /\ Fs
  \/ p = Driver /\ Drvr

Fairness == \A p \in Procs : /\ SF_vars(Continue(p))
                              /\ SF_vars(Tick /\ current' = p)

FairSpec == Spec /\ Fairness

-----------------------------------------------------------------------------
(* Properties.                                                               *)

MsgOrNull == Msgs \cup {NULL}

TypeOK ==
  /\ live \subseteq Msgs
  /\ from \in [Msgs -> Pids] /\ to \in [Msgs -> Procs] /\ op \in [Msgs -> Ops]
  /\ next \in [Msgs -> Msgs] /\ prev \in [Msgs -> Msgs]
  /\ rally \in [Msgs -> Seq(Pids)]
  /\ mbox \in [Procs -> MsgOrNull]
  /\ state \in [Procs -> {"READY", "BLOCKED"}]
  /\ current \in Procs
  /\ pc \in [Procs -> Labels]
  /\ msg \in [Procs -> MsgOrNull] /\ held \in [Procs -> MsgOrNull]
  /\ seen \in [Procs -> MsgOrNull] /\ frame \in [Procs -> MsgOrNull]
  /\ fpc \in [Procs -> {"none", "send", "wake"}]

\* No message is in two hands, or in a hand and in a mailbox, and nothing a
\* process holds or has queued has been freed: whoever calls msg_free, msg_reply
\* or msg_send on a message is the only one who can (message.c:98-213).
OneOwner ==
  /\ \A p, q \in Procs :
       /\ InHand(p) \cap InFrame(q) = {}
       /\ p # q => /\ InHand(p) \cap InHand(q) = {}
                   /\ InFrame(p) \cap InFrame(q) = {}
                   /\ Ring(p) \cap Ring(q) = {}
       /\ (InHand(p) \cup InFrame(p)) \cap Ring(q) = {}
  /\ held[FS] # NULL => held[FS] # msg[FS]
  /\ \A p \in Procs : InHand(p) \cup InFrame(p) \cup Ring(p) \subseteq live

\* Every mailbox is a circular doubly linked list of messages addressed to its
\* owner, in spite of the links msg_check leaves behind in the messages it
\* takes out and msg_free writes through later.
RingsLinked ==
  \A p \in Procs : \A m \in Ring(p) :
    /\ to[m] = p
    /\ prev[next[m]] = m /\ next[prev[m]] = m

\* The rally of a queued message names the process that queued it and the one
\* it is queued for, last (domino.c: "storing first the pid of the sender, then
\* each pid that the message is being sent to").
RallyTold ==
  \A p \in Procs : \A m \in Ring(p) :
    /\ Len(rally[m]) >= 2
    /\ rally[m][Len(rally[m])] = p
    /\ rally[m][Len(rally[m]) - 1] = from[m]

\* No message that was sent is lost: a live message is in some process' hands
\* or in the mailbox of the process it was sent to.
NothingLost ==
  live \subseteq UNION {InHand(p) \cup InFrame(p) \cup Ring(p) : p \in Procs}

\* What a process gets when it waits for an answer is the answer: the message
\* it receives from the process it asked is the very message it sent
\* (doc/tex/fs.tex:777: "assume that the message from the process with PID pid
\* is in response to the message sent").
AnswersOwnCall ==
  [][\A p \in Procs :
       (At(p, "lock") /\ At(p, "got")' /\ Awaited(p) # ANYONE) => msg'[p] = msg[p]]_vars

\* A sender that has queued a message for a sleeping process wakes it up, even
\* though it is preempted first and reads msg->to only after the message may
\* have been taken, answered, freed and reused (message.c:193-195).
PendingWake ==
  \A q \in Procs : (SleepsOnMail(q) /\ Waking(q)) ~> state[q] = "READY"

\* A process does not sleep while a message it is waiting for is in its mailbox
\* (message.c:143: "Receive a message from the specified sender"); the moment
\* before its sender wakes it does not count.
NoSleepOnMail == \A q \in Procs : SleepsOnMail(q) => Waking(q)

\* An interrupt that is taken is reported to its driver (driver.c:52-53: "Now
\* the kernel will send messages to the current (device driver) process to
\* report the specified IRQ").
IrqReported == \A p \in Procs : fpc[p] = "send" ~> fpc[p] # "send"

(***************************************************************************)
(* The linked mailboxes implement queues: a queue is the list read from    *)
(* its head along the next links.                                          *)
(***************************************************************************)
Walk(h, n) ==
  LET walk[k \in 0 .. Cardinality(Msgs)] == IF k = 0 THEN h ELSE n[walk[k - 1]]
  IN walk

Queue(p) == IF mbox[p] = NULL THEN <<>>
            ELSE [i \in 1 .. Cardinality(Ring(p)) |-> Walk(mbox[p], next)[i - 1]]

Queues == INSTANCE Mailbox WITH
            Senders <- Pids,
            free    <- Msgs \ live,
            queue   <- [p \in Procs |-> Queue(p)],
            sender  <- from

\* With two clients, whose calls are answered, and one interrupt at a time, Ipc
\* implements Mailbox: messages are received in the order they were sent by each
\* sender, none is lost, none is received twice (message.c:124-213).  With a third
\* client a message may be lost (MCIpc_lost.cfg).
ImplementsMailbox == Queues!Spec
=============================================================================
