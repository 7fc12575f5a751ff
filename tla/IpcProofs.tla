----------------------------- MODULE IpcProofs ------------------------------
(***************************************************************************)
(* Proofs about Ipc, for any number of clients, messages and interrupts:   *)
(* type correctness, then who has a message.  For the latter a mailbox is  *)
(* described by the set of its messages and a rank that grows from its     *)
(* head to its tail, so that no proof walks along links.  Then, when no    *)
(* message is lost, and that the mailboxes are queues then.                *)
(***************************************************************************)
EXTENDS Ipc, Loops, WellFoundedInduction, FiniteSetTheorems, TLAPS

-----------------------------------------------------------------------------
(* Type correctness.  The type invariant is not inductive by itself: where a *)
(* program counter says that a process or a handler has a message it must    *)
(* have one, and a message from the hardware must not be answered.           *)

HeapType == /\ live \subseteq Msgs
            /\ from \in [Msgs -> Pids] /\ to \in [Msgs -> Procs]
            /\ op \in [Msgs -> Ops]
            /\ rally \in [Msgs -> Seq(Pids)]

LinkType == /\ next \in [Msgs -> Msgs] /\ prev \in [Msgs -> Msgs]
            /\ mbox \in [Procs -> MsgOrNull]

SchedType == state \in [Procs -> {"READY", "BLOCKED"}] /\ current \in Procs

ProcType == /\ pc \in [Procs -> Labels]
            /\ msg \in [Procs -> MsgOrNull] /\ held \in [Procs -> MsgOrNull]
            /\ seen \in [Procs -> MsgOrNull]

IrqType == /\ frame \in [Procs -> MsgOrNull]
           /\ fpc \in [Procs -> {"none", "send", "wake"}]

HasMsgAt == {"send", "wake", "wakeSync", "got", "served", "swap"}

HasMsg == \A p \in Procs : pc[p] \in HasMsgAt => msg[p] \in Msgs

HasFrame == \A p \in Procs : fpc[p] \in {"send", "wake"} => frame[p] \in Msgs

HardwareSendsIrqs == \A m \in Msgs : from[m] = HARDWARE => op[m] = "IRQ"

TypeInv == /\ HeapType /\ LinkType /\ SchedType /\ ProcType /\ IrqType
           /\ HasMsg /\ HasFrame /\ HardwareSendsIrqs

\* TypeInv is TypeOK with its conjuncts in groups, and the three facts above.
LEMMA TypeInvTypeOK == TypeInv => TypeOK
BY DEF TypeInv, TypeOK, HeapType, LinkType, SchedType, ProcType, IrqType

\* The processes are distinct from the hardware.
LEMMA ProcsFacts ==
  /\ FS \in Procs /\ Driver \in Procs /\ Idle \in Procs
  /\ Clients \subseteq Procs /\ HARDWARE \notin Procs
  /\ NULL \notin Msgs /\ Procs \subseteq Pids /\ HARDWARE \in Pids
BY IpcAssumption DEF Procs, Pids

\* The initial state is well typed.
LEMMA InitType == Init => TypeInv
<1> SUFFICES ASSUME Init PROVE TypeInv
  OBVIOUS
<1> USE ProcsFacts
<1>1. HeapType
  BY DEF Init, HeapType, Ops
<1>2. LinkType /\ SchedType /\ IrqType
  BY DEF Init, LinkType, SchedType, IrqType, MsgOrNull
<1>3. ProcType
  BY DEF Init, ProcType, MsgOrNull, Labels
<1>4. HasMsg /\ HasFrame /\ HardwareSendsIrqs
  BY DEF Init, HasMsg, HasFrame, HardwareSendsIrqs, HasMsgAt
<1> QED
  BY <1>1, <1>2, <1>3, <1>4 DEF TypeInv

\* msg_alloc for a process or the hardware keeps the types.
LEMMA AllocType ==
  ASSUME TypeInv, NEW m \in Msgs, NEW f \in Pids, NEW dst \in Procs,
         NEW o \in Ops, f = HARDWARE => o = "IRQ",
         msg_alloc(m, f, dst, o)
  PROVE  HeapType' /\ LinkType' /\ HardwareSendsIrqs'
<1>1. HeapType'
  BY DEF TypeInv, HeapType, msg_alloc
<1>2. LinkType'
  BY DEF TypeInv, LinkType, msg_alloc
<1>3. HardwareSendsIrqs'
  BY DEF TypeInv, HeapType, HardwareSendsIrqs, msg_alloc
<1> QED
  BY <1>1, <1>2, <1>3

\* msg_free keeps the types.
LEMMA FreeType ==
  ASSUME TypeInv, NEW m \in Msgs, msg_free(m)
  PROVE  HeapType' /\ LinkType' /\ HardwareSendsIrqs'
<1> USE ProcsFacts
<1>1. HeapType'
  BY DEF TypeInv, HeapType, msg_free, Ops
<1>2. mbox' \in [Procs -> MsgOrNull]
  BY DEF TypeInv, LinkType, HeapType, msg_free, Behead, MsgOrNull
<1>3. LinkType'
  BY <1>2 DEF TypeInv, LinkType, msg_free
<1>4. HardwareSendsIrqs'
  BY DEF TypeInv, HeapType, HardwareSendsIrqs, msg_free
<1> QED
  BY <1>1, <1>3, <1>4

\* msg_send keeps the types.
LEMMA SendType ==
  ASSUME TypeInv, NEW m \in Msgs, msg_send(m)
  PROVE  HeapType' /\ LinkType' /\ HardwareSendsIrqs'
<1> USE ProcsFacts
<1>1. rally' \in [Msgs -> Seq(Pids)]
  BY DEF TypeInv, HeapType, msg_send, rally_grow
<1>2. HeapType'
  BY <1>1 DEF TypeInv, HeapType, msg_send
<1>3. to[m] \in Procs /\ mbox[to[m]] \in MsgOrNull
  BY DEF TypeInv, HeapType, LinkType
<1>4. LinkType'
  BY <1>3 DEF TypeInv, LinkType, msg_send, MsgOrNull
<1>5. HardwareSendsIrqs'
  BY DEF TypeInv, HardwareSendsIrqs, msg_send
<1> QED
  BY <1>2, <1>4, <1>5

\* Waking a process and scheduling keep the types.
LEMMA WakeType ==
  ASSUME TypeInv, NEW q \in Procs, proc_wakeup(q)
  PROVE  SchedType'
BY DEF TypeInv, SchedType, proc_wakeup, schedVars

\* The scheduler's operators keep the types.
LEMMA SchedTypes ==
  ASSUME TypeInv, state' = state, proc_sched(state)
  PROVE  SchedType'
BY ProcsFacts DEF TypeInv, SchedType, proc_sched, ReadyIn

\* What HasMsg, HasFrame and the types of the other variables need of a step
\* that only moves p: the label it goes to has its message.
LEMMA MoveType ==
  ASSUME TypeInv, NEW p \in Procs, NEW l \in Labels, Goto(p, l),
         NEW x \in MsgOrNull, msg' = [msg EXCEPT ![p] = x],
         l \in HasMsgAt => x \in Msgs,
         held' \in [Procs -> MsgOrNull], seen' \in [Procs -> MsgOrNull],
         UNCHANGED irqVars
  PROVE  ProcType' /\ IrqType' /\ HasMsg' /\ HasFrame'
<1>1. ProcType' /\ IrqType'
  BY DEF TypeInv, ProcType, IrqType, Goto, irqVars
<1>2. HasMsg'
  BY DEF TypeInv, ProcType, HasMsg, Goto
<1>3. HasFrame'
  BY DEF TypeInv, HasFrame, irqVars
<1> QED
  BY <1>1, <1>2, <1>3

\* The same for a step that leaves msg alone.
LEMMA MoveTypeSame ==
  ASSUME TypeInv, NEW p \in Procs, NEW l \in Labels, Goto(p, l), msg' = msg,
         l \in HasMsgAt => msg[p] \in Msgs,
         held' \in [Procs -> MsgOrNull], seen' \in [Procs -> MsgOrNull],
         UNCHANGED irqVars
  PROVE  ProcType' /\ IrqType' /\ HasMsg' /\ HasFrame'
<1>1. msg' = [msg EXCEPT ![p] = msg[p]] /\ msg[p] \in MsgOrNull
  BY DEF TypeInv, ProcType
<1> QED
  BY <1>1, MoveType

-----------------------------------------------------------------------------
(* Type correctness, action by action.                                       *)

\* The steps every process takes keep the types.
LEMMA CommonType ==
  ASSUME TypeInv, NEW p \in Procs, Common(p)
  PROVE  TypeInv'
<1> USE ProcsFacts DEF HasMsgAt, Labels
<1>0. held \in [Procs -> MsgOrNull] /\ seen \in [Procs -> MsgOrNull]
      /\ mbox[p] \in MsgOrNull /\ NULL \in MsgOrNull
  BY DEF TypeInv, ProcType, LinkType, MsgOrNull
<1>1. CASE SendLocked(p)
  <2>1. msg[p] \in Msgs
    BY <1>1 DEF SendLocked, At, TypeInv, HasMsg
  <2>2. HeapType' /\ LinkType' /\ HardwareSendsIrqs'
    BY <1>1, <2>1, SendType DEF SendLocked
  <2>3. SchedType'
    BY <1>1 DEF SendLocked, TypeInv, SchedType, schedVars
  <2>4. PICK l \in {"wake", "wakeSync"} : Goto(p, l)
    BY <1>1 DEF SendLocked
  <2>5. ProcType' /\ IrqType' /\ HasMsg' /\ HasFrame'
    BY <1>0, <1>1, <2>1, <2>4, MoveTypeSame DEF SendLocked
  <2> QED
    BY <2>2, <2>3, <2>5 DEF TypeInv
<1>2. CASE SendWake(p)
  <2>1. msg[p] \in Msgs
    BY <1>2 DEF SendWake, TypeInv, HasMsg
  <2>2. WakeTargets(msg[p]) \subseteq Procs
    BY <2>1 DEF WakeTargets, TypeInv, HeapType
  <2>3. SchedType'
    BY <1>2, <2>2, WakeType DEF SendWake
  <2>4. HeapType' /\ LinkType' /\ HardwareSendsIrqs'
    BY <1>2 DEF SendWake, heapVars, linkVars, TypeInv, HeapType, LinkType,
                HardwareSendsIrqs
  <2>5. PICK l \in {"check", "idle"} : Goto(p, l)
    BY <1>2 DEF SendWake
  <2>6. msg' = [msg EXCEPT ![p] = NULL] \/ msg' = msg
    BY <1>2 DEF SendWake
  <2>7. ProcType' /\ IrqType' /\ HasMsg' /\ HasFrame'
    BY <1>0, <1>2, <2>5, <2>6, MoveType, MoveTypeSame DEF SendWake
  <2> QED
    BY <2>3, <2>4, <2>7 DEF TypeInv
<1>3. CASE CheckRead(p)
  <2>1. ProcType' /\ IrqType' /\ HasMsg' /\ HasFrame'
    BY <1>0, <1>3, MoveTypeSame DEF CheckRead
  <2>2. HeapType' /\ LinkType' /\ HardwareSendsIrqs' /\ SchedType'
    BY <1>3 DEF CheckRead, heapVars, linkVars, schedVars, TypeInv, HeapType,
                LinkType, SchedType, HardwareSendsIrqs
  <2> QED
    BY <2>1, <2>2 DEF TypeInv
<1>4. CASE CheckLocked(p)
  <2>1. HeapType' /\ HardwareSendsIrqs' /\ SchedType'
    BY <1>4 DEF CheckLocked, heapVars, schedVars, TypeInv, HeapType, SchedType,
                HardwareSendsIrqs
  <2>2. seen' \in [Procs -> MsgOrNull] /\ held' = held /\ UNCHANGED irqVars
    BY <1>0, <1>4 DEF CheckLocked
  <2>3. CASE \E m \in Msgs : /\ Behead(p, m) /\ Unlink(m)
                            /\ msg' = [msg EXCEPT ![p] = m]
                            /\ Goto(p, "got")
    <3>1. PICK m \in Msgs : /\ Behead(p, m) /\ Unlink(m)
                            /\ msg' = [msg EXCEPT ![p] = m]
                            /\ Goto(p, "got")
      BY <2>3
    <3>2. LinkType'
      BY <3>1 DEF Behead, Unlink, TypeInv, LinkType, MsgOrNull
    <3>3. ProcType' /\ IrqType' /\ HasMsg' /\ HasFrame'
      BY <1>0, <2>2, <3>1, MoveType DEF MsgOrNull
    <3> QED
      BY <2>1, <3>2, <3>3 DEF TypeInv
  <2>4. CASE Goto(p, "sleep") /\ UNCHANGED <<msg, linkVars>>
    <3>1. LinkType'
      BY <2>4 DEF linkVars, TypeInv, LinkType
    <3>2. ProcType' /\ IrqType' /\ HasMsg' /\ HasFrame'
      BY <1>0, <2>2, <2>4, MoveTypeSame
    <3> QED
      BY <2>1, <3>1, <3>2 DEF TypeInv
  <2> QED
    BY <1>4, <2>3, <2>4 DEF CheckLocked
<1>5. CASE SleepLocked(p)
  <2>1. ProcType' /\ IrqType' /\ HasMsg' /\ HasFrame'
    BY <1>0, <1>5, MoveTypeSame DEF SleepLocked
  <2>2. HeapType' /\ LinkType' /\ HardwareSendsIrqs' /\ SchedType'
    BY <1>5 DEF SleepLocked, heapVars, linkVars, TypeInv, HeapType, LinkType,
                SchedType, HardwareSendsIrqs
  <2> QED
    BY <2>1, <2>2 DEF TypeInv
<1>6. CASE SleepSched(p)
  <2>1. ProcType' /\ IrqType' /\ HasMsg' /\ HasFrame'
    BY <1>0, <1>6, MoveTypeSame DEF SleepSched
  <2>2. SchedType'
    BY <1>6, SchedTypes DEF SleepSched
  <2>3. HeapType' /\ LinkType' /\ HardwareSendsIrqs'
    BY <1>6 DEF SleepSched, heapVars, linkVars, TypeInv, HeapType, LinkType,
                HardwareSendsIrqs
  <2> QED
    BY <2>1, <2>2, <2>3 DEF TypeInv
<1>7. CASE ReplyEnd(p)
  <2>1. msg[p] \in Msgs
    BY <1>7 DEF ReplyEnd, At, TypeInv, HasMsg
  <2>2. ProcType' /\ IrqType' /\ HasMsg' /\ HasFrame'
    BY <1>0, <1>7, <2>1, MoveTypeSame DEF ReplyEnd
  <2>3. HeapType' /\ LinkType' /\ HardwareSendsIrqs' /\ SchedType'
    BY <1>7 DEF ReplyEnd, heapVars, linkVars, schedVars, TypeInv, HeapType,
                LinkType, SchedType, HardwareSendsIrqs
  <2> QED
    BY <2>2, <2>3 DEF TypeInv
<1> QED
  BY <1>1, <1>2, <1>3, <1>4, <1>5, <1>6, <1>7 DEF Common

\* The exchange of msg_reply, for a message a process sent.
LEMMA ReplyType ==
  ASSUME TypeInv, NEW p \in Procs, msg[p] \in Msgs, op[msg[p]] # "IRQ",
         ReplyBegin(p)
  PROVE  TypeInv'
<1> USE ProcsFacts
<1>1. from[msg[p]] \in Procs /\ to[msg[p]] \in Procs
  BY DEF TypeInv, HeapType, HardwareSendsIrqs, Pids
<1>2. HeapType' /\ HardwareSendsIrqs'
  BY <1>1 DEF ReplyBegin, TypeInv, HeapType, HardwareSendsIrqs
<1>3. LinkType' /\ SchedType'
  BY DEF ReplyBegin, linkVars, schedVars, TypeInv, LinkType, SchedType
<1>4. held' \in [Procs -> MsgOrNull] /\ seen' \in [Procs -> MsgOrNull]
  BY DEF ReplyBegin, TypeInv, ProcType
<1>5. ProcType' /\ IrqType' /\ HasMsg' /\ HasFrame'
  BY <1>4, MoveTypeSame DEF ReplyBegin, Labels
<1> QED
  BY <1>2, <1>3, <1>5 DEF TypeInv

\* A step that frees p's message and moves p.
LEMMA FreeMoveType ==
  ASSUME TypeInv, NEW p \in Procs, At(p, "got"), msg_free(msg[p]),
         NEW x \in MsgOrNull, msg' = [msg EXCEPT ![p] = x],
         NEW l \in Labels, Goto(p, l), l \in HasMsgAt => x \in Msgs,
         held' \in [Procs -> MsgOrNull], UNCHANGED <<seen, schedVars, irqVars>>
  PROVE  TypeInv'
<1>1. msg[p] \in Msgs
  BY DEF At, TypeInv, HasMsg, HasMsgAt
<1>2. HeapType' /\ LinkType' /\ HardwareSendsIrqs'
  BY <1>1, FreeType
<1>3. SchedType' /\ seen' \in [Procs -> MsgOrNull]
  BY DEF TypeInv, SchedType, schedVars, ProcType
<1>4. ProcType' /\ IrqType' /\ HasMsg' /\ HasFrame'
  BY <1>3, MoveType
<1> QED
  BY <1>2, <1>3, <1>4 DEF TypeInv

\* A step that makes a message, keeps it in msg, and moves p to "send".
LEMMA AllocMoveType ==
  ASSUME TypeInv, NEW p \in Procs, NEW dst \in Procs, NEW o \in Ops,
         NEW m \in Msgs, msg_alloc(m, p, dst, o),
         msg' = [msg EXCEPT ![p] = m], Goto(p, "send"),
         held' \in [Procs -> MsgOrNull], UNCHANGED <<seen, schedVars, irqVars>>
  PROVE  TypeInv'
<1> USE ProcsFacts
<1>1. HeapType' /\ LinkType' /\ HardwareSendsIrqs'
  BY AllocType
<1>2. SchedType' /\ seen' \in [Procs -> MsgOrNull]
  BY DEF TypeInv, SchedType, schedVars, ProcType
<1>3. ProcType' /\ IrqType' /\ HasMsg' /\ HasFrame'
  BY <1>2, MoveType DEF MsgOrNull, Labels
<1> QED
  BY <1>1, <1>2, <1>3 DEF TypeInv

\* The clients' own steps keep the types.
LEMMA ClientType ==
  ASSUME TypeInv, NEW c \in Clients, Client(c)
  PROVE  TypeInv'
<1> USE ProcsFacts
<1>0. c \in Procs /\ NULL \in MsgOrNull /\ held \in [Procs -> MsgOrNull]
  BY DEF MsgOrNull, TypeInv, ProcType
<1>1. CASE ClientCall(c)
  <2>1. PICK m \in Msgs, o \in Requests : /\ msg_alloc(m, c, FS, o)
                                         /\ msg' = [msg EXCEPT ![c] = m]
    BY <1>1 DEF ClientCall
  <2>2. o \in Ops
    BY IpcAssumption DEF Ops
  <2> QED
    BY <1>0, <1>1, <2>1, <2>2, AllocMoveType DEF ClientCall
<1>2. CASE ClientReturn(c)
  BY <1>0, <1>2, FreeMoveType DEF ClientReturn, Labels, HasMsgAt
<1> QED
  BY <1>1, <1>2 DEF Client

\* The file system's own steps keep the types.
LEMMA FsType ==
  ASSUME TypeInv, Fs
  PROVE  TypeInv'
<1> USE ProcsFacts
<1>0. /\ NULL \in MsgOrNull /\ held \in [Procs -> MsgOrNull]
      /\ msg \in [Procs -> MsgOrNull] /\ seen \in [Procs -> MsgOrNull]
  BY DEF MsgOrNull, TypeInv, ProcType
<1>1. CASE FsAskDriver
  <2>1. PICK m \in Msgs : /\ msg_alloc(m, FS, Driver, "SYS_READ")
                         /\ msg' = [msg EXCEPT ![FS] = m]
    BY <1>1 DEF FsAskDriver
  <2>2. "SYS_READ" \in Ops
    BY DEF Ops, SysCalls
  <2>3. held' \in [Procs -> MsgOrNull]
    BY <1>0, <1>1 DEF FsAskDriver
  <2> QED
    BY <1>1, <2>1, <2>2, <2>3, AllocMoveType DEF FsAskDriver
<1>2. CASE FsDriverDone
  <2>1. held[FS] \in Msgs
    BY <1>0, <1>2 DEF FsDriverDone, MsgOrNull
  <2>2. held' \in [Procs -> MsgOrNull] /\ held[FS] \in MsgOrNull
    BY <1>0, <1>2 DEF FsDriverDone
  <2> QED
    BY <1>2, <2>1, <2>2, FreeMoveType DEF FsDriverDone, Labels
<1>3. CASE FsReply
  <2>1. msg[FS] \in Msgs
    BY <1>3 DEF FsReply, FsServed, TypeInv, HasMsg, HasMsgAt
  <2> QED
    BY <1>3, <2>1, ReplyType DEF FsReply
<1>4. CASE FsFree
  <2>1. msg[FS] \in Msgs
    BY <1>4 DEF FsFree, FsServed, TypeInv, HasMsg, HasMsgAt
  <2>2. HeapType' /\ LinkType' /\ HardwareSendsIrqs'
    BY <1>4, <2>1, FreeType DEF FsFree
  <2>3. SchedType'
    BY <1>4 DEF FsFree, TypeInv, SchedType, schedVars
  <2>4. ProcType' /\ IrqType' /\ HasMsg' /\ HasFrame'
    BY <1>0, <1>4, MoveType DEF FsFree, Labels, HasMsgAt
  <2> QED
    BY <2>2, <2>3, <2>4 DEF TypeInv
<1> QED
  BY <1>1, <1>2, <1>3, <1>4 DEF Fs

\* The driver's own steps keep the types.
LEMMA DrvrType ==
  ASSUME TypeInv, Drvr
  PROVE  TypeInv'
<1> USE ProcsFacts
<1>1. CASE DriverReply
  <2>1. msg[Driver] \in Msgs
    BY <1>1 DEF DriverReply, At, TypeInv, HasMsg, HasMsgAt
  <2> QED
    BY <1>1, <2>1, ReplyType DEF DriverReply
<1>2. CASE DriverIrq
  <2>1. NULL \in MsgOrNull /\ held \in [Procs -> MsgOrNull]
    BY DEF MsgOrNull, TypeInv, ProcType
  <2> QED
    BY <1>2, <2>1, FreeMoveType DEF DriverIrq, Labels, HasMsgAt
<1> QED
  BY <1>1, <1>2 DEF Drvr

\* Interrupt handlers keep the types.
LEMMA IrqStepType ==
  ASSUME TypeInv, NEW p \in Procs, Irq(p)
  PROVE  TypeInv'
<1> USE ProcsFacts
<1>1. CASE IrqAlloc(p)
  <2>1. PICK m \in Msgs : /\ msg_alloc(m, HARDWARE, Driver, "IRQ")
                         /\ frame' = [frame EXCEPT ![p] = m]
    BY <1>1 DEF IrqAlloc
  <2>2. HeapType' /\ LinkType' /\ HardwareSendsIrqs'
    BY <2>1, AllocType DEF Ops
  <2>3. SchedType' /\ ProcType' /\ HasMsg'
    BY <1>1 DEF IrqAlloc, schedVars, procVars, TypeInv, SchedType, ProcType, HasMsg
  <2>4. IrqType' /\ HasFrame'
    BY <1>1, <2>1 DEF IrqAlloc, TypeInv, IrqType, HasFrame, MsgOrNull
  <2> QED
    BY <2>2, <2>3, <2>4 DEF TypeInv
<1>2. CASE IrqSendLocked(p)
  <2>1. frame[p] \in Msgs
    BY <1>2 DEF IrqSendLocked, TypeInv, HasFrame
  <2>2. HeapType' /\ LinkType' /\ HardwareSendsIrqs'
    BY <1>2, <2>1, SendType DEF IrqSendLocked
  <2>3. SchedType' /\ ProcType' /\ HasMsg'
    BY <1>2 DEF IrqSendLocked, schedVars, procVars, TypeInv, SchedType, ProcType,
                HasMsg
  <2>4. IrqType' /\ HasFrame'
    BY <1>2, <2>1 DEF IrqSendLocked, TypeInv, IrqType, HasFrame
  <2> QED
    BY <2>2, <2>3, <2>4 DEF TypeInv
<1>3. CASE IrqSendWake(p)
  <2>1. frame[p] \in Msgs
    BY <1>3 DEF IrqSendWake, TypeInv, HasFrame
  <2>2. WakeTargets(frame[p]) \subseteq Procs
    BY <2>1 DEF WakeTargets, TypeInv, HeapType
  <2>3. SchedType'
    BY <1>3, <2>2, WakeType DEF IrqSendWake
  <2>4. HeapType' /\ LinkType' /\ HardwareSendsIrqs' /\ ProcType' /\ HasMsg'
    BY <1>3 DEF IrqSendWake, heapVars, linkVars, procVars, TypeInv, HeapType,
                LinkType, HardwareSendsIrqs, ProcType, HasMsg
  <2>5. IrqType' /\ HasFrame'
    BY <1>3 DEF IrqSendWake, TypeInv, IrqType, HasFrame, MsgOrNull
  <2> QED
    BY <2>3, <2>4, <2>5 DEF TypeInv
<1> QED
  BY <1>1, <1>2, <1>3 DEF Irq

\* Every step keeps the types.
LEMMA NextType == TypeInv /\ [Next]_vars => TypeInv'
<1> SUFFICES ASSUME TypeInv, [Next]_vars PROVE TypeInv'
  OBVIOUS
<1>1. CASE Tick
  <2>1. SchedType'
    BY <1>1, SchedTypes DEF Tick
  <2>2. HeapType' /\ LinkType' /\ ProcType' /\ IrqType'
    BY <1>1 DEF Tick, heapVars, linkVars, procVars, irqVars, TypeInv, HeapType,
                LinkType, ProcType, IrqType
  <2>3. HasMsg' /\ HasFrame' /\ HardwareSendsIrqs'
    BY <1>1 DEF Tick, heapVars, procVars, irqVars, TypeInv, HasMsg, HasFrame,
                HardwareSendsIrqs
  <2> QED
    BY <2>1, <2>2, <2>3 DEF TypeInv
<1>2. CASE UNCHANGED vars
  <2>1. HeapType' /\ LinkType' /\ ProcType' /\ IrqType' /\ SchedType'
    BY <1>2 DEF vars, heapVars, linkVars, procVars, irqVars, schedVars, TypeInv,
                HeapType, LinkType, ProcType, IrqType, SchedType
  <2>2. HasMsg' /\ HasFrame' /\ HardwareSendsIrqs'
    BY <1>2 DEF vars, heapVars, procVars, irqVars, TypeInv, HasMsg, HasFrame,
                HardwareSendsIrqs
  <2> QED
    BY <2>1, <2>2 DEF TypeInv
<1> QED
  BY <1>1, <1>2, CommonType, ClientType, FsType, DrvrType, IrqStepType DEF Next

\* Every reachable state is well typed; in particular no message is ever sent to
\* the hardware, whatever is answered, freed or interrupted (message.c:201-213).
THEOREM TypeCorrect == Spec => []TypeOK
<1>1. Spec => []TypeInv
  BY InitType, NextType, PTL DEF Spec
<1> QED
  BY <1>1, TypeInvTypeOK, PTL

-----------------------------------------------------------------------------
(* Rings.                                                                    *)

RingSet(Q, h) == Q \subseteq Msgs /\ (h = NULL => Q = {}) /\ (h # NULL => h \in Q)

RingLinks(Q, n, pr) ==
  \A x \in Q : n[x] \in Q /\ pr[x] \in Q /\ pr[n[x]] = x /\ n[pr[x]] = x

RingRank(Q, h, n, k) ==
  /\ \A x \in Q : k[h] <= k[x] /\ (n[x] # h => k[x] < k[n[x]])
  /\ \A x, y \in Q : k[x] = k[y] => x = y
  /\ \A x, y \in Q : k[x] < k[y] => n[x] # h /\ k[n[x]] <= k[y]

\* The links n and pr make one ring of the messages of Q, with head h, or NULL
\* when there is none; rank k grows along n up to the tail, whose next is h.
RingOf(Q, h, n, pr, k) == RingSet(Q, h) /\ RingLinks(Q, n, pr) /\ RingRank(Q, h, n, k)

\* The links that msg_check leaves in a message m it takes out: m alone, or two
\* neighbours of a ring Q; the ring may have grown at its tail since then.
LeftLinks(m, Q, h, n, pr) ==
  \/ n[m] = m /\ pr[m] = m
  \/ pr[m] \in Q /\ n[m] \in Q /\ (n[pr[m]] = n[m] \/ n[m] = h)

\* What is left of ring Q when msg_free writes through those links: all of Q, or
\* what was in it up to pr[m] when m was taken out.
Kept(m, Q, n, pr, k) ==
  IF n[m] = m \/ n[pr[m]] = n[m] THEN Q ELSE {x \in Q : k[x] <= k[pr[m]]}

-----------------------------------------------------------------------------
(* The inductive invariant.  R[p] are the messages in p's mailbox.           *)

Last(s) == s[Len(s)]

TakenAt == {"got", "served"}
GivenAt == {"swap", "send"}

Rings(R, k) == \A p \in Procs : RingOf(R[p], mbox[p], next, prev, k)

InBox(R) == \A p \in Procs : \A m \in R[p] :
  /\ m \in live /\ to[m] = p
  /\ Len(rally[m]) >= 2
  /\ Last(rally[m]) = p /\ rally[m][Len(rally[m]) - 1] = from[m]

Hands(R) ==
  /\ \A p, q \in Procs :
       /\ InHand(p) \cap InFrame(q) = {}
       /\ p # q => /\ InHand(p) \cap InHand(q) = {}
                   /\ InFrame(p) \cap InFrame(q) = {}
       /\ (InHand(p) \cup InFrame(p)) \cap R[q] = {}
  /\ \A p \in Procs : InHand(p) \cup InFrame(p) \subseteq live
  /\ \A p \in Procs : held[p] # NULL => p = FS /\ held[p] # msg[p]

\* The recipients of what is in hand, and its rally.
Told ==
  /\ \A p \in Procs : pc[p] \in TakenAt =>
       to[msg[p]] = p /\ Len(rally[msg[p]]) >= 1 /\ Last(rally[msg[p]]) = p
  /\ \A p \in Procs : pc[p] \in GivenAt =>
       \/ rally[msg[p]] = <<>>
       \/ Len(rally[msg[p]]) >= 1 /\ Last(rally[msg[p]]) = from[msg[p]]
  /\ \A p \in Procs : fpc[p] = "send" => rally[frame[p]] = <<>>
  /\ held[FS] # NULL =>
       to[held[FS]] = FS /\ Len(rally[held[FS]]) >= 1 /\ Last(rally[held[FS]]) = FS

\* The links left in the messages that have been taken out.  The driver's answer,
\* which the file system takes while it holds a request, is not one of the
\* neighbours the request had, and nothing of the ring that was there before the
\* answer is lost with it.
Left(R, k) ==
  /\ \A p \in Procs : pc[p] \in TakenAt => LeftLinks(msg[p], R[p], mbox[p], next, prev)
  /\ held[FS] # NULL =>
       LET h == held[FS]  m == msg[FS] IN
       /\ LeftLinks(h, R[FS], mbox[FS], next, prev)
       /\ next[h] # h =>
            /\ from[prev[h]] # Driver /\ from[next[h]] # Driver
            /\ pc[FS] = "got" => {prev[h], next[h]} \subseteq Kept(m, R[FS], next, prev, k)

\* What the file system and the driver have to do with each other is one message:
\* the one the file system is waiting for.
Asked ==
  /\ \A m \in live :
       (from[m] = FS /\ to[m] = Driver) \/ (from[m] = Driver /\ to[m] = FS)
         => held[FS] # NULL /\ m = msg[FS]
  /\ pc[FS] # "wakeSync"
  /\ pc[FS] \in GivenAt => op[msg[FS]] = "SYS_READ"

\* msg_check's early read of the head stays right, unless it found the mailbox empty.
SeenHead == \A p \in Procs : pc[p] = "lock" /\ seen[p] # NULL => seen[p] = mbox[p]

OwnInv(R, k) ==
  /\ R \in [Procs -> SUBSET Msgs] /\ k \in [Msgs -> Nat]
  /\ Rings(R, k) /\ InBox(R) /\ Hands(R) /\ Told /\ Left(R, k) /\ Asked /\ SeenHead

-----------------------------------------------------------------------------
(* What the operations on links do to a ring.                                *)

\* The links of messages outside a ring do not matter to it.
LEMMA RingSame ==
  ASSUME NEW Q, NEW h, NEW n, NEW pr, NEW k, NEW n2, NEW pr2, NEW k2,
         RingOf(Q, h, n, pr, k),
         \A x \in Q : n2[x] = n[x] /\ pr2[x] = pr[x] /\ k2[x] = k[x]
  PROVE  RingOf(Q, h, n2, pr2, k2)
BY DEF RingOf, RingSet, RingLinks, RingRank

\* msg_send puts a message at the tail.
LEMMA RingAppend ==
  ASSUME NEW Q, NEW h \in MsgOrNull, NEW n \in [Msgs -> Msgs], NEW pr \in [Msgs -> Msgs],
         NEW k \in [Msgs -> Nat], RingOf(Q, h, n, pr, k), h # NULL,
         NEW m \in Msgs \ Q
  PROVE  RingOf(Q \cup {m}, h, [n EXCEPT ![m] = h, ![pr[h]] = m],
                [pr EXCEPT ![m] = pr[h], ![h] = m], [k EXCEPT ![m] = k[pr[h]] + 1])
<1> DEFINE t == pr[h]
           n2 == [n EXCEPT ![m] = h, ![pr[h]] = m]
           pr2 == [pr EXCEPT ![m] = pr[h], ![h] = m]
           k2 == [k EXCEPT ![m] = k[pr[h]] + 1]
<1>0. RingSet(Q, h) /\ RingLinks(Q, n, pr) /\ RingRank(Q, h, n, k)
  BY DEF RingOf
<1>1. h \in Q /\ t \in Q /\ n[t] = h /\ Q \subseteq Msgs
  BY <1>0 DEF RingSet, RingLinks
<1>2. \A x \in Q : k[x] <= k[t]
  BY <1>0, <1>1 DEF RingRank
<1>3. n2[m] = h /\ n2[t] = m /\ \A x \in Q : x # t => n2[x] = n[x]
  BY <1>1
<1>4. pr2[m] = t /\ pr2[h] = m /\ \A x \in Q : x # h => pr2[x] = pr[x]
  BY <1>1
<1>5. k2[m] = k[t] + 1 /\ \A x \in Q : k2[x] = k[x]
  BY <1>1
<1>6. \A x \in Q : x # t => n[x] # h
  BY <1>0, <1>1 DEF RingLinks
<1> HIDE DEF t, n2, pr2, k2
<1>7. RingSet(Q \cup {m}, h)
  BY <1>0, <1>1 DEF RingSet
<1>8. RingLinks(Q \cup {m}, n2, pr2)
  BY <1>0, <1>1, <1>3, <1>4, <1>6 DEF RingLinks
<1>9. RingRank(Q \cup {m}, h, n2, k2)
  <2>1. \A x \in Q : k2[x] = k[x] /\ k[x] \in Nat /\ k[x] <= k[t]
    BY <1>1, <1>2, <1>5
  <2>2. k2[m] \in Nat /\ \A x \in Q : k2[x] < k2[m]
    BY <1>1, <1>5, <2>1
  <2>3. \A x \in Q \cup {m} : k2[h] <= k2[x]
    BY <1>0, <1>1, <2>1, <2>2 DEF RingRank
  <2>4. \A x \in Q \cup {m} : n2[x] # h => k2[x] < k2[n2[x]]
    BY <1>0, <1>1, <1>3, <2>1, <2>2 DEF RingRank, RingLinks
  <2>5. \A x, y \in Q \cup {m} : k2[x] = k2[y] => x = y
    BY <1>0, <2>1, <2>2 DEF RingRank
  <2>6. \A x, y \in Q \cup {m} : k2[x] < k2[y] => n2[x] # h /\ k2[n2[x]] <= k2[y]
    <3> SUFFICES ASSUME NEW x \in Q \cup {m}, NEW y \in Q \cup {m}, k2[x] < k2[y]
                 PROVE  n2[x] # h /\ k2[n2[x]] <= k2[y]
      OBVIOUS
    <3>1. x \in Q
      BY <2>1, <2>2
    <3>2. CASE x = t
      BY <1>1, <1>3, <2>1, <2>2, <3>2
    <3>3. CASE x # t
      <4>1. n2[x] = n[x] /\ n[x] # h /\ n[x] \in Q
        BY <1>0, <1>3, <1>6, <3>1, <3>3 DEF RingLinks
      <4>2. CASE y = m
        BY <2>1, <2>2, <4>1, <4>2
      <4>3. CASE y \in Q
        BY <1>0, <2>1, <3>1, <4>1, <4>3 DEF RingRank
      <4> QED
        BY <4>2, <4>3
    <3> QED
      BY <3>2, <3>3
  <2> QED
    BY <2>3, <2>4, <2>5, <2>6 DEF RingRank
<1>10. RingOf(Q \cup {m}, h, n2, pr2, k2)
  BY <1>7, <1>8, <1>9 DEF RingOf
<1> QED
  BY <1>10 DEF n2, pr2, k2, t

\* ... which may be empty.
LEMMA RingFirst ==
  ASSUME NEW n \in [Msgs -> Msgs], NEW pr \in [Msgs -> Msgs], NEW k \in [Msgs -> Nat],
         NEW m \in Msgs
  PROVE  RingOf({m}, m, [n EXCEPT ![m] = m], [pr EXCEPT ![m] = m], k)
<1>1. m # NULL
  BY ProcsFacts
<1>2. RingRank({m}, m, [n EXCEPT ![m] = m], k)
  BY DEF RingRank
<1> QED
  BY <1>1, <1>2 DEF RingOf, RingSet, RingLinks

\* msg_check takes a message out.
LEMMA RingRemove ==
  ASSUME NEW Q, NEW h \in Msgs, NEW n \in [Msgs -> Msgs], NEW pr \in [Msgs -> Msgs],
         NEW k \in [Msgs -> Nat], RingOf(Q, h, n, pr, k), NEW m \in Q,
         NEW h2, h = m /\ n[m] = m => h2 = NULL, h = m /\ n[m] # m => h2 = n[m],
         h # m => h2 = h
  PROVE  RingOf(Q \ {m}, h2, [n EXCEPT ![pr[m]] = n[m]], [pr EXCEPT ![n[m]] = pr[m]], k)
<1> DEFINE n2 == [n EXCEPT ![pr[m]] = n[m]]
           pr2 == [pr EXCEPT ![n[m]] = pr[m]]
<1>0. RingSet(Q, h) /\ RingLinks(Q, n, pr) /\ RingRank(Q, h, n, k)
  BY DEF RingOf
<1>1. /\ m \in Msgs /\ h \in Q /\ Q \subseteq Msgs /\ n[m] \in Q /\ pr[m] \in Q
      /\ n[pr[m]] = m /\ pr[n[m]] = m /\ NULL \notin Msgs
  BY <1>0, ProcsFacts DEF RingSet, RingLinks
<1>2. n2[pr[m]] = n[m] /\ \A x \in Q : x # pr[m] => n2[x] = n[x]
  BY <1>1
<1>3. pr2[n[m]] = pr[m] /\ \A x \in Q : x # n[m] => pr2[x] = pr[x]
  BY <1>1
<1> HIDE DEF n2, pr2
<1>4. CASE n[m] = m
  <2>1. h = m
    BY <1>0, <1>1, <1>4 DEF RingRank
  <2>2. \A x \in Q : k[x] = k[m]
    BY <1>0, <1>1, <1>4, <2>1 DEF RingRank
  <2>3. Q \ {m} = {}
    BY <1>0, <1>1, <2>2 DEF RingRank
  <2>4. h2 = NULL
    BY <1>4, <2>1
  <2> QED
    BY <2>3, <2>4 DEF RingOf, RingSet, RingLinks, RingRank
<1>5. CASE n[m] # m
  <2>1. pr[m] # m /\ h2 \in Q \ {m} /\ h2 # NULL
    BY <1>1, <1>5
  <2>2. RingLinks(Q \ {m}, n2, pr2)
    BY <1>0, <1>1, <1>2, <1>3, <1>5, <2>1 DEF RingLinks
  <2>3. RingSet(Q \ {m}, h2)
    BY <1>1, <2>1 DEF RingSet
  <2>4. \A x \in Q \ {m} : x # pr[m] => n2[x] = n[x] /\ n[x] # m
    BY <1>0, <1>2 DEF RingLinks
  <2>5. CASE h = m
    <3>1. h2 = n[m] /\ n2[pr[m]] = h2
      BY <1>2, <1>5, <2>5
    <3>2. \A x \in Q \ {m} : k[m] < k[x] /\ k[h2] <= k[x]
      <4> SUFFICES ASSUME NEW x \in Q \ {m} PROVE k[m] < k[x] /\ k[h2] <= k[x]
        OBVIOUS
      <4>1. k[m] < k[x]
        BY <1>0, <1>1, <2>5 DEF RingRank
      <4> QED
        BY <1>0, <1>1, <3>1, <4>1 DEF RingRank
    <3>3. \A x \in Q \ {m} : x # pr[m] => n[x] # h2
      BY <1>0, <1>1, <3>1 DEF RingLinks
    <3>4. n[pr[m]] = h
      BY <1>1, <2>5
    <3>5. \A x, y \in Q : k[x] < k[y] => x # pr[m]
      BY <1>0, <1>1, <3>4 DEF RingRank
    <3>6. \A x \in Q \ {m} : n2[x] # h2 => k[x] < k[n2[x]]
      BY <1>0, <1>2, <2>4, <2>5, <3>1 DEF RingRank
    <3>7. \A x, y \in Q \ {m} : k[x] < k[y] => n2[x] # h2 /\ k[n2[x]] <= k[y]
      BY <1>0, <2>4, <2>5, <3>3, <3>5 DEF RingRank
    <3>8. RingRank(Q \ {m}, h2, n2, k)
      BY <1>0, <3>2, <3>6, <3>7 DEF RingRank
    <3> QED
      BY <2>2, <2>3, <3>8 DEF RingOf, n2, pr2
  <2>6. CASE h # m
    <3>1. h2 = h /\ n[pr[m]] # h /\ k[pr[m]] < k[m]
      BY <1>0, <1>1, <2>6 DEF RingRank
    <3>2. n[m] # h => k[m] < k[n[m]]
      BY <1>0, <1>1 DEF RingRank
    <3>3. \A x \in Q \ {m} : n2[x] # h2 => k[x] < k[n2[x]]
      <4> SUFFICES ASSUME NEW x \in Q \ {m}, n2[x] # h2 PROVE k[x] < k[n2[x]]
        OBVIOUS
      <4>1. CASE x = pr[m]
        BY <1>1, <1>2, <3>1, <3>2, <4>1
      <4>2. CASE x # pr[m]
        BY <1>0, <2>4, <3>1, <4>2 DEF RingRank
      <4> QED
        BY <4>1, <4>2
    <3>4. \A x, y \in Q \ {m} : k[x] < k[y] => n2[x] # h2 /\ k[n2[x]] <= k[y]
      <4> SUFFICES ASSUME NEW x \in Q \ {m}, NEW y \in Q \ {m}, k[x] < k[y]
                   PROVE n2[x] # h2 /\ k[n2[x]] <= k[y]
        OBVIOUS
      <4>1. CASE x = pr[m]
        <5>1. k[m] <= k[y]
          BY <1>0, <1>1, <4>1 DEF RingRank
        <5>2. k[m] < k[y]
          BY <1>0, <1>1, <5>1 DEF RingRank
        <5>3. n[m] # h /\ k[n[m]] <= k[y]
          BY <1>0, <1>1, <5>2 DEF RingRank
        <5> QED
          BY <1>2, <3>1, <4>1, <5>3
      <4>2. CASE x # pr[m]
        BY <1>0, <2>4, <3>1, <4>2 DEF RingRank
      <4> QED
        BY <4>1, <4>2
    <3>5. RingRank(Q \ {m}, h2, n2, k)
      BY <1>0, <3>1, <3>3, <3>4 DEF RingRank
    <3> QED
      BY <2>2, <2>3, <3>5 DEF RingOf, n2, pr2
  <2> QED
    BY <2>5, <2>6
<1> QED
  BY <1>4, <1>5

\* msg_free writes through the links left in a message that is in no ring.
LEMMA RingRelink ==
  ASSUME NEW Q, NEW h \in MsgOrNull, NEW n \in [Msgs -> Msgs], NEW pr \in [Msgs -> Msgs],
         NEW k \in [Msgs -> Nat], RingOf(Q, h, n, pr, k), NEW m \in Msgs \ Q,
         LeftLinks(m, Q, h, n, pr)
  PROVE  RingOf(Kept(m, Q, n, pr, k), h, [n EXCEPT ![pr[m]] = n[m], ![m] = m],
                [pr EXCEPT ![n[m]] = pr[m], ![m] = m], k)
<1> DEFINE a == pr[m]
           b == n[m]
           n2 == [n EXCEPT ![pr[m]] = n[m], ![m] = m]
           pr2 == [pr EXCEPT ![n[m]] = pr[m], ![m] = m]
           S == {x \in Q : k[x] <= k[a]}
<1>0. RingSet(Q, h) /\ RingLinks(Q, n, pr) /\ RingRank(Q, h, n, k)
  BY DEF RingOf
<1>1. CASE n[m] = m \/ n[a] = b
  <2>0. Q \subseteq Msgs
    BY <1>0 DEF RingSet
  <2>a. ASSUME n[m] = m
        PROVE  \A x \in Q : n2[x] = n[x] /\ pr2[x] = pr[x]
    <3>1. pr[m] = m
      BY <2>a DEF LeftLinks
    <3> QED
      BY <2>0, <2>a, <3>1
  <2>b. ASSUME n[m] # m, n[a] = b
        PROVE  \A x \in Q : n2[x] = n[x] /\ pr2[x] = pr[x]
    <3>1. a \in Q /\ b \in Q
      BY <2>b DEF LeftLinks
    <3>2. pr[b] = a
      BY <1>0, <2>b, <3>1 DEF RingLinks
    <3> QED
      BY <2>0, <2>b, <3>1, <3>2
  <2>1. \A x \in Q : n2[x] = n[x] /\ pr2[x] = pr[x]
    BY <1>1, <2>a, <2>b
  <2> HIDE DEF n2, pr2
  <2>2. RingOf(Q, h, n2, pr2, k)
    BY <2>1, RingSame
  <2>3. Kept(m, Q, n, pr, k) = Q
    BY <1>1 DEF Kept
  <2> QED
    BY <2>2, <2>3 DEF n2, pr2
<1>2. CASE n[m] # m /\ n[a] # b
  <2>1. a \in Q /\ b \in Q /\ b = h /\ h \in Q /\ Q \subseteq Msgs /\ h # NULL /\ b # m /\ a # m
    BY <1>0, <1>2, ProcsFacts DEF LeftLinks, RingSet
  <2>2. n2[a] = h /\ \A x \in Q : x # a => n2[x] = n[x]
    BY <2>1
  <2>3. pr2[h] = a /\ \A x \in Q : x # h => pr2[x] = pr[x]
    BY <2>1
  <2>4. S = Kept(m, Q, n, pr, k)
    BY <1>2 DEF Kept
  <2>0. \A x \in Q : k[x] \in Nat
    BY <2>1
  <2> HIDE DEF n2, pr2
  <2>5. h \in S /\ a \in S /\ S \subseteq Q
    BY <1>0, <2>0, <2>1 DEF RingRank
  <2>6. \A x \in S : x # a => k[x] < k[a] /\ n[x] # h /\ n[x] \in S
    <3> SUFFICES ASSUME NEW x \in S, x # a PROVE k[x] < k[a] /\ n[x] # h /\ n[x] \in S
      OBVIOUS
    <3>1. k[x] < k[a]
      BY <1>0, <2>0, <2>1 DEF RingRank
    <3>2. n[x] # h /\ k[n[x]] <= k[a]
      BY <1>0, <2>1, <3>1 DEF RingRank
    <3> QED
      BY <1>0, <3>1, <3>2 DEF RingLinks
  <2>7. \A x \in S : x # h => pr[x] \in S /\ pr[x] # a
    <3> SUFFICES ASSUME NEW x \in S, x # h PROVE pr[x] \in S /\ pr[x] # a
      OBVIOUS
    <3>1. pr[x] \in Q /\ n[pr[x]] = x
      BY <1>0 DEF RingLinks
    <3>2. k[pr[x]] < k[x]
      BY <1>0, <3>1 DEF RingRank
    <3> QED
      BY <2>0, <2>1, <3>1, <3>2
  <2>8. RingLinks(S, n2, pr2)
    <3>1. \A x \in S : n2[x] \in S /\ pr2[x] \in S
      BY <2>2, <2>3, <2>5, <2>6, <2>7
    <3>2. \A x \in S : pr2[n2[x]] = x /\ n2[pr2[x]] = x
      BY <1>0, <2>2, <2>3, <2>5, <2>6, <2>7 DEF RingLinks
    <3> QED
      BY <3>1, <3>2 DEF RingLinks
  <2>9. RingRank(S, h, n2, k)
    <3>1. \A x \in S : k[h] <= k[x] /\ (n2[x] # h => k[x] < k[n2[x]])
      BY <1>0, <2>2, <2>5, <2>6 DEF RingRank
    <3>2. \A x, y \in S : k[x] < k[y] => n2[x] # h /\ k[n2[x]] <= k[y]
      <4> SUFFICES ASSUME NEW x \in S, NEW y \in S, k[x] < k[y]
                   PROVE n2[x] # h /\ k[n2[x]] <= k[y]
        OBVIOUS
      <4>1. x # a
        BY <2>0, <2>1
      <4> QED
        BY <1>0, <2>2, <2>6, <4>1 DEF RingRank
    <3> QED
      BY <1>0, <2>5, <3>1, <3>2 DEF RingRank
  <2>10. RingSet(S, h)
    BY <2>1, <2>5 DEF RingSet
  <2> HIDE DEF S
  <2>11. RingOf(S, h, n2, pr2, k)
    BY <2>8, <2>9, <2>10 DEF RingOf
  <2> QED
    BY <2>4, <2>11 DEF n2, pr2
<1> QED
  BY <1>1, <1>2

-----------------------------------------------------------------------------
(* The operations of message.c on the rings of all mailboxes.                *)

RankType == [Msgs -> Nat]
BoxType  == [Procs -> SUBSET Msgs]

\* msg_alloc: the new message is in no mailbox.
LEMMA AllocRings ==
  ASSUME TypeInv, NEW R \in BoxType, NEW k \in RankType, Rings(R, k), InBox(R),
         NEW m \in Msgs, NEW f, NEW dst, NEW o, msg_alloc(m, f, dst, o)
  PROVE  Rings(R, k)' /\ InBox(R)'
<1>1. /\ from \in [Msgs -> Pids] /\ to \in [Msgs -> Procs] /\ rally \in [Msgs -> Seq(Pids)]
      /\ next \in [Msgs -> Msgs] /\ prev \in [Msgs -> Msgs]
  BY DEF TypeInv, HeapType, LinkType
<1>2. \A p \in Procs : \A x \in R[p] : x # m /\ x \in Msgs
  BY DEF InBox, msg_alloc, BoxType
<1>3. \A p \in Procs : \A x \in R[p] : next'[x] = next[x] /\ prev'[x] = prev[x]
  BY <1>1, <1>2 DEF msg_alloc
<1>4. Rings(R, k)'
  <2> SUFFICES ASSUME NEW p \in Procs PROVE RingOf(R[p], mbox'[p], next', prev', k)
    BY DEF Rings
  <2>1. RingOf(R[p], mbox[p], next, prev, k)
    BY DEF Rings
  <2>2. RingOf(R[p], mbox[p], next', prev', k)
    BY <1>3, <2>1, RingSame
  <2> QED
    BY <2>2 DEF msg_alloc
<1>5. \A p \in Procs : \A x \in R[p] :
        to'[x] = to[x] /\ from'[x] = from[x] /\ rally'[x] = rally[x] /\ (x \in live => x \in live')
  BY <1>1, <1>2 DEF msg_alloc
<1>6. InBox(R)'
  BY <1>5 DEF InBox
<1> QED
  BY <1>4, <1>6

\* msg_free by p of a message it took out: p's ring may lose its newest messages.
LEMMA FreeRings ==
  ASSUME TypeInv, NEW R \in BoxType, NEW k \in RankType, Rings(R, k), InBox(R),
         NEW p \in Procs, NEW m \in Msgs, \A q \in Procs : m \notin R[q],
         LeftLinks(m, R[p], mbox[p], next, prev), msg_free(m),
         NEW R2 \in BoxType,
         R2 = [R EXCEPT ![p] = Kept(m, R[p], next, prev, k)]
  PROVE  Rings(R2, k)' /\ InBox(R2)' /\ mbox' = mbox /\ \A q \in Procs : R2[q] \subseteq R[q]
<1>1. /\ from \in [Msgs -> Pids] /\ to \in [Msgs -> Procs] /\ rally \in [Msgs -> Seq(Pids)]
      /\ next \in [Msgs -> Msgs] /\ prev \in [Msgs -> Msgs] /\ mbox \in [Procs -> MsgOrNull]
  BY DEF TypeInv, HeapType, LinkType
<1>2. \A q \in Procs : mbox[q] # m
  BY ProcsFacts DEF Rings, RingOf, RingSet
<1>3. mbox' = mbox
  BY <1>1, <1>2 DEF msg_free, Behead
<1>4. \A q \in Procs : R2[q] \subseteq R[q] /\ R[q] \subseteq Msgs
  BY DEF Kept, BoxType
<1>5. \A q \in Procs : \A x \in R2[q] : x # m /\ x \in Msgs
  BY <1>4
<1>6. \A q \in Procs : \A x \in R2[q] :
        to'[x] = to[x] /\ from'[x] = from[x] /\ rally'[x] = rally[x] /\ (x \in live => x \in live')
  BY <1>1, <1>5 DEF msg_free
<1>7. InBox(R2)'
  BY <1>4, <1>6 DEF InBox
<1>8. Rings(R2, k)'
  <2> SUFFICES ASSUME NEW q \in Procs PROVE RingOf(R2[q], mbox'[q], next', prev', k)
    BY DEF Rings
  <2>1. RingOf(R[q], mbox[q], next, prev, k)
    BY DEF Rings
  <2>2. CASE q = p
    <3>1. RingOf(Kept(m, R[p], next, prev, k), mbox[p], next', prev', k)
      BY <1>1, <2>1, <2>2, RingRelink DEF msg_free, RankType
    <3> QED
      BY <1>3, <2>2, <3>1 DEF BoxType
  <2>3. CASE q # p
    <3>1. R2[q] = R[q]
      BY <2>3 DEF BoxType
    <3>2. R[p] \cap R[q] = {}
      BY <2>3 DEF InBox
    <3>3. \A x \in R[q] : x # m /\ x # prev[m] /\ x # next[m]
      BY <3>2 DEF LeftLinks
    <3>4. \A x \in R[q] : next'[x] = next[x] /\ prev'[x] = prev[x]
      BY <1>1, <1>4, <3>3 DEF msg_free
    <3>5. RingOf(R[q], mbox[q], next', prev', k)
      BY <2>1, <3>4, RingSame
    <3> QED
      BY <1>3, <3>1, <3>5
  <2> QED
    BY <2>2, <2>3
<1> QED
  BY <1>3, <1>4, <1>7, <1>8

\* What the mailboxes and the ranks are when m has joined its recipient's.
Joined(R, k, m, R2, k2) ==
  /\ R2 \in BoxType /\ k2 \in RankType
  /\ R2 = [R EXCEPT ![to[m]] = R[to[m]] \cup {m}]
  /\ mbox[to[m]] = NULL => k2 = k
  /\ mbox[to[m]] # NULL => k2 = [k EXCEPT ![m] = k[prev[mbox[to[m]]]] + 1]

\* msg_send: the message is put last in its recipient's mailbox, and its rally ends with its sender
\* and its recipient.
LEMMA SendRings ==
  ASSUME TypeInv, NEW R \in BoxType, NEW k \in RankType, Rings(R, k), InBox(R),
         NEW m \in live, \A q \in Procs : m \notin R[q], msg_send(m),
         \/ rally[m] = <<>>
         \/ Len(rally[m]) >= 1 /\ Last(rally[m]) = from[m],
         NEW R2, NEW k2, Joined(R, k, m, R2, k2)
  PROVE  /\ Rings(R2, k2)' /\ InBox(R2)'
         /\ \A x \in Msgs \ {m} : k2[x] = k[x]
         /\ \A q \in Procs : mbox[q] # NULL => mbox'[q] = mbox[q]
<1>0. /\ R2 \in BoxType /\ k2 \in RankType
      /\ R2 = [R EXCEPT ![to[m]] = R[to[m]] \cup {m}]
      /\ mbox[to[m]] = NULL => k2 = k
      /\ mbox[to[m]] # NULL => k2 = [k EXCEPT ![m] = k[prev[mbox[to[m]]]] + 1]
  BY DEF Joined
<1> DEFINE d == to[m]
<1>1. /\ from \in [Msgs -> Pids] /\ to \in [Msgs -> Procs] /\ rally \in [Msgs -> Seq(Pids)]
      /\ next \in [Msgs -> Msgs] /\ prev \in [Msgs -> Msgs] /\ mbox \in [Procs -> MsgOrNull]
      /\ m \in Msgs /\ live \subseteq Msgs
  BY DEF TypeInv, HeapType, LinkType
<1>2. d \in Procs /\ mbox[d] \in MsgOrNull
  BY <1>1
<1>3. \A x \in Msgs \ {m} : k2[x] = k[x]
  BY <1>0 DEF RankType
<1>4. \A q \in Procs : q # d => mbox'[q] = mbox[q] /\ R2[q] = R[q]
  <2>1. \A q \in Procs : q # d => mbox'[q] = mbox[q]
    BY <1>1, <1>2 DEF msg_send
  <2>2. \A q \in Procs : q # d => R2[q] = R[q]
    BY <1>0, <1>2 DEF BoxType
  <2> QED
    BY <2>1, <2>2
<1>5. mbox[d] # NULL => mbox'[d] = mbox[d]
  BY <1>1, <1>2 DEF msg_send
<1>6. R2[d] = R[d] \cup {m}
  BY <1>0, <1>2 DEF BoxType
<1>7. Rings(R2, k2)'
  <2> SUFFICES ASSUME NEW q \in Procs PROVE RingOf(R2[q], mbox'[q], next', prev', k2)
    BY DEF Rings
  <2>1. RingOf(R[q], mbox[q], next, prev, k)
    BY DEF Rings
  <2>2. CASE q = d /\ mbox[d] = NULL
    <3>1. R[d] = {}
      BY <2>1, <2>2 DEF RingOf, RingSet
    <3>2. mbox'[d] = m /\ next' = [next EXCEPT ![m] = m] /\ prev' = [prev EXCEPT ![m] = m]
      BY <1>1, <1>2, <2>2 DEF msg_send
    <3>3. RingOf({m}, m, next', prev', k)
      BY <1>1, <3>2, RingFirst DEF RankType
    <3>4. R2[q] = {m} /\ mbox'[q] = m /\ k2 = k
      BY <1>0, <1>6, <2>2, <3>1, <3>2
    <3> QED
      BY <3>3, <3>4
  <2>3. CASE q = d /\ mbox[d] # NULL
    <3>1. /\ next' = [next EXCEPT ![m] = mbox[d], ![prev[mbox[d]]] = m]
          /\ prev' = [prev EXCEPT ![m] = prev[mbox[d]], ![mbox[d]] = m]
      BY <2>3 DEF msg_send
    <3>2. k2 = [k EXCEPT ![m] = k[prev[mbox[d]]] + 1] /\ m \in Msgs \ R[d]
      BY <1>0, <1>1, <1>2, <2>3
    <3>3. RingOf(R[d] \cup {m}, mbox[d], next', prev', k2)
      BY <1>1, <1>2, <2>1, <2>3, <3>1, <3>2, RingAppend DEF RankType
    <3> QED
      BY <1>5, <1>6, <2>3, <3>3
  <2>4. CASE q # d
    <3>1. R[d] \cap R[q] = {}
      BY <1>2, <2>4 DEF InBox
    <3>2. mbox[d] # NULL => mbox[d] \in R[d] /\ prev[mbox[d]] \in R[d]
      BY <1>2 DEF Rings, RingOf, RingSet, RingLinks
    <3>3. \A x \in R[q] : x \in Msgs /\ x # m /\ (mbox[d] # NULL => x # mbox[d] /\ x # prev[mbox[d]])
      BY <3>1, <3>2 DEF BoxType
    <3>4. \A x \in R[q] : next'[x] = next[x] /\ prev'[x] = prev[x] /\ k2[x] = k[x]
      BY <1>1, <1>3, <3>3 DEF msg_send
    <3>5. RingOf(R[q], mbox[q], next', prev', k2)
      BY <2>1, <3>4, RingSame
    <3> QED
      BY <1>4, <2>4, <3>5
  <2> QED
    BY <2>2, <2>3, <2>4
<1>8. InBox(R2)'
  <2> SUFFICES ASSUME NEW q \in Procs, NEW x \in R2[q]
               PROVE  /\ x \in live' /\ to'[x] = q /\ Len(rally'[x]) >= 2
                      /\ Last(rally'[x]) = q /\ rally'[x][Len(rally'[x]) - 1] = from'[x]
    BY DEF InBox
  <2>1. live' = live /\ to' = to /\ from' = from /\ rally_grow(m)
    BY DEF msg_send
  <2>2. CASE x # m
    <3>1. x \in R[q]
      BY <1>4, <1>6, <2>2
    <3>2. rally'[x] = rally[x]
      BY <1>1, <2>1, <2>2, <3>1 DEF rally_grow, BoxType
    <3> QED
      BY <2>1, <3>1, <3>2 DEF InBox
  <2>3. CASE x = m
    <3>1. q = to[m]
      BY <1>4, <2>3
    <3>2. rally'[m] = IF rally[m] = <<>> THEN <<from[m], to[m]>> ELSE Append(rally[m], to[m])
      BY <1>1, <2>1 DEF rally_grow
    <3>3. rally[m] \in Seq(Pids) /\ from[m] \in Pids /\ to[m] \in Pids
      BY <1>1, ProcsFacts
    <3>4. Len(rally'[m]) >= 2 /\ Last(rally'[m]) = to[m] /\ rally'[m][Len(rally'[m]) - 1] = from[m]
      <4>1. CASE rally[m] = <<>>
        BY <3>2, <3>3, <4>1 DEF Last
      <4>2. CASE rally[m] # <<>>
        <5> DEFINE n == Len(rally[m])
        <5>1. n \in Nat /\ n >= 1 /\ rally[m][n] = from[m]
          BY <3>3, <4>2 DEF Last
        <5>2. /\ Len(rally'[m]) = n + 1 /\ rally'[m][n + 1] = to[m] /\ rally'[m][n] = rally[m][n]
          BY <3>2, <3>3, <4>2, <5>1
        <5> QED
          BY <5>1, <5>2 DEF Last
      <4> QED
        BY <4>1, <4>2
    <3> QED
      BY <2>1, <2>3, <3>1, <3>4
  <2> QED
    BY <2>2, <2>3
<1> QED
  BY <1>3, <1>4, <1>5, <1>7, <1>8

\* What the mailboxes are when p has taken m out of its own.
Taken(R, p, m, R2) == R2 \in BoxType /\ m \in R[p] /\ R2 = [R EXCEPT ![p] = R[p] \ {m}]

\* msg_check takes m out of p's mailbox.
LEMMA TakeRings ==
  ASSUME TypeInv, NEW R \in BoxType, NEW k \in RankType, Rings(R, k), InBox(R),
         NEW p \in Procs, NEW m, NEW R2, Taken(R, p, m, R2),
         Behead(p, m), Unlink(m), UNCHANGED heapVars
  PROVE  /\ Rings(R2, k)' /\ InBox(R2)'
         /\ \A q \in Procs \ {p} : mbox'[q] = mbox[q]
         /\ \A q \in Procs : R2[q] \subseteq R[q] /\ m \notin R2[q]
         /\ LeftLinks(m, R2[p], mbox'[p], next', prev')
<1>0. R2 \in BoxType /\ m \in R[p] /\ R2 = [R EXCEPT ![p] = R[p] \ {m}]
  BY DEF Taken
<1>1. /\ from \in [Msgs -> Pids] /\ to \in [Msgs -> Procs] /\ rally \in [Msgs -> Seq(Pids)]
      /\ next \in [Msgs -> Msgs] /\ prev \in [Msgs -> Msgs] /\ mbox \in [Procs -> MsgOrNull]
      /\ m \in Msgs
  BY <1>0 DEF TypeInv, HeapType, LinkType, BoxType
<1>2. \A q \in Procs : R2[q] \subseteq R[q] /\ m \notin R2[q]
  BY <1>0 DEF InBox, BoxType
<1>3. \A q \in Procs \ {p} : mbox'[q] = mbox[q] /\ R2[q] = R[q]
  BY <1>0, <1>1 DEF Behead, BoxType
<1>4. InBox(R2)'
  BY <1>2 DEF InBox, heapVars
<1>5. RingOf(R[p], mbox[p], next, prev, k)
  BY DEF Rings
<1>6. R2[p] = R[p] \ {m}
  BY <1>0 DEF BoxType
<1>7. mbox[p] \in Msgs
  BY <1>0, <1>1, <1>5, ProcsFacts DEF RingOf, RingSet, MsgOrNull
<1>8. /\ mbox[p] = m /\ next[m] = m => mbox'[p] = NULL
      /\ mbox[p] = m /\ next[m] # m => mbox'[p] = next[m]
      /\ mbox[p] # m => mbox'[p] = mbox[p]
  BY <1>1 DEF Behead
<1>9. next' = [next EXCEPT ![prev[m]] = next[m]] /\ prev' = [prev EXCEPT ![next[m]] = prev[m]]
  BY DEF Unlink
<1>10. RingOf(R2[p], mbox'[p], next', prev', k)
  <2>1. RingOf(R[p] \ {m}, mbox'[p], [next EXCEPT ![prev[m]] = next[m]],
               [prev EXCEPT ![next[m]] = prev[m]], k)
    BY <1>0, <1>1, <1>5, <1>7, <1>8, RingRemove DEF RankType
  <2> QED
    BY <1>6, <1>9, <2>1
<1>11. Rings(R2, k)'
  <2> SUFFICES ASSUME NEW q \in Procs \ {p} PROVE RingOf(R2[q], mbox'[q], next', prev', k)
    BY <1>10 DEF Rings
  <2>1. RingOf(R[q], mbox[q], next, prev, k)
    BY DEF Rings
  <2>2. prev[m] \in R[p] /\ next[m] \in R[p]
    BY <1>0, <1>5 DEF RingOf, RingLinks
  <2>3. R[p] \cap R[q] = {} /\ R[q] \subseteq Msgs
    BY DEF InBox, BoxType
  <2>4. \A x \in R[q] : next'[x] = next[x] /\ prev'[x] = prev[x]
    BY <1>1, <1>9, <2>2, <2>3
  <2>5. RingOf(R[q], mbox[q], next', prev', k)
    BY <2>1, <2>4, RingSame
  <2> QED
    BY <1>3, <2>5
<1>12. LeftLinks(m, R2[p], mbox'[p], next', prev')
  <2>1. /\ prev[m] \in R[p] /\ next[m] \in R[p] /\ next[prev[m]] = m /\ prev[next[m]] = m
        /\ R[p] \subseteq Msgs
    BY <1>0, <1>5 DEF RingOf, RingLinks, RingSet
  <2>2. CASE next[m] = m
    BY <1>1, <1>9, <2>1, <2>2 DEF LeftLinks
  <2>3. CASE next[m] # m
    <3>1. prev[m] # m
      BY <2>1, <2>3
    <3>2. next'[m] = next[m] /\ prev'[m] = prev[m] /\ next'[prev[m]] = next[m]
      BY <1>1, <1>9, <2>1, <2>3, <3>1
    <3> QED
      BY <1>6, <2>1, <2>3, <3>1, <3>2 DEF LeftLinks
  <2> QED
    BY <2>2, <2>3
<1> QED
  BY <1>2, <1>3, <1>4, <1>11, <1>12

-----------------------------------------------------------------------------
(* What the invariant gives.                                                 *)

\* No more than R[p] can be reached from the head of p's mailbox.
LEMMA RingIn ==
  ASSUME NEW R \in BoxType, NEW k, Rings(R, k), NEW p \in Procs
  PROVE  Ring(p) \subseteq R[p]
<1>1. RingSet(R[p], mbox[p]) /\ RingLinks(R[p], next, prev) /\ R[p] \in SUBSET Msgs
  BY DEF Rings, RingOf, BoxType
<1>2. CASE mbox[p] = NULL
  BY <1>2 DEF Ring
<1>3. CASE mbox[p] # NULL
  <2>1. mbox[p] \in R[p] /\ \A x \in R[p] : next[x] \in R[p]
    BY <1>1, <1>3 DEF RingSet, RingLinks
  <2> QED
    BY <1>1, <1>3, <2>1 DEF Ring
<1> QED
  BY <1>2, <1>3

\* The invariant implies the three properties that the runs check.
LEMMA OwnInvGives ==
  ASSUME NEW R \in BoxType, NEW k \in RankType, OwnInv(R, k)
  PROVE  OneOwner /\ RingsLinked /\ RallyTold
<1>1. \A p \in Procs : Ring(p) \subseteq R[p]
  BY RingIn DEF OwnInv
<1>2. \A p \in Procs : \A m \in R[p] : m \in live /\ to[m] = p
  BY DEF OwnInv, InBox
<1>3. OneOwner
  <2>1. \A p, q \in Procs : p # q => Ring(p) \cap Ring(q) = {}
    BY <1>1, <1>2
  <2>2. \A p, q \in Procs : (InHand(p) \cup InFrame(p)) \cap Ring(q) = {}
    BY <1>1 DEF OwnInv, Hands
  <2>3. \A p \in Procs : InHand(p) \cup InFrame(p) \cup Ring(p) \subseteq live
    BY <1>1, <1>2 DEF OwnInv, Hands
  <2>4. held[FS] # NULL => held[FS] # msg[FS]
    BY ProcsFacts DEF OwnInv, Hands
  <2> QED
    BY <2>1, <2>2, <2>3, <2>4 DEF OwnInv, Hands, OneOwner
<1>4. RingsLinked
  BY <1>1, <1>2 DEF OwnInv, Rings, RingOf, RingLinks, RingsLinked
<1>5. RallyTold
  BY <1>1 DEF OwnInv, InBox, RallyTold, Last
<1> QED
  BY <1>3, <1>4, <1>5

\* msg_check settles on a message of the mailbox.
LEMMA SettlesIn ==
  ASSUME TypeInv, NEW R \in BoxType, NEW k \in RankType, OwnInv(R, k), NEW p \in Procs,
         At(p, "lock"), NEW s, NEW m \in Msgs, Settles(p, seen[p], s, m)
  PROVE  m \in R[p]
<1> DEFINE h == seen[p]
<1>1. RingOf(R[p], mbox[p], next, prev, k) /\ R[p] \subseteq Msgs
  BY DEF OwnInv, Rings, BoxType
<1>2. h \in Msgs => h = mbox[p] /\ h \in R[p]
  BY <1>1, ProcsFacts DEF OwnInv, SeenHead, At, RingOf, RingSet
<1>3. CASE s = ANYONE
  BY <1>2, <1>3 DEF Settles
<1>4. CASE s # ANYONE
  <2>1. SUFFICES ASSUME m \notin R[p] PROVE FALSE
    OBVIOUS
  <2>2. h # m
    BY <1>2, <2>1
  <2>3. PICK passed \in SUBSET (Msgs \ {m}) :
           /\ h \in passed
           /\ \A x \in passed : next[x] # mbox[p] /\ next[x] \in passed \cup {m}
    BY <1>4, <2>2 DEF Settles
  <2>4. h \in R[p] /\ h = mbox[p]
    BY <1>2, <2>3
  <2> DEFINE t == prev[mbox[p]]
             P == passed \cap R[p]
             D == {i \in Nat : \E x \in P : i = k[t] - k[x]}
  <2>5. t \in R[p] /\ next[t] = mbox[p] /\ \A x \in R[p] : k[x] \in Nat
    BY <1>1, <2>4 DEF RingOf, RingLinks, RankType
  <2>6. \A x \in R[p] : k[x] <= k[t]
    BY <1>1, <2>5 DEF RingOf, RingRank
  <2>7. h \in P /\ k[t] - k[h] \in Nat
    BY <2>3, <2>4, <2>5, <2>6
  <2>7a. k[t] - k[h] \in D /\ D \subseteq Nat
    BY <2>7
  <2> HIDE DEF D
  <2>7b. D # {} /\ D \subseteq Nat
    BY <2>7a
  <2>8. PICK d \in D : \A e \in D : d <= e
    BY <2>7b, Least
  <2>9. PICK x \in P : d = k[t] - k[x]
    BY <2>8 DEF D
  <2>10. next[x] \in P /\ k[x] < k[next[x]]
    <3>1. x \in R[p] /\ next[x] # mbox[p] /\ next[x] \in passed \cup {m}
      BY <2>3, <2>9
    <3>2. next[x] \in R[p] /\ k[x] < k[next[x]]
      BY <1>1, <3>1 DEF RingOf, RingLinks, RingRank
    <3> QED
      BY <2>1, <3>1, <3>2
  <2>11. k[t] - k[next[x]] \in D
    BY <2>5, <2>6, <2>10 DEF D
  <2> QED
    BY <2>5, <2>6, <2>8, <2>9, <2>10, <2>11
<1> QED
  BY <1>3, <1>4

-----------------------------------------------------------------------------
(* The links left in messages that were taken out, when a ring changes.      *)

\* Links outside the slots left behind do not matter to them.
LEMMA LeftSame ==
  ASSUME NEW x, NEW Q, NEW h, NEW n, NEW pr, NEW n2, NEW pr2, NEW k,
         LeftLinks(x, Q, h, n, pr), n2[x] = n[x], pr2[x] = pr[x],
         \A y \in Q : n2[y] = n[y]
  PROVE  LeftLinks(x, Q, h, n2, pr2) /\ Kept(x, Q, n2, pr2, k) = Kept(x, Q, n, pr, k)
<1>1. LeftLinks(x, Q, h, n2, pr2)
  BY DEF LeftLinks
<1>2. Kept(x, Q, n2, pr2, k) = Kept(x, Q, n, pr, k)
  BY DEF LeftLinks, Kept
<1> QED
  BY <1>1, <1>2

\* A message y joins ring Q, with head h, at its tail; h2 is the head then.
Grows(Q, h, n, pr, k, y, h2, n2, k2) ==
  /\ RingOf(Q, h, n, pr, k) /\ y \notin Q
  /\ \A z \in Q : k[z] \in Nat /\ k2[z] = k[z]
  /\ h # NULL => h2 = h /\ n2[pr[h]] = y /\ \A z \in Q : z # pr[h] => n2[z] = n[z]

\* The links left in a message x that was taken out stay neighbours.
LEMMA LeftGrows ==
  ASSUME NEW Q, NEW x, NEW h, NEW n, NEW pr, NEW k, NEW y, NEW h2, NEW n2, NEW pr2, NEW k2,
         Grows(Q, h, n, pr, k, y, h2, n2, k2), x \notin Q, LeftLinks(x, Q, h, n, pr),
         <<n2[x], pr2[x]>> = <<n[x], pr[x]>>
  PROVE  /\ LeftLinks(x, Q \cup {y}, h2, n2, pr2)
         /\ Kept(x, Q, n, pr, k) \subseteq Kept(x, Q \cup {y}, n2, pr2, k2)
<1>0. RingSet(Q, h) /\ RingLinks(Q, n, pr) /\ RingRank(Q, h, n, k)
  BY DEF RingOf, Grows
<1>01. /\ y \notin Q /\ n2[x] = n[x] /\ pr2[x] = pr[x]
       /\ \A z \in Q : k[z] \in Nat /\ k2[z] = k[z]
       /\ h # NULL => h2 = h /\ n2[pr[h]] = y /\ \A z \in Q : z # pr[h] => n2[z] = n[z]
  BY DEF Grows
<1>1. CASE n[x] = x
  <2>1. n2[x] = x /\ pr2[x] = x
    BY <1>01, <1>1 DEF LeftLinks
  <2>2. LeftLinks(x, Q \cup {y}, h2, n2, pr2)
    BY <2>1 DEF LeftLinks
  <2>3. Kept(x, Q, n, pr, k) = Q
    BY <1>1 DEF Kept
  <2>4. Kept(x, Q \cup {y}, n2, pr2, k2) = Q \cup {y}
    BY <2>1 DEF Kept
  <2> QED
    BY <2>2, <2>3, <2>4
<1>2. CASE n[x] # x
  <2>1. pr[x] \in Q /\ n[x] \in Q /\ h # NULL /\ h \in Q /\ n[pr[h]] = h /\ pr[h] \in Q
    BY <1>0, <1>2 DEF LeftLinks, RingSet, RingLinks
  <2>2. \A z \in Q : k[z] <= k[pr[h]]
    BY <1>0, <1>01, <2>1 DEF RingRank
  <2>3. CASE pr[x] = pr[h]
    <3>1. n[x] = h
      BY <1>2, <2>1, <2>3 DEF LeftLinks
    <3>2. n2[pr[x]] # n[x]
      BY <1>01, <2>1, <2>3, <3>1
    <3> QED
      BY <1>01, <1>2, <2>1, <2>2, <2>3, <3>1, <3>2 DEF LeftLinks, Kept
  <2>4. CASE pr[x] # pr[h]
    <3>1. n2[pr[x]] = n[pr[x]]
      BY <1>01, <2>1, <2>4
    <3> QED
      BY <1>01, <1>2, <2>1, <3>1 DEF LeftLinks, Kept
  <2> QED
    BY <2>3, <2>4
<1> QED
  BY <1>1, <1>2

-----------------------------------------------------------------------------
(* The steps.  Those that touch no message: who has a message keeps it, or   *)
(* gives it up.                                                              *)

\* What a process has in hand, by its label.
LEMMA HandFacts ==
  ASSUME NEW p \in Procs
  PROVE  /\ pc[p] \in TakenAt \cup GivenAt => msg[p] \in InHand(p)
         /\ held[p] # NULL => held[p] \in InHand(p)
         /\ fpc[p] = "send" => frame[p] \in InFrame(p)
         /\ pc[p] \notin TakenAt \cup GivenAt => InHand(p) = {held[p]} \ {NULL}
         /\ InHand(p) \subseteq {msg[p], held[p]}
         /\ fpc[p] # "send" => InFrame(p) = {}
BY DEF TakenAt, GivenAt, InHand, InFrame

\* A step that moves no message keeps the invariant ...
LEMMA QuietStep ==
  ASSUME NEW R \in BoxType, NEW k \in RankType, OwnInv(R, k),
         UNCHANGED <<heapVars, linkVars>>, held' = held,
         \A q \in Procs : /\ pc'[q] \in TakenAt => pc'[q] = pc[q] /\ msg'[q] = msg[q]
                          /\ pc'[q] \in GivenAt => pc[q] \in GivenAt /\ msg'[q] = msg[q]
                          /\ fpc'[q] = "send" => fpc[q] = "send" /\ frame'[q] = frame[q]
                          /\ pc'[q] = "lock" /\ seen'[q] # NULL => seen'[q] = mbox[q],
         held[FS] # NULL => msg'[FS] = msg[FS],
         pc'[FS] # "wakeSync"
  PROVE  OwnInv(R, k)'
<1>1. /\ live' = live /\ from' = from /\ to' = to /\ op' = op /\ rally' = rally
      /\ mbox' = mbox /\ next' = next /\ prev' = prev
  BY DEF heapVars, linkVars
<1>2. Rings(R, k)' /\ InBox(R)'
  BY <1>1 DEF OwnInv, Rings, InBox
<1>3. \A q \in Procs : InHand(q)' \subseteq InHand(q) /\ InFrame(q)' \subseteq InFrame(q)
  BY DEF InHand, InFrame, TakenAt, GivenAt
<1>4. Hands(R)'
  BY <1>1, <1>3 DEF OwnInv, Hands
<1>5. Told'
  BY <1>1 DEF OwnInv, Told
<1>6. Left(R, k)'
  <2>1. \A p \in Procs : pc'[p] \in TakenAt => LeftLinks(msg'[p], R[p], mbox'[p], next', prev')
    BY <1>1 DEF OwnInv, Left
  <2>2. held[FS] # NULL /\ pc'[FS] = "got" => pc[FS] = "got"
    BY ProcsFacts DEF TakenAt
  <2> QED
    BY <1>1, <2>1, <2>2 DEF OwnInv, Left
<1>7. Asked' /\ SeenHead'
  BY <1>1, ProcsFacts DEF OwnInv, Asked, SeenHead
<1> QED
  BY <1>2, <1>4, <1>5, <1>6, <1>7 DEF OwnInv

\* The tail of msg_send, the search that finds nothing, sleeping and scheduling, for processes
\* and handlers.
LEMMA QuietSteps ==
  ASSUME TypeInv, NEW R \in BoxType, NEW k \in RankType, OwnInv(R, k), NEW p \in Procs,
         \/ SendWake(p) \/ CheckRead(p) \/ SleepLocked(p) \/ SleepSched(p) \/ ReplyEnd(p)
         \/ CheckLocked(p) /\ pc'[p] = "sleep"
         \/ IrqSendWake(p) \/ Tick \/ UNCHANGED vars
  PROVE  OwnInv(R, k)'
<1> USE ProcsFacts
<1>0. /\ pc \in [Procs -> Labels] /\ msg \in [Procs -> MsgOrNull]
      /\ seen \in [Procs -> MsgOrNull] /\ frame \in [Procs -> MsgOrNull]
      /\ fpc \in [Procs -> {"none", "send", "wake"}]
  BY DEF TypeInv, ProcType, IrqType
<1>00. \A q \in Procs : pc[q] = "lock" /\ seen[q] # NULL => seen[q] = mbox[q]
  BY DEF OwnInv, SeenHead
<1>01. pc[FS] # "wakeSync"
  BY DEF OwnInv, Asked
<1>02. Driver # ANYONE
  BY IpcAssumption
<1>1. CASE SendWake(p)
  <2>1. held[FS] # NULL => msg'[FS] = msg[FS]
    BY <1>0, <1>01, <1>02, <1>1, IpcAssumption DEF SendWake, Awaited, At
  <2>2. pc'[FS] # "wakeSync" /\ held' = held /\ UNCHANGED <<heapVars, linkVars>>
    BY <1>0, <1>01, <1>1 DEF SendWake, Goto
  <2>3. \A q \in Procs : /\ pc'[q] \in TakenAt => pc'[q] = pc[q] /\ msg'[q] = msg[q]
                         /\ pc'[q] \in GivenAt => pc[q] \in GivenAt /\ msg'[q] = msg[q]
                         /\ fpc'[q] = fpc[q] /\ frame'[q] = frame[q]
                         /\ pc'[q] = "lock" => pc[q] = "lock" /\ seen'[q] = seen[q]
    BY <1>0, <1>1 DEF SendWake, Goto, TakenAt, GivenAt, irqVars
  <2> QED
    BY <1>00, <2>1, <2>2, <2>3, QuietStep
<1>2. CASE CheckRead(p)
  <2>1. msg' = msg /\ pc'[FS] # "wakeSync" /\ held' = held /\ UNCHANGED <<heapVars, linkVars>>
    BY <1>0, <1>01, <1>2 DEF CheckRead, Goto
  <2>2. \A q \in Procs : /\ pc'[q] \in TakenAt => pc'[q] = pc[q]
                         /\ pc'[q] \in GivenAt => pc[q] \in GivenAt
                         /\ fpc'[q] = fpc[q] /\ frame'[q] = frame[q]
    BY <1>0, <1>2 DEF CheckRead, Goto, TakenAt, GivenAt, irqVars
  <2>3. \A q \in Procs : pc'[q] = "lock" /\ seen'[q] # NULL => seen'[q] = mbox[q]
    BY <1>0, <1>00, <1>2 DEF CheckRead, Goto
  <2> QED
    BY <2>1, <2>2, <2>3, QuietStep
<1>3. CASE SleepLocked(p) \/ SleepSched(p) \/ ReplyEnd(p)
  <2>1. msg' = msg /\ pc'[FS] # "wakeSync" /\ held' = held /\ UNCHANGED <<heapVars, linkVars>>
    BY <1>0, <1>01, <1>3 DEF SleepLocked, SleepSched, ReplyEnd, Goto
  <2>2. \A q \in Procs : /\ pc'[q] \in TakenAt => pc'[q] = pc[q]
                         /\ pc'[q] \in GivenAt => pc[q] \in GivenAt
                         /\ fpc'[q] = fpc[q] /\ frame'[q] = frame[q]
                         /\ pc'[q] = "lock" => pc[q] = "lock" /\ seen'[q] = seen[q]
    BY <1>0, <1>3 DEF SleepLocked, SleepSched, ReplyEnd, Goto, At, TakenAt, GivenAt, irqVars
  <2> QED
    BY <1>00, <2>1, <2>2, QuietStep
<1>4. CASE CheckLocked(p) /\ pc'[p] = "sleep"
  <2>1. msg' = msg /\ UNCHANGED linkVars /\ Goto(p, "sleep")
    BY <1>0, <1>4 DEF CheckLocked, Goto
  <2>2. pc'[FS] # "wakeSync" /\ held' = held /\ UNCHANGED heapVars
    BY <1>0, <1>01, <1>4, <2>1 DEF CheckLocked, Goto
  <2>3. \A q \in Procs : /\ pc'[q] \in TakenAt => pc'[q] = pc[q]
                         /\ pc'[q] \in GivenAt => pc[q] \in GivenAt
                         /\ fpc'[q] = fpc[q] /\ frame'[q] = frame[q]
                         /\ pc'[q] = "lock" => pc[q] = "lock" /\ seen'[q] = seen[q]
    BY <1>0, <1>4, <2>1 DEF CheckLocked, Goto, TakenAt, GivenAt, irqVars
  <2> QED
    BY <1>00, <2>1, <2>2, <2>3, QuietStep
<1>5. CASE IrqSendWake(p)
  <2>1. UNCHANGED <<pc, msg, held, seen, heapVars, linkVars>>
    BY <1>5 DEF IrqSendWake, procVars
  <2>2. \A q \in Procs : fpc'[q] = "send" => fpc[q] = "send" /\ frame'[q] = frame[q]
    BY <1>0, <1>5 DEF IrqSendWake
  <2> QED
    BY <1>00, <1>01, <2>1, <2>2, QuietStep
<1>6. CASE Tick \/ UNCHANGED vars
  <2>1. UNCHANGED <<pc, msg, held, seen, frame, fpc, heapVars, linkVars>>
    BY <1>6 DEF Tick, vars, procVars, irqVars
  <2> QED
    BY <1>00, <1>01, <2>1, QuietStep
<1> QED
  BY <1>1, <1>2, <1>3, <1>4, <1>5, <1>6

-----------------------------------------------------------------------------
(* Steps that make a message.                                                *)

\* A step that makes message m and hands it to p's code or to a handler on p's stack.
LEMMA MakeOwn ==
  ASSUME TypeInv, NEW R \in BoxType, NEW k \in RankType, OwnInv(R, k), NEW p \in Procs,
         NEW m \in Msgs \ live, NEW f \in Pids, NEW dst \in Procs, NEW o \in Ops,
         msg_alloc(m, f, dst, o), held' = held,
         held[FS] # NULL => msg'[FS] = msg[FS],
         \A q \in Procs \ {p} : InHand(q)' = InHand(q) /\ InFrame(q)' = InFrame(q),
         \/ InHand(p)' = InHand(p) \cup {m} /\ InFrame(p)' = InFrame(p)
         \/ InHand(p)' = InHand(p) /\ InFrame(p)' = {m} /\ InFrame(p) = {},
         \A q \in Procs : /\ pc'[q] \in TakenAt => pc'[q] = pc[q] /\ msg'[q] = msg[q]
                          /\ pc'[q] \in GivenAt => \/ pc[q] \in GivenAt /\ msg'[q] = msg[q]
                                                   \/ q # FS /\ msg'[q] = m
                          /\ fpc'[q] = "send" => \/ fpc[q] = "send" /\ frame'[q] = frame[q]
                                                 \/ frame'[q] = m
                          /\ pc'[q] = "lock" => pc[q] = "lock" /\ seen'[q] = seen[q],
         f # FS, f # Driver, pc'[FS] # "wakeSync"
  PROVE  OwnInv(R, k)'
<1> USE ProcsFacts
<1>1. /\ from \in [Msgs -> Pids] /\ to \in [Msgs -> Procs] /\ op \in [Msgs -> Ops]
      /\ rally \in [Msgs -> Seq(Pids)] /\ next \in [Msgs -> Msgs] /\ prev \in [Msgs -> Msgs]
      /\ msg \in [Procs -> MsgOrNull] /\ live \subseteq Msgs
  BY DEF TypeInv, HeapType, LinkType, ProcType
<1>2. live' = live \cup {m} /\ mbox' = mbox
  BY DEF msg_alloc
<1>3. \A x \in live : /\ from'[x] = from[x] /\ to'[x] = to[x] /\ op'[x] = op[x]
                      /\ rally'[x] = rally[x] /\ next'[x] = next[x] /\ prev'[x] = prev[x]
                      /\ x # m
  BY <1>1 DEF msg_alloc
<1>4. from'[m] = f /\ to'[m] = dst /\ rally'[m] = <<>>
  BY <1>1 DEF msg_alloc
<1>5. Rings(R, k)' /\ InBox(R)'
  BY AllocRings DEF OwnInv
<1>6. /\ \A q \in Procs : InHand(q) \cup InFrame(q) \cup R[q] \subseteq live
      /\ \A q \in Procs : pc[q] \in TakenAt \cup GivenAt => msg[q] \in live
      /\ \A q \in Procs : fpc[q] = "send" => frame[q] \in live
      /\ held[FS] # NULL => held[FS] \in live
  BY HandFacts DEF OwnInv, Hands, InBox
<1>7. Hands(R)'
  <2>1. m \notin live
    OBVIOUS
  <2>2. \A q \in Procs : held'[q] # NULL => q = FS /\ held'[q] # msg'[q]
    BY DEF OwnInv, Hands
  <2>3. \A q \in Procs : InHand(q)' \cup InFrame(q)' \subseteq live'
    BY <1>2, <1>6
  <2>4. \A q, r \in Procs : (InHand(q)' \cup InFrame(q)') \cap R[r] = {}
    BY <1>6, <2>1 DEF OwnInv, Hands
  <2>5. \A q, r \in Procs : InHand(q)' \cap InFrame(r)' = {}
    BY <1>6, <2>1 DEF OwnInv, Hands
  <2>6. \A q, r \in Procs : q # r => InHand(q)' \cap InHand(r)' = {} /\ InFrame(q)' \cap InFrame(r)' = {}
    BY <1>6, <2>1 DEF OwnInv, Hands
  <2> QED
    BY <2>2, <2>3, <2>4, <2>5, <2>6 DEF Hands
<1>8. Told'
  <2>1. \A q \in Procs : pc'[q] \in TakenAt =>
          to'[msg'[q]] = q /\ Len(rally'[msg'[q]]) >= 1 /\ Last(rally'[msg'[q]]) = q
    BY <1>3, <1>6 DEF OwnInv, Told
  <2>2. \A q \in Procs : pc'[q] \in GivenAt =>
          \/ rally'[msg'[q]] = <<>>
          \/ Len(rally'[msg'[q]]) >= 1 /\ Last(rally'[msg'[q]]) = from'[msg'[q]]
    BY <1>3, <1>4, <1>6 DEF OwnInv, Told
  <2>3. \A q \in Procs : fpc'[q] = "send" => rally'[frame'[q]] = <<>>
    BY <1>3, <1>4, <1>6 DEF OwnInv, Told
  <2>4. held'[FS] # NULL =>
          to'[held'[FS]] = FS /\ Len(rally'[held'[FS]]) >= 1 /\ Last(rally'[held'[FS]]) = FS
    BY <1>3, <1>6 DEF OwnInv, Told
  <2> QED
    BY <2>1, <2>2, <2>3, <2>4 DEF Told
<1>9. Left(R, k)'
  <2>1. ASSUME NEW q \in Procs, NEW x \in live, LeftLinks(x, R[q], mbox[q], next, prev)
        PROVE  /\ LeftLinks(x, R[q], mbox[q], next', prev')
               /\ Kept(x, R[q], next', prev', k) = Kept(x, R[q], next, prev, k)
    <3>1. \A y \in R[q] : next'[y] = next[y]
      BY <1>3, <1>6
    <3>2. next'[x] = next[x] /\ prev'[x] = prev[x]
      BY <1>3
    <3> QED
      BY <2>1, <3>1, <3>2, LeftSame
  <2>2. \A q \in Procs : pc'[q] \in TakenAt => LeftLinks(msg'[q], R[q], mbox'[q], next', prev')
    BY <1>2, <1>6, <2>1 DEF OwnInv, Left
  <2>3. ASSUME held[FS] # NULL
        PROVE  LET h == held[FS]  x == msg'[FS] IN
               /\ LeftLinks(h, R[FS], mbox[FS], next', prev')
               /\ next'[h] # h =>
                    /\ from'[prev'[h]] # Driver /\ from'[next'[h]] # Driver
                    /\ pc'[FS] = "got" => {prev'[h], next'[h]} \subseteq Kept(x, R[FS], next', prev', k)
    <3> DEFINE h == held[FS]
    <3>1. h \in live /\ LeftLinks(h, R[FS], mbox[FS], next, prev)
      BY <1>6, <2>3 DEF OwnInv, Left
    <3>2. LeftLinks(h, R[FS], mbox[FS], next', prev') /\ next'[h] = next[h] /\ prev'[h] = prev[h]
      BY <1>3, <2>1, <3>1
    <3>3. next[h] # h => /\ prev[h] \in live /\ next[h] \in live
                         /\ from[prev[h]] # Driver /\ from[next[h]] # Driver
      BY <1>6, <2>3, <3>1 DEF OwnInv, Left, LeftLinks
    <3>4. ASSUME next[h] # h, pc'[FS] = "got"
          PROVE  {prev[h], next[h]} \subseteq Kept(msg'[FS], R[FS], next', prev', k)
      <4>1. pc[FS] = "got" /\ msg'[FS] = msg[FS] /\ msg[FS] \in live
        BY <1>6, <3>4 DEF TakenAt
      <4>2. LeftLinks(msg[FS], R[FS], mbox[FS], next, prev)
        BY <4>1 DEF OwnInv, Left, TakenAt
      <4>3. Kept(msg[FS], R[FS], next', prev', k) = Kept(msg[FS], R[FS], next, prev, k)
        BY <2>1, <4>1, <4>2
      <4> QED
        BY <2>3, <3>4, <4>1, <4>3 DEF OwnInv, Left
    <3> QED
      BY <1>3, <3>2, <3>3, <3>4
  <2> QED
    BY <1>2, <2>2, <2>3 DEF Left
<1>10. Asked'
  <2>1. \A x \in live' :
          (from'[x] = FS /\ to'[x] = Driver) \/ (from'[x] = Driver /\ to'[x] = FS)
            => held'[FS] # NULL /\ x = msg'[FS]
    BY <1>2, <1>3, <1>4 DEF OwnInv, Asked
  <2>2. pc'[FS] \in GivenAt => op'[msg'[FS]] = "SYS_READ"
    BY <1>3, <1>6 DEF OwnInv, Asked
  <2> QED
    BY <2>1, <2>2 DEF Asked
<1>11. SeenHead'
  BY <1>2 DEF OwnInv, SeenHead
<1> QED
  BY <1>5, <1>7, <1>8, <1>9, <1>10, <1>11 DEF OwnInv

\* A client makes a request.
LEMMA ClientCallOwn ==
  ASSUME TypeInv, NEW R \in BoxType, NEW k \in RankType, OwnInv(R, k), NEW c \in Clients,
         ClientCall(c)
  PROVE  OwnInv(R, k)'
<1> USE ProcsFacts
<1>0. /\ pc \in [Procs -> Labels] /\ msg \in [Procs -> MsgOrNull]
      /\ c \in Procs /\ c # FS /\ c # Driver /\ c \in Pids /\ FS \in Procs
  BY IpcAssumption DEF TypeInv, ProcType
<1>1. PICK m \in Msgs \ live, o \in Requests : msg_alloc(m, c, FS, o) /\ msg' = [msg EXCEPT ![c] = m]
  BY DEF ClientCall
<1>2. /\ pc[c] = "idle" /\ pc' = [pc EXCEPT ![c] = "send"]
      /\ UNCHANGED <<held, seen, frame, fpc>> /\ o \in Ops
  BY IpcAssumption DEF ClientCall, At, Goto, irqVars, Ops
<1>3. \A q \in Procs \ {c} : pc'[q] = pc[q] /\ msg'[q] = msg[q]
  BY <1>0, <1>1, <1>2
<1>4. pc'[c] = "send" /\ msg'[c] = m
  BY <1>0, <1>1, <1>2
<1>5. \A q \in Procs \ {c} : InHand(q)' = InHand(q) /\ InFrame(q)' = InFrame(q)
  BY <1>2, <1>3 DEF InHand, InFrame
<1>6. InHand(c)' = InHand(c) \cup {m} /\ InFrame(c)' = InFrame(c)
  BY <1>2, <1>4 DEF InHand, InFrame
<1>7. pc'[FS] # "wakeSync" /\ msg'[FS] = msg[FS]
  BY <1>0, <1>3 DEF OwnInv, Asked
<1>8. \A q \in Procs : /\ pc'[q] \in TakenAt => pc'[q] = pc[q] /\ msg'[q] = msg[q]
                       /\ pc'[q] \in GivenAt => \/ pc[q] \in GivenAt /\ msg'[q] = msg[q]
                                                \/ q # FS /\ msg'[q] = m
                       /\ pc'[q] = "lock" => pc[q] = "lock" /\ seen'[q] = seen[q]
  BY <1>0, <1>2, <1>3, <1>4 DEF TakenAt
<1> QED
  BY <1>0, <1>1, <1>2, <1>5, <1>6, <1>7, <1>8, MakeOwn

\* The hardware interrupts.
LEMMA IrqAllocOwn ==
  ASSUME TypeInv, NEW R \in BoxType, NEW k \in RankType, OwnInv(R, k), NEW p \in Procs,
         IrqAlloc(p)
  PROVE  OwnInv(R, k)'
<1> USE ProcsFacts
<1>0. frame \in [Procs -> MsgOrNull] /\ fpc \in [Procs -> {"none", "send", "wake"}]
  BY DEF TypeInv, IrqType
<1>1. PICK m \in Msgs \ live : msg_alloc(m, HARDWARE, Driver, "IRQ") /\ frame' = [frame EXCEPT ![p] = m]
  BY DEF IrqAlloc
<1>2. fpc[p] = "none" /\ fpc' = [fpc EXCEPT ![p] = "send"] /\ UNCHANGED <<pc, msg, held, seen>>
  BY DEF IrqAlloc, Runs, procVars
<1>3. \A q \in Procs \ {p} : fpc'[q] = fpc[q] /\ frame'[q] = frame[q]
  BY <1>0, <1>1, <1>2
<1>4. fpc'[p] = "send" /\ frame'[p] = m
  BY <1>0, <1>1, <1>2
<1>5. \A q \in Procs \ {p} : InHand(q)' = InHand(q) /\ InFrame(q)' = InFrame(q)
  BY <1>2, <1>3 DEF InHand, InFrame
<1>6. InHand(p)' = InHand(p) /\ InFrame(p)' = {m} /\ InFrame(p) = {}
  BY <1>2, <1>4 DEF InHand, InFrame
<1>7. pc'[FS] # "wakeSync" /\ msg'[FS] = msg[FS] /\ HARDWARE # FS /\ HARDWARE # Driver /\ "IRQ" \in Ops
  BY <1>2 DEF OwnInv, Asked, Ops
<1>8. \A q \in Procs : /\ pc'[q] \in TakenAt => pc'[q] = pc[q] /\ msg'[q] = msg[q]
                       /\ pc'[q] \in GivenAt => pc[q] \in GivenAt /\ msg'[q] = msg[q]
                       /\ fpc'[q] = "send" => \/ fpc[q] = "send" /\ frame'[q] = frame[q]
                                              \/ frame'[q] = m
                       /\ pc'[q] = "lock" => pc[q] = "lock" /\ seen'[q] = seen[q]
  BY <1>2, <1>3, <1>4
<1> QED
  BY <1>1, <1>2, <1>5, <1>6, <1>7, <1>8, MakeOwn

\* The file system asks the driver, and keeps the request it is working on.
LEMMA FsAskOwn ==
  ASSUME TypeInv, NEW R \in BoxType, NEW k \in RankType, OwnInv(R, k), FsAskDriver
  PROVE  OwnInv(R, k)'
<1> USE ProcsFacts
<1>1. /\ from \in [Msgs -> Pids] /\ to \in [Msgs -> Procs] /\ op \in [Msgs -> Ops]
      /\ rally \in [Msgs -> Seq(Pids)] /\ next \in [Msgs -> Msgs] /\ prev \in [Msgs -> Msgs]
      /\ msg \in [Procs -> MsgOrNull] /\ held \in [Procs -> MsgOrNull]
      /\ pc \in [Procs -> Labels] /\ live \subseteq Msgs
  BY DEF TypeInv, HeapType, LinkType, ProcType
<1> DEFINE x == msg[FS]
<1>2. PICK m \in Msgs \ live : msg_alloc(m, FS, Driver, "SYS_READ") /\ msg' = [msg EXCEPT ![FS] = m]
  BY DEF FsAskDriver
<1>3. /\ pc[FS] = "got" /\ held[FS] = NULL /\ pc' = [pc EXCEPT ![FS] = "send"]
      /\ held' = [held EXCEPT ![FS] = x] /\ UNCHANGED <<seen, frame, fpc>>
  BY DEF FsAskDriver, At, Goto, irqVars
<1>4. live' = live \cup {m} /\ mbox' = mbox
  BY <1>2 DEF msg_alloc
<1>5. \A y \in live : /\ from'[y] = from[y] /\ to'[y] = to[y] /\ op'[y] = op[y]
                      /\ rally'[y] = rally[y] /\ next'[y] = next[y] /\ prev'[y] = prev[y]
                      /\ y # m
  BY <1>1, <1>2 DEF msg_alloc
<1>6. from'[m] = FS /\ to'[m] = Driver /\ rally'[m] = <<>> /\ op'[m] = "SYS_READ"
  BY <1>1, <1>2 DEF msg_alloc
<1>7. Rings(R, k)' /\ InBox(R)'
  BY <1>2, AllocRings DEF OwnInv
<1>8. /\ \A q \in Procs : InHand(q) \cup InFrame(q) \cup R[q] \subseteq live
      /\ \A q \in Procs : pc[q] \in TakenAt \cup GivenAt => msg[q] \in live
      /\ \A q \in Procs : fpc[q] = "send" => frame[q] \in live
  BY HandFacts DEF OwnInv, Hands, InBox
<1>9. x \in live /\ x # m
  BY <1>3, <1>5, <1>8 DEF TakenAt
<1>10. \A q \in Procs \ {FS} : pc'[q] = pc[q] /\ msg'[q] = msg[q] /\ held'[q] = held[q]
  BY <1>1, <1>2, <1>3
<1>11. pc'[FS] = "send" /\ msg'[FS] = m /\ held'[FS] = x
  BY <1>1, <1>2, <1>3
<1>12. \A q \in Procs \ {FS} : InHand(q)' = InHand(q)
  BY <1>10 DEF InHand
<1>13. InHand(FS)' = {m, x} /\ InHand(FS) = {x}
  BY <1>1, <1>3, <1>9, <1>11 DEF InHand
<1>14. \A q \in Procs : InFrame(q)' = InFrame(q)
  BY <1>3 DEF InFrame
<1>15. Hands(R)'
  <2>1. m \notin live /\ m # NULL
    OBVIOUS
  <2>2. \A q \in Procs : held'[q] # NULL => q = FS /\ held'[q] # msg'[q]
    BY <1>9, <1>10, <1>11 DEF OwnInv, Hands
  <2>3. \A q \in Procs : InHand(q)' \cup InFrame(q)' \subseteq live'
    BY <1>4, <1>8, <1>12, <1>13, <1>14
  <2>4. \A q, r \in Procs : (InHand(q)' \cup InFrame(q)') \cap R[r] = {}
    BY <1>8, <1>12, <1>13, <1>14, <2>1 DEF OwnInv, Hands
  <2>5. \A q, r \in Procs : InHand(q)' \cap InFrame(r)' = {}
    BY <1>8, <1>12, <1>13, <1>14, <2>1 DEF OwnInv, Hands
  <2>6. \A q, r \in Procs : q # r => InHand(q)' \cap InHand(r)' = {} /\ InFrame(q)' \cap InFrame(r)' = {}
    BY <1>8, <1>12, <1>13, <1>14, <2>1 DEF OwnInv, Hands
  <2> QED
    BY <2>2, <2>3, <2>4, <2>5, <2>6 DEF Hands
<1>16. Told'
  <2>1. \A q \in Procs : pc'[q] \in TakenAt =>
          to'[msg'[q]] = q /\ Len(rally'[msg'[q]]) >= 1 /\ Last(rally'[msg'[q]]) = q
    BY <1>5, <1>8, <1>10, <1>11 DEF OwnInv, Told, TakenAt
  <2>2. \A q \in Procs : pc'[q] \in GivenAt =>
          \/ rally'[msg'[q]] = <<>>
          \/ Len(rally'[msg'[q]]) >= 1 /\ Last(rally'[msg'[q]]) = from'[msg'[q]]
    BY <1>5, <1>6, <1>8, <1>10, <1>11 DEF OwnInv, Told
  <2>3. \A q \in Procs : fpc'[q] = "send" => rally'[frame'[q]] = <<>>
    BY <1>3, <1>5, <1>8 DEF OwnInv, Told
  <2>4. to'[x] = FS /\ Len(rally'[x]) >= 1 /\ Last(rally'[x]) = FS
    BY <1>3, <1>5, <1>9 DEF OwnInv, Told, TakenAt
  <2> QED
    BY <1>11, <2>1, <2>2, <2>3, <2>4 DEF Told
<1>17. Left(R, k)'
  <2>1. ASSUME NEW q \in Procs, NEW y \in live, LeftLinks(y, R[q], mbox[q], next, prev)
        PROVE  LeftLinks(y, R[q], mbox[q], next', prev')
    <3>1. \A z \in R[q] : next'[z] = next[z]
      BY <1>5, <1>8
    <3>2. next'[y] = next[y] /\ prev'[y] = prev[y]
      BY <1>5
    <3> QED
      BY <2>1, <3>1, <3>2, LeftSame
  <2>2. \A q \in Procs : pc'[q] \in TakenAt => LeftLinks(msg'[q], R[q], mbox'[q], next', prev')
    BY <1>4, <1>8, <1>10, <1>11, <2>1 DEF OwnInv, Left, TakenAt
  <2>3. LeftLinks(x, R[FS], mbox[FS], next, prev)
    BY <1>3 DEF OwnInv, Left, TakenAt
  <2>4. LeftLinks(x, R[FS], mbox'[FS], next', prev') /\ next'[x] = next[x] /\ prev'[x] = prev[x]
    BY <1>4, <1>5, <1>9, <2>1, <2>3
  <2>5. \A y \in R[FS] : from'[y] # Driver
    <3> SUFFICES ASSUME NEW y \in R[FS] PROVE from'[y] # Driver
      OBVIOUS
    <3>1. y \in live /\ to[y] = FS
      BY DEF OwnInv, InBox
    <3>2. from[y] # Driver
      BY <1>3, <3>1 DEF OwnInv, Asked
    <3> QED
      BY <1>5, <3>1, <3>2
  <2>6. next'[x] # x => from'[prev'[x]] # Driver /\ from'[next'[x]] # Driver
    BY <2>3, <2>4, <2>5 DEF LeftLinks
  <2> QED
    BY <1>11, <2>2, <2>4, <2>6 DEF Left
<1>18. Asked'
  <2>1. \A y \in live' :
          (from'[y] = FS /\ to'[y] = Driver) \/ (from'[y] = Driver /\ to'[y] = FS) => y = m
    BY <1>3, <1>4, <1>5 DEF OwnInv, Asked
  <2>2. x # NULL
    BY <1>1, <1>9
  <2> HIDE DEF x
  <2> QED
    BY <1>6, <1>11, <2>1, <2>2 DEF Asked
<1>19. SeenHead'
  BY <1>3, <1>4, <1>10, <1>11 DEF OwnInv, SeenHead
<1> QED
  BY <1>7, <1>15, <1>16, <1>17, <1>18, <1>19 DEF OwnInv
-----------------------------------------------------------------------------
(* Steps that free a message.                                                *)

\* p frees the message it has taken and goes on; when it is the driver's answer,
\* the file system goes on with the request it has kept.
LEMMA FreeOwn ==
  ASSUME TypeInv, NEW R \in BoxType, NEW k \in RankType, OwnInv(R, k), NEW p \in Procs,
         pc[p] \in TakenAt, msg_free(msg[p]), UNCHANGED <<seen, frame, fpc>>,
         \A q \in Procs \ {p} : pc'[q] = pc[q] /\ msg'[q] = msg[q] /\ held'[q] = held[q],
         \/ held'[p] = held[p] /\ pc'[p] \in {"idle", "check"} /\ (p = FS => held[FS] = NULL)
         \/ /\ p = FS /\ pc[FS] = "got" /\ held[FS] # NULL
            /\ held'[FS] = NULL /\ msg'[FS] = held[FS] /\ pc'[FS] = "served"
  PROVE  \E R2 \in BoxType : OwnInv(R2, k)'
<1> USE ProcsFacts
<1>1. /\ from \in [Msgs -> Pids] /\ to \in [Msgs -> Procs] /\ op \in [Msgs -> Ops]
      /\ rally \in [Msgs -> Seq(Pids)] /\ next \in [Msgs -> Msgs] /\ prev \in [Msgs -> Msgs]
      /\ msg \in [Procs -> MsgOrNull] /\ held \in [Procs -> MsgOrNull]
      /\ pc \in [Procs -> Labels] /\ live \subseteq Msgs
  BY DEF TypeInv, HeapType, LinkType, ProcType
<1>2. /\ \A q \in Procs : InHand(q) \cup InFrame(q) \cup R[q] \subseteq live
      /\ \A q \in Procs : pc[q] \in TakenAt \cup GivenAt => msg[q] \in live /\ msg[q] \in InHand(q)
      /\ \A q \in Procs : fpc[q] = "send" => frame[q] \in live /\ frame[q] \in InFrame(q)
      /\ held[FS] # NULL => held[FS] \in live /\ held[FS] \in InHand(FS)
  BY HandFacts DEF OwnInv, Hands, InBox
<1>3. PICK m : m = msg[p]
  OBVIOUS
<1>4. m \in live /\ m \in Msgs /\ m \in InHand(p)
  BY <1>1, <1>2, <1>3
<1>5. PICK S : S = Kept(m, R[p], next, prev, k)
  OBVIOUS
<1>6. PICK R2 : R2 = [R EXCEPT ![p] = S]
  OBVIOUS
<1>7. R2 \in BoxType
  BY <1>5, <1>6 DEF BoxType, Kept
<1>8. LeftLinks(m, R[p], mbox[p], next, prev) /\ \A q \in Procs : m \notin R[q]
  BY <1>3, <1>4 DEF OwnInv, Left, Hands
<1>9. Rings(R2, k)' /\ InBox(R2)' /\ mbox' = mbox /\ \A q \in Procs : R2[q] \subseteq R[q]
  BY <1>3, <1>4, <1>5, <1>6, <1>7, <1>8, FreeRings DEF OwnInv
<1>10. R2[p] = S /\ \A q \in Procs \ {p} : R2[q] = R[q]
  BY <1>6 DEF BoxType
<1>11. live' = live \ {m} /\ to' = to
  BY <1>3 DEF msg_free
<1>12. \A y \in Msgs \ {m} : from'[y] = from[y] /\ op'[y] = op[y] /\ rally'[y] = rally[y]
  BY <1>1, <1>3 DEF msg_free
<1>13. \A y \in Msgs \ {m} : /\ y # prev[m] => next'[y] = next[y]
                             /\ y # next[m] => prev'[y] = prev[y]
  BY <1>1, <1>3 DEF msg_free
<1>14. m # prev[m] => next'[prev[m]] = next[m]
  BY <1>1, <1>3, <1>4 DEF msg_free
<1>15. \A y \in Msgs \ {m} : y \notin R[p] => next'[y] = next[y] /\ prev'[y] = prev[y]
  BY <1>8, <1>13 DEF LeftLinks
<1>16. \A q \in Procs : InFrame(q)' = InFrame(q)
  BY DEF InFrame
<1>17. \A q \in Procs \ {p} : InHand(q)' = InHand(q)
  BY DEF InHand
<1>18. \A q, r \in Procs : q # r => R[q] \cap R[r] = {}
  BY DEF OwnInv, InBox
<1>19. InHand(p)' \subseteq InHand(p) \ {m}
  <2>1. held[p] # m
    BY <1>3, <1>4 DEF OwnInv, Hands
  <2>2. CASE held'[p] = held[p] /\ pc'[p] \in {"idle", "check"}
    BY <2>1, <2>2 DEF InHand
  <2>3. CASE p = FS /\ held'[FS] = NULL /\ msg'[FS] = held[FS] /\ held[FS] # NULL
    BY <2>1, <2>3 DEF InHand
  <2> QED
    BY <2>2, <2>3
<1>20. \A q \in Procs \ {p} : m \notin InHand(q) /\ m \notin InFrame(q)
  BY <1>4 DEF OwnInv, Hands
<1>21. m \notin InFrame(p)
  BY <1>4 DEF OwnInv, Hands
<1>22. Hands(R2)'
  <2>1. \A q \in Procs : InHand(q)' \subseteq InHand(q) \ {m} /\ InFrame(q)' \subseteq InFrame(q) \ {m}
    BY <1>16, <1>17, <1>19, <1>20, <1>21
  <2>2. \A q \in Procs : InHand(q)' \cup InFrame(q)' \subseteq live'
    BY <1>2, <1>11, <2>1
  <2>3. \A q \in Procs : held'[q] # NULL => q = FS /\ held'[q] # msg'[q]
    <3> SUFFICES ASSUME NEW q \in Procs, held'[q] # NULL PROVE q = FS /\ held'[q] # msg'[q]
      OBVIOUS
    <3>1. CASE q # p
      BY <3>1 DEF OwnInv, Hands
    <3>2. CASE q = p
      BY <3>2 DEF OwnInv, Hands
    <3> QED
      BY <3>1, <3>2
  <2>4. \A q, r \in Procs : (InHand(q)' \cup InFrame(q)') \cap R2[r] = {} /\ InHand(q)' \cap InFrame(r)' = {}
    BY <1>9, <2>1 DEF OwnInv, Hands
  <2>5. \A q, r \in Procs : q # r => InHand(q)' \cap InHand(r)' = {} /\ InFrame(q)' \cap InFrame(r)' = {}
    BY <2>1 DEF OwnInv, Hands
  <2> QED
    BY <2>2, <2>3, <2>4, <2>5 DEF Hands
\* What others have in hand is another message.
<1>23. /\ \A q \in Procs \ {p} : pc[q] \in TakenAt \cup GivenAt => msg[q] \in Msgs \ {m}
       /\ \A q \in Procs : fpc[q] = "send" => frame[q] \in Msgs \ {m}
       /\ held[FS] # NULL => held[FS] \in Msgs \ {m}
  <2>1. held[FS] # NULL => held[FS] # m
    <3>1. CASE p = FS
      BY <1>3, <3>1 DEF OwnInv, Hands
    <3>2. CASE p # FS
      BY <1>2, <1>20, <3>2
    <3> QED
      BY <3>1, <3>2
  <2> QED
    BY <1>1, <1>2, <1>20, <1>21, <2>1
<1>24. Told'
  <2>1. \A q \in Procs : pc'[q] \in TakenAt =>
          to'[msg'[q]] = q /\ Len(rally'[msg'[q]]) >= 1 /\ Last(rally'[msg'[q]]) = q
    <3> SUFFICES ASSUME NEW q \in Procs, pc'[q] \in TakenAt
                 PROVE  to'[msg'[q]] = q /\ Len(rally'[msg'[q]]) >= 1 /\ Last(rally'[msg'[q]]) = q
      OBVIOUS
    <3>1. CASE q # p
      BY <1>11, <1>12, <1>23, <3>1 DEF OwnInv, Told
    <3>2. CASE q = p
      <4>1. p = FS /\ held[FS] # NULL /\ msg'[FS] = held[FS]
        BY <3>2 DEF TakenAt
      <4> QED
        BY <1>11, <1>12, <1>23, <3>2, <4>1 DEF OwnInv, Told
    <3> QED
      BY <3>1, <3>2
  <2>2. \A q \in Procs : pc'[q] \in GivenAt => q # p
    BY DEF GivenAt
  <2>3. \A q \in Procs : pc'[q] \in GivenAt =>
          \/ rally'[msg'[q]] = <<>>
          \/ Len(rally'[msg'[q]]) >= 1 /\ Last(rally'[msg'[q]]) = from'[msg'[q]]
    BY <1>12, <1>23, <2>2 DEF OwnInv, Told
  <2>4. \A q \in Procs : fpc'[q] = "send" => rally'[frame'[q]] = <<>>
    BY <1>12, <1>23 DEF OwnInv, Told
  <2>5. held'[FS] # NULL =>
          to'[held'[FS]] = FS /\ Len(rally'[held'[FS]]) >= 1 /\ Last(rally'[held'[FS]]) = FS
    <3>1. held'[FS] # NULL => held'[FS] = held[FS]
      OBVIOUS
    <3> QED
      BY <1>11, <1>12, <1>23, <3>1 DEF OwnInv, Told
  <2> QED
    BY <2>1, <2>3, <2>4, <2>5 DEF Told
<1>25. Left(R2, k)'
  \* Another process' ring, and what was taken from it.
  <2>1. ASSUME NEW q \in Procs \ {p}, NEW y \in Msgs \ {m}, y \notin R[p],
               LeftLinks(y, R[q], mbox[q], next, prev)
        PROVE  /\ LeftLinks(y, R2[q], mbox'[q], next', prev')
               /\ Kept(y, R2[q], next', prev', k) = Kept(y, R[q], next, prev, k)
    <3>1. \A z \in R[q] : next'[z] = next[z]
      BY <1>1, <1>2, <1>8, <1>15, <1>18
    <3>2. next'[y] = next[y] /\ prev'[y] = prev[y]
      BY <1>15, <2>1
    <3>3. R2[q] = R[q] /\ mbox'[q] = mbox[q]
      BY <1>9, <1>10
    <3>4. /\ LeftLinks(y, R[q], mbox[q], next', prev')
          /\ Kept(y, R[q], next', prev', k) = Kept(y, R[q], next, prev, k)
      BY <2>1, <3>1, <3>2, LeftSame
    <3> QED
      BY <3>3, <3>4
  <2>2. \A q \in Procs \ {p} : pc[q] \in TakenAt => msg[q] \in Msgs \ {m} /\ msg[q] \notin R[p]
    BY <1>2, <1>23 DEF OwnInv, Hands
  <2>3. held[FS] # NULL => held[FS] \in Msgs \ {m} /\ held[FS] \notin R[p]
    BY <1>2, <1>23 DEF OwnInv, Hands
  <2>4. \A q \in Procs \ {p} : pc'[q] \in TakenAt => LeftLinks(msg'[q], R2[q], mbox'[q], next', prev')
    BY <2>1, <2>2 DEF OwnInv, Left
  <2>5. ASSUME pc'[p] \in TakenAt
        PROVE  LeftLinks(msg'[p], R2[p], mbox'[p], next', prev')
    <3>1. p = FS /\ pc[FS] = "got" /\ held[FS] # NULL /\ msg'[FS] = held[FS]
      BY <2>5 DEF TakenAt
    <3>2. PICK h : h = held[FS]
      OBVIOUS
    <3>3. /\ LeftLinks(h, R[FS], mbox[FS], next, prev)
          /\ next[h] # h => {prev[h], next[h]} \subseteq S
      BY <1>3, <1>5, <3>1, <3>2 DEF OwnInv, Left
    <3>4. next'[h] = next[h] /\ prev'[h] = prev[h]
      BY <1>15, <2>3, <3>1, <3>2
    <3>5. CASE next[h] = h
      <4>1. h \notin R[FS]
        BY <2>3, <3>1, <3>2
      <4>2. prev[h] = h
        BY <3>3, <3>5, <4>1 DEF LeftLinks
      <4> QED
        BY <3>1, <3>2, <3>4, <3>5, <4>2 DEF LeftLinks
    <3>6. CASE next[h] # h
      <4>1. PICK a, b : a = prev[h] /\ b = next[h]
        OBVIOUS
      <4>2. a \in S /\ b \in S /\ a \in R[FS] /\ b \in R[FS] /\ (next[a] = b \/ b = mbox[FS])
        BY <3>3, <3>6, <4>1 DEF LeftLinks
      <4>3. a # m
        BY <1>8, <4>2
      <4>4. b # mbox[FS] => next'[a] = b
        <5> SUFFICES ASSUME b # mbox[FS] PROVE next'[a] = b
          OBVIOUS
        <5>1. next[a] = b
          BY <4>2
        <5>2. CASE a # prev[m]
          BY <1>1, <1>13, <4>2, <4>3, <5>1, <5>2 DEF BoxType
        <5>3. CASE a = prev[m]
          <6>1. next'[a] = next[m]
            BY <1>14, <4>3, <5>3
          <6>2. next[m] # m
            <7>1. a # m /\ prev[m] = a
              BY <4>3, <5>3
            <7> QED
              BY <1>8, <3>1, <7>1 DEF LeftLinks
          <6>3. k[a] < k[b]
            <7>1. RingRank(R[FS], mbox[FS], next, k)
              BY DEF OwnInv, Rings, RingOf
            <7> QED
              BY <4>2, <5>1, <7>1 DEF RingRank
          <6>4. ~ (k[b] <= k[a])
            BY <4>2, <6>3 DEF RankType, BoxType
          <6>5. next[prev[m]] = next[m]
            BY <1>5, <3>1, <4>2, <5>3, <6>2, <6>4 DEF Kept
          <6> QED
            BY <5>1, <5>3, <6>1, <6>5
        <5> QED
          BY <5>2, <5>3
      <4> QED
        BY <1>9, <1>10, <3>1, <3>2, <3>4, <4>1, <4>2, <4>4 DEF LeftLinks
    <3> QED
      BY <3>5, <3>6
  <2>6. ASSUME held'[FS] # NULL
        PROVE  /\ LeftLinks(held'[FS], R2[FS], mbox'[FS], next', prev')
               /\ next'[held'[FS]] # held'[FS] =>
                    /\ from'[prev'[held'[FS]]] # Driver /\ from'[next'[held'[FS]]] # Driver
                    /\ pc'[FS] = "got" => {prev'[held'[FS]], next'[held'[FS]]}
                                            \subseteq Kept(msg'[FS], R2[FS], next', prev', k)
    <3>1. p # FS /\ held'[FS] = held[FS] /\ held[FS] # NULL /\ pc'[FS] = pc[FS] /\ msg'[FS] = msg[FS]
      BY <2>6
    <3>2. PICK h : h = held[FS]
      OBVIOUS
    <3>3. /\ LeftLinks(h, R[FS], mbox[FS], next, prev)
          /\ next[h] # h => /\ from[prev[h]] # Driver /\ from[next[h]] # Driver
                            /\ pc[FS] = "got" => {prev[h], next[h]} \subseteq Kept(msg[FS], R[FS], next, prev, k)
      BY <3>1, <3>2 DEF OwnInv, Left
    <3>4. next'[h] = next[h] /\ prev'[h] = prev[h] /\ LeftLinks(h, R2[FS], mbox'[FS], next', prev')
      BY <1>15, <2>1, <2>3, <3>1, <3>2, <3>3
    <3>5. next[h] # h => prev[h] \in Msgs \ {m} /\ next[h] \in Msgs \ {m}
      BY <1>1, <1>2, <1>8, <3>3 DEF LeftLinks
    <3>6. next[h] # h => from'[prev[h]] # Driver /\ from'[next[h]] # Driver
      BY <1>12, <3>3, <3>5
    <3>7. pc[FS] = "got" => Kept(msg'[FS], R2[FS], next', prev', k) = Kept(msg[FS], R[FS], next, prev, k)
      <4> SUFFICES ASSUME pc[FS] = "got"
                   PROVE  Kept(msg[FS], R2[FS], next', prev', k) = Kept(msg[FS], R[FS], next, prev, k)
        BY <3>1
      <4>1. LeftLinks(msg[FS], R[FS], mbox[FS], next, prev)
        BY DEF OwnInv, Left, TakenAt
      <4>2. msg[FS] \in Msgs \ {m} /\ msg[FS] \notin R[p]
        BY <2>2, <3>1 DEF TakenAt
      <4> QED
        BY <2>1, <3>1, <4>1, <4>2
    <3> QED
      BY <3>1, <3>2, <3>3, <3>4, <3>6, <3>7
  <2> QED
    BY <2>4, <2>5, <2>6 DEF Left
<1>26. Asked'
  <2>1. \A y \in live' :
          (from'[y] = FS /\ to'[y] = Driver) \/ (from'[y] = Driver /\ to'[y] = FS)
            => held'[FS] # NULL /\ y = msg'[FS]
    <3>1. \A y \in live' :
          (from'[y] = FS /\ to'[y] = Driver) \/ (from'[y] = Driver /\ to'[y] = FS)
            => held[FS] # NULL /\ y = msg[FS] /\ y # m
      BY <1>1, <1>11, <1>12 DEF OwnInv, Asked
    <3> QED
      BY <1>3, <3>1
  <2>2. pc'[FS] \in GivenAt => op'[msg'[FS]] = "SYS_READ"
    <3>1. pc'[FS] \in GivenAt => p # FS
      BY DEF GivenAt
    <3> QED
      BY <1>12, <1>23, <3>1 DEF OwnInv, Asked
  <2>3. pc'[FS] # "wakeSync"
    BY DEF OwnInv, Asked
  <2> QED
    BY <2>1, <2>2, <2>3 DEF Asked
<1>27. SeenHead'
  <2>1. \A q \in Procs : pc'[q] = "lock" => pc[q] = "lock"
    OBVIOUS
  <2> QED
    BY <1>9, <2>1 DEF OwnInv, SeenHead
<1>28. OwnInv(R2, k)'
  BY <1>7, <1>9, <1>22, <1>24, <1>25, <1>26, <1>27 DEF OwnInv, BoxType, RankType
<1> QED
  BY <1>7, <1>28

\* cleanup, the end of dev_rw, fs_main's and drvr_main's frees.
LEMMA FreesOwn ==
  ASSUME TypeInv, NEW R \in BoxType, NEW k \in RankType, OwnInv(R, k),
         \/ \E c \in Clients : ClientReturn(c)
         \/ FsDriverDone \/ FsFree \/ DriverIrq
  PROVE  \E R2 \in BoxType : OwnInv(R2, k)'
<1> USE ProcsFacts
<1>1. /\ msg \in [Procs -> MsgOrNull] /\ held \in [Procs -> MsgOrNull] /\ pc \in [Procs -> Labels]
      /\ FS # Driver
  BY IpcAssumption DEF TypeInv, ProcType
<1>2. ASSUME NEW c \in Clients, ClientReturn(c)
      PROVE  \E R2 \in BoxType : OwnInv(R2, k)'
  <2>1. c \in Procs /\ c # FS /\ pc[c] \in TakenAt /\ msg_free(msg[c]) /\ UNCHANGED <<held, seen, frame, fpc>>
    BY <1>2, IpcAssumption DEF ClientReturn, At, TakenAt, irqVars
  <2>2. pc'[c] = "idle" /\ \A q \in Procs \ {c} : pc'[q] = pc[q] /\ msg'[q] = msg[q]
    BY <1>1, <1>2, <2>1 DEF ClientReturn, Goto
  <2> QED
    BY <2>1, <2>2, FreeOwn
<1>3. CASE FsDriverDone
  <2>1. /\ pc[FS] = "got" /\ held[FS] # NULL /\ msg_free(msg[FS]) /\ UNCHANGED <<seen, frame, fpc>>
        /\ pc[FS] \in TakenAt
    BY <1>3 DEF FsDriverDone, At, TakenAt, irqVars
  <2>2. pc'[FS] = "served" /\ msg'[FS] = held[FS] /\ held'[FS] = NULL
    BY <1>1, <1>3 DEF FsDriverDone, Goto
  <2>3. \A q \in Procs \ {FS} : pc'[q] = pc[q] /\ msg'[q] = msg[q] /\ held'[q] = held[q]
    BY <1>1, <1>3 DEF FsDriverDone, Goto
  <2> QED
    BY <2>1, <2>2, <2>3, FreeOwn
<1>4. CASE FsFree
  <2>1. /\ pc[FS] \in TakenAt /\ held[FS] = NULL /\ msg_free(msg[FS]) /\ UNCHANGED <<held, seen, frame, fpc>>
    BY <1>4 DEF FsFree, FsServed, TakenAt, irqVars
  <2>2. pc'[FS] = "check" /\ \A q \in Procs \ {FS} : pc'[q] = pc[q] /\ msg'[q] = msg[q]
    BY <1>1, <1>4 DEF FsFree, Goto
  <2> QED
    BY <2>1, <2>2, FreeOwn
<1>5. CASE DriverIrq
  <2>1. /\ pc[Driver] \in TakenAt /\ msg_free(msg[Driver]) /\ UNCHANGED <<held, seen, frame, fpc>>
    BY <1>5 DEF DriverIrq, At, TakenAt, irqVars
  <2>2. pc'[Driver] = "check" /\ \A q \in Procs \ {Driver} : pc'[q] = pc[q] /\ msg'[q] = msg[q]
    BY <1>1, <1>5 DEF DriverIrq, Goto
  <2> QED
    BY <1>1, <2>1, <2>2, FreeOwn
<1> QED
  BY <1>2, <1>3, <1>4, <1>5

-----------------------------------------------------------------------------
(* msg_reply.                                                                *)

\* The message that is answered was its process' own; it goes back where it came from.
LEMMA ReplyOwn ==
  ASSUME TypeInv, NEW R \in BoxType, NEW k \in RankType, OwnInv(R, k), FsReply \/ DriverReply
  PROVE  OwnInv(R, k)'
<1> USE ProcsFacts
<1>1. /\ from \in [Msgs -> Pids] /\ to \in [Msgs -> Procs] /\ live \subseteq Msgs
      /\ msg \in [Procs -> MsgOrNull] /\ pc \in [Procs -> Labels]
      /\ FS # Driver
  BY IpcAssumption DEF TypeInv, HeapType, ProcType
<1>2. PICK p \in {FS, Driver} : /\ ReplyBegin(p) /\ pc[p] \in TakenAt
                                /\ p = FS => held[FS] = NULL /\ op[msg[FS]] = "SYS_READ"
  <2>1. CASE FsReply
    <3> WITNESS FS \in {FS, Driver}
    <3> QED
      BY <2>1 DEF FsReply, FsServed, TakenAt
  <2>2. CASE DriverReply
    <3> WITNESS Driver \in {FS, Driver}
    <3> QED
      BY <1>1, <2>2 DEF DriverReply, At, TakenAt
  <2> QED
    BY <2>1, <2>2
<1>3. p \in Procs
  OBVIOUS
<1>4. PICK m : m = msg[p]
  OBVIOUS
<1>5. /\ \A q \in Procs : InHand(q) \cup InFrame(q) \cup R[q] \subseteq live
      /\ \A q \in Procs : pc[q] \in TakenAt \cup GivenAt => msg[q] \in live /\ msg[q] \in InHand(q)
      /\ \A q \in Procs : fpc[q] = "send" => frame[q] \in live /\ frame[q] \in InFrame(q)
      /\ held[FS] # NULL => held[FS] \in live /\ held[FS] \in InHand(FS)
  BY HandFacts DEF OwnInv, Hands, InBox
<1>6. m \in live /\ m \in InHand(p) /\ m \in Msgs
  BY <1>1, <1>2, <1>3, <1>4, <1>5
<1>7. /\ UNCHANGED <<live, op, rally, msg, held, seen, mbox, next, prev, frame, fpc>>
      /\ pc' = [pc EXCEPT ![p] = "swap"]
  BY <1>2 DEF ReplyBegin, Goto, linkVars, irqVars
<1>8. from'[m] = to[m] /\ to'[m] = from[m] /\ \A x \in Msgs \ {m} : from'[x] = from[x] /\ to'[x] = to[x]
  BY <1>1, <1>2, <1>4, <1>6 DEF ReplyBegin
<1>9. pc'[p] = "swap" /\ \A q \in Procs \ {p} : pc'[q] = pc[q]
  BY <1>1, <1>3, <1>7
<1>10. \A q \in Procs : InHand(q)' = InHand(q) /\ InFrame(q)' = InFrame(q)
  BY <1>2, <1>7, <1>9 DEF InHand, InFrame, TakenAt
<1>11. \A q \in Procs \ {p} : pc[q] \in TakenAt \cup GivenAt => msg[q] \in Msgs \ {m}
  BY <1>1, <1>3, <1>5, <1>6 DEF OwnInv, Hands
<1>12. held[FS] # NULL => p # FS /\ held[FS] \in Msgs \ {m} /\ \A x \in R[FS] : x \in Msgs \ {m}
  BY <1>1, <1>2, <1>3, <1>5, <1>6 DEF OwnInv, Hands
<1>13. \A q \in Procs : R[q] \subseteq Msgs \ {m}
  BY <1>3, <1>6 DEF OwnInv, Hands, BoxType
<1>14. Rings(R, k)'
  BY <1>7 DEF OwnInv, Rings
<1>15. InBox(R)'
  BY <1>7, <1>8, <1>13 DEF OwnInv, InBox
<1>16. Hands(R)'
  BY <1>7, <1>10 DEF OwnInv, Hands
<1>17. Told'
  <2>1. \A q \in Procs : pc'[q] \in TakenAt =>
          to'[msg'[q]] = q /\ Len(rally'[msg'[q]]) >= 1 /\ Last(rally'[msg'[q]]) = q
    BY <1>7, <1>8, <1>9, <1>11 DEF OwnInv, Told, TakenAt
  <2>2. to[m] = p /\ Len(rally[m]) >= 1 /\ Last(rally[m]) = p
    BY <1>2, <1>3, <1>4 DEF OwnInv, Told
  <2>3. \A q \in Procs : pc'[q] \in GivenAt =>
          \/ rally'[msg'[q]] = <<>>
          \/ Len(rally'[msg'[q]]) >= 1 /\ Last(rally'[msg'[q]]) = from'[msg'[q]]
    <3> SUFFICES ASSUME NEW q \in Procs, pc'[q] \in GivenAt
                 PROVE  \/ rally'[msg'[q]] = <<>>
                        \/ Len(rally'[msg'[q]]) >= 1 /\ Last(rally'[msg'[q]]) = from'[msg'[q]]
      OBVIOUS
    <3>1. CASE q = p
      BY <1>4, <1>7, <1>8, <2>2, <3>1
    <3>2. CASE q # p
      BY <1>7, <1>8, <1>9, <1>11, <3>2 DEF OwnInv, Told
    <3> QED
      BY <3>1, <3>2
  <2>4. \A q \in Procs : fpc'[q] = "send" => rally'[frame'[q]] = <<>>
    BY <1>7 DEF OwnInv, Told
  <2>5. held'[FS] # NULL =>
          to'[held'[FS]] = FS /\ Len(rally'[held'[FS]]) >= 1 /\ Last(rally'[held'[FS]]) = FS
    BY <1>7, <1>8, <1>12 DEF OwnInv, Told
  <2> QED
    BY <2>1, <2>3, <2>4, <2>5 DEF Told
<1>18. Left(R, k)'
  <2>1. \A q \in Procs : pc'[q] \in TakenAt => LeftLinks(msg'[q], R[q], mbox'[q], next', prev')
    BY <1>7, <1>9 DEF OwnInv, Left, TakenAt
  <2>2. held[FS] # NULL => pc'[FS] = pc[FS] /\ LeftLinks(held[FS], R[FS], mbox[FS], next, prev)
    BY <1>9, <1>12 DEF OwnInv, Left
  <2>3. held[FS] # NULL /\ next[held[FS]] # held[FS] =>
          from'[prev[held[FS]]] # Driver /\ from'[next[held[FS]]] # Driver
    BY <1>8, <1>12, <2>2 DEF OwnInv, Left, LeftLinks
  <2> QED
    BY <1>7, <2>1, <2>2, <2>3 DEF OwnInv, Left
<1>19. Asked'
  <2>1. ASSUME NEW x \in live',
               (from'[x] = FS /\ to'[x] = Driver) \/ (from'[x] = Driver /\ to'[x] = FS)
        PROVE  held'[FS] # NULL /\ x = msg'[FS]
    <3>1. (from[x] = FS /\ to[x] = Driver) \/ (from[x] = Driver /\ to[x] = FS)
      BY <1>1, <1>7, <1>8, <2>1
    <3> QED
      BY <1>7, <3>1 DEF OwnInv, Asked
  <2>2. pc'[FS] \in GivenAt => op'[msg'[FS]] = "SYS_READ"
    BY <1>2, <1>7, <1>9 DEF OwnInv, Asked
  <2>3. pc'[FS] # "wakeSync"
    BY <1>9 DEF OwnInv, Asked
  <2> QED
    BY <2>1, <2>2, <2>3 DEF Asked
<1>20. SeenHead'
  BY <1>7, <1>9 DEF OwnInv, SeenHead
<1> QED
  BY <1>14, <1>15, <1>16, <1>17, <1>18, <1>19, <1>20 DEF OwnInv

-----------------------------------------------------------------------------
(* msg_check finds a message.                                                *)

\* What the file system gets while it waits for the driver is what it asked.
LEMMA DriverAnswers ==
  ASSUME NEW R, NEW k, OwnInv(R, k), NEW m \in R[FS], from[m] = Driver
  PROVE  held[FS] # NULL /\ m = msg[FS]
<1>1. m \in live /\ to[m] = FS
  BY ProcsFacts DEF OwnInv, InBox
<1> QED
  BY <1>1 DEF OwnInv, Asked

\* The message p takes out of its mailbox is in its hands then, and in no one else's.
LEMMA TakeOwn ==
  ASSUME TypeInv, NEW R \in BoxType, NEW k \in RankType, OwnInv(R, k), NEW p \in Procs,
         CheckLocked(p), pc'[p] # "sleep"
  PROVE  \E R2 \in BoxType : OwnInv(R2, k)'
<1> USE ProcsFacts
<1>1. /\ from \in [Msgs -> Pids] /\ to \in [Msgs -> Procs] /\ live \subseteq Msgs
      /\ next \in [Msgs -> Msgs] /\ prev \in [Msgs -> Msgs]
      /\ msg \in [Procs -> MsgOrNull] /\ seen \in [Procs -> MsgOrNull] /\ pc \in [Procs -> Labels]
      /\ Driver # ANYONE
  BY IpcAssumption DEF TypeInv, HeapType, LinkType, ProcType
<1>2. PICK m \in Msgs : /\ Settles(p, seen[p], Awaited(p), m)
                        /\ Behead(p, m) /\ Unlink(m)
                        /\ msg' = [msg EXCEPT ![p] = m] /\ Goto(p, "got")
  BY <1>1 DEF CheckLocked, Goto
<1>3. /\ pc[p] = "lock" /\ UNCHANGED <<held, live, from, to, op, rally, frame, fpc>>
      /\ seen' = [seen EXCEPT ![p] = NULL] /\ UNCHANGED heapVars
  BY DEF CheckLocked, At, heapVars, irqVars
<1>4. m \in R[p]
  BY <1>2, <1>3, SettlesIn DEF At
<1>5. PICK R2 : R2 = [R EXCEPT ![p] = R[p] \ {m}]
  OBVIOUS
<1>6. R2 \in BoxType
  BY <1>5 DEF BoxType
<1>7. /\ Rings(R2, k)' /\ InBox(R2)'
      /\ \A q \in Procs \ {p} : mbox'[q] = mbox[q]
      /\ \A q \in Procs : R2[q] \subseteq R[q] /\ m \notin R2[q]
      /\ LeftLinks(m, R2[p], mbox'[p], next', prev')
  <2>1. Rings(R, k) /\ InBox(R)
    BY DEF OwnInv
  <2>2. Behead(p, m) /\ Unlink(m) /\ UNCHANGED heapVars
    BY <1>2, <1>3
  <2>3. Taken(R, p, m, R2)
    BY <1>4, <1>5, <1>6 DEF Taken
  <2> QED
    BY <2>1, <2>2, <2>3, TakeRings
<1>8. R2[p] = R[p] \ {m} /\ \A q \in Procs \ {p} : R2[q] = R[q]
  BY <1>5 DEF BoxType
<1>9. pc'[p] = "got" /\ msg'[p] = m /\ \A q \in Procs \ {p} : pc'[q] = pc[q] /\ msg'[q] = msg[q]
  BY <1>1, <1>2 DEF Goto
<1>10. \A q, r \in Procs : q # r => R[q] \cap R[r] = {}
  BY DEF OwnInv, InBox
<1>11. RingLinks(R[p], next, prev) /\ RingSet(R[p], mbox[p]) /\ RingRank(R[p], mbox[p], next, k)
  BY DEF OwnInv, Rings, RingOf
<1>12. next[m] \in R[p] /\ prev[m] \in R[p] /\ prev[next[m]] = m /\ next[prev[m]] = m
  BY <1>4, <1>11 DEF RingLinks
<1>13. next' = [next EXCEPT ![prev[m]] = next[m]] /\ prev' = [prev EXCEPT ![next[m]] = prev[m]]
  BY <1>2 DEF Unlink
<1>14. \A y \in Msgs : /\ y # prev[m] => next'[y] = next[y]
                       /\ y # next[m] => prev'[y] = prev[y]
  BY <1>1, <1>13
<1>15. \A y \in Msgs : y \notin R[p] => next'[y] = next[y] /\ prev'[y] = prev[y]
  BY <1>12, <1>14
<1>16. /\ \A q \in Procs : InHand(q) \cup InFrame(q) \cup R[q] \subseteq live
       /\ \A q \in Procs : (InHand(q) \cup InFrame(q)) \cap R[p] = {}
       /\ \A q \in Procs : pc[q] \in TakenAt \cup GivenAt => msg[q] \in live /\ msg[q] \in InHand(q)
       /\ held[FS] # NULL => held[FS] \in live /\ held[FS] \in InHand(FS)
  BY HandFacts DEF OwnInv, Hands, InBox
<1>17. m \in live /\ \A q \in Procs : m \notin InHand(q) /\ m \notin InFrame(q)
  BY <1>4, <1>16
<1>18. p = FS /\ held[FS] # NULL => from[m] = Driver /\ m = msg[FS]
  <2> SUFFICES ASSUME p = FS, held[FS] # NULL PROVE from[m] = Driver /\ m = msg[FS]
    OBVIOUS
  <2>1. FS \notin Clients
    BY IpcAssumption
  <2>2. Awaited(p) = Driver
    BY <2>1 DEF Awaited
  <2>3. from[m] = Driver
    BY <1>1, <1>2, <2>2 DEF Settles
  <2> QED
    BY <1>4, <2>3, DriverAnswers
<1>19. Hands(R2)'
  <2>1. \A q \in Procs \ {p} : InHand(q)' = InHand(q)
    BY <1>3, <1>9 DEF InHand
  <2>2. InHand(p)' = {m} \cup InHand(p)
    BY <1>3, <1>9 DEF InHand
  <2>3. \A q \in Procs : InFrame(q)' = InFrame(q)
    BY <1>3 DEF InFrame
  <2>4. \A q \in Procs : held'[q] # NULL => q = FS /\ held'[q] # msg'[q]
    <3>1. held[FS] # m
      BY <1>16, <1>17
    <3> QED
      BY <1>3, <1>9, <3>1 DEF OwnInv, Hands
  <2>5. \A q \in Procs : InHand(q)' \cup InFrame(q)' \subseteq live'
    BY <1>3, <1>16, <1>17, <2>1, <2>2, <2>3
  <2>6. \A q, r \in Procs : (InHand(q)' \cup InFrame(q)') \cap R2[r] = {}
    BY <1>7, <2>1, <2>2, <2>3 DEF OwnInv, Hands
  <2>7. \A q, r \in Procs : InHand(q)' \cap InFrame(r)' = {}
    BY <1>17, <2>1, <2>2, <2>3 DEF OwnInv, Hands
  <2>8. \A q, r \in Procs : q # r => InHand(q)' \cap InHand(r)' = {} /\ InFrame(q)' \cap InFrame(r)' = {}
    BY <1>17, <2>1, <2>2, <2>3 DEF OwnInv, Hands
  <2> QED
    BY <2>4, <2>5, <2>6, <2>7, <2>8 DEF Hands
<1>20. Told'
  <2>1. to[m] = p /\ Len(rally[m]) >= 2 /\ Last(rally[m]) = p
    BY <1>4 DEF OwnInv, InBox
  <2>2. Len(rally[m]) >= 1
    BY <2>1, <1>4 DEF TypeInv, HeapType, BoxType
  <2>3. \A q \in Procs : pc'[q] \in TakenAt =>
          to'[msg'[q]] = q /\ Len(rally'[msg'[q]]) >= 1 /\ Last(rally'[msg'[q]]) = q
    BY <1>3, <1>9, <2>1, <2>2 DEF OwnInv, Told
  <2>4. \A q \in Procs : pc'[q] \in GivenAt =>
          \/ rally'[msg'[q]] = <<>>
          \/ Len(rally'[msg'[q]]) >= 1 /\ Last(rally'[msg'[q]]) = from'[msg'[q]]
    BY <1>3, <1>9 DEF OwnInv, Told, GivenAt
  <2>5. \A q \in Procs : fpc'[q] = "send" => rally'[frame'[q]] = <<>>
    BY <1>3 DEF OwnInv, Told
  <2>6. held'[FS] # NULL =>
          to'[held'[FS]] = FS /\ Len(rally'[held'[FS]]) >= 1 /\ Last(rally'[held'[FS]]) = FS
    BY <1>3 DEF OwnInv, Told
  <2> QED
    BY <2>3, <2>4, <2>5, <2>6 DEF Told
<1>21. Left(R2, k)'
  \* Another process' ring, and what was taken from it.
  <2>1. ASSUME NEW q \in Procs \ {p}, NEW y \in Msgs, y \notin R[p],
               LeftLinks(y, R[q], mbox[q], next, prev)
        PROVE  /\ LeftLinks(y, R2[q], mbox'[q], next', prev')
               /\ Kept(y, R2[q], next', prev', k) = Kept(y, R[q], next, prev, k)
    <3>1. \A z \in R[q] : next'[z] = next[z]
      BY <1>1, <1>10, <1>15, <1>16
    <3>2. next'[y] = next[y] /\ prev'[y] = prev[y]
      BY <1>15, <2>1
    <3>3. R2[q] = R[q] /\ mbox'[q] = mbox[q]
      BY <1>7, <1>8
    <3>4. /\ LeftLinks(y, R[q], mbox[q], next', prev')
          /\ Kept(y, R[q], next', prev', k) = Kept(y, R[q], next, prev, k)
      BY <2>1, <3>1, <3>2, LeftSame
    <3> QED
      BY <3>3, <3>4
  <2>2. \A q \in Procs : pc[q] \in TakenAt => msg[q] \in Msgs /\ msg[q] \notin R[p]
    BY <1>1, <1>16
  <2>3. held[FS] # NULL => held[FS] \in Msgs /\ held[FS] \notin R[p]
    BY <1>1, <1>16
  <2>4. \A q \in Procs : pc'[q] \in TakenAt => LeftLinks(msg'[q], R2[q], mbox'[q], next', prev')
    <3>1. \A q \in Procs \ {p} : pc'[q] \in TakenAt => LeftLinks(msg'[q], R2[q], mbox'[q], next', prev')
      BY <1>9, <2>1, <2>2 DEF OwnInv, Left
    <3> QED
      BY <1>7, <1>9, <3>1
  <2>5. ASSUME held'[FS] # NULL
        PROVE  /\ LeftLinks(held'[FS], R2[FS], mbox'[FS], next', prev')
               /\ next'[held'[FS]] # held'[FS] =>
                    /\ from'[prev'[held'[FS]]] # Driver /\ from'[next'[held'[FS]]] # Driver
                    /\ pc'[FS] = "got" => {prev'[held'[FS]], next'[held'[FS]]}
                                            \subseteq Kept(msg'[FS], R2[FS], next', prev', k)
    <3>1. PICK h : h = held[FS]
      OBVIOUS
    <3>2. held'[FS] = h /\ held[FS] # NULL /\ h \in Msgs /\ h \notin R[p]
      BY <1>3, <2>3, <2>5, <3>1
    <3>3. /\ LeftLinks(h, R[FS], mbox[FS], next, prev)
          /\ next[h] # h => /\ from[prev[h]] # Driver /\ from[next[h]] # Driver
                            /\ pc[FS] = "got" => {prev[h], next[h]} \subseteq Kept(msg[FS], R[FS], next, prev, k)
      BY <3>1, <3>2 DEF OwnInv, Left
    <3>4. next'[h] = next[h] /\ prev'[h] = prev[h]
      BY <1>15, <3>2
    <3>5. next[h] # h => from'[prev'[h]] # Driver /\ from'[next'[h]] # Driver
      BY <1>3, <3>3, <3>4
    <3>6. CASE p # FS
      <4>1. LeftLinks(h, R2[FS], mbox'[FS], next', prev')
        BY <2>1, <3>2, <3>3, <3>6
      <4>2. pc[FS] = "got" => Kept(msg[FS], R2[FS], next', prev', k) = Kept(msg[FS], R[FS], next, prev, k)
        BY <2>1, <2>2, <3>6 DEF OwnInv, Left, TakenAt
      <4> QED
        BY <1>9, <3>2, <3>3, <3>4, <3>5, <3>6, <4>1, <4>2
    <3>7. CASE p = FS
      <4>1. from[m] = Driver
        BY <1>18, <3>2, <3>7
      <4>2. CASE next[h] = h
        <5>1. prev[h] = h
          BY <3>2, <3>3, <3>7, <4>2 DEF LeftLinks
        <5> QED
          BY <3>2, <3>4, <4>2, <5>1 DEF LeftLinks
      <4>3. CASE next[h] # h
        <5>1. PICK a, b : a = prev[h] /\ b = next[h]
          OBVIOUS
        <5>2. a \in R[FS] /\ b \in R[FS] /\ a # m /\ b # m /\ (next[a] = b \/ b = mbox[FS])
          BY <3>3, <4>1, <4>3, <5>1 DEF LeftLinks
        <5>3. a \in R2[FS] /\ b \in R2[FS] /\ a \in Msgs
          BY <1>1, <1>8, <1>16, <3>7, <5>2
        <5>4. next[a] = b => next'[a] = b
          BY <1>12, <1>14, <5>2, <5>3
        <5>5. b = mbox[FS] => b = mbox'[FS]
          BY <1>2, <3>7, <5>2 DEF Behead
        <5>6. LeftLinks(h, R2[FS], mbox'[FS], next', prev')
          BY <3>4, <5>1, <5>2, <5>3, <5>4, <5>5 DEF LeftLinks
        <5>7. next'[m] = m \/ next'[prev'[m]] = next'[m]
          <6>1. CASE next[m] = m
            BY <1>1, <1>12, <1>13, <6>1
          <6>2. CASE next[m] # m
            <7>1. prev[m] # m
              BY <1>12, <6>2
            <7>2. next'[m] = next[m] /\ prev'[m] = prev[m]
              BY <1>14, <6>2, <7>1
            <7>3. next'[prev[m]] = next[m]
              BY <1>1, <1>13
            <7> QED
              BY <7>2, <7>3
          <6> QED
            BY <6>1, <6>2
        <5>8. Kept(m, R2[FS], next', prev', k) = R2[FS]
          BY <5>7 DEF Kept
        <5> QED
          BY <1>9, <3>2, <3>4, <3>5, <3>7, <5>1, <5>3, <5>6, <5>8
      <4> QED
        BY <4>2, <4>3
    <3> QED
      BY <3>6, <3>7
  <2> QED
    BY <2>4, <2>5 DEF Left
<1>22. Asked'
  <2>1. held[FS] # NULL => msg'[FS] = msg[FS]
    BY <1>9, <1>18
  <2>2. pc'[FS] # "wakeSync" /\ (pc'[FS] \in GivenAt => pc[FS] \in GivenAt /\ msg'[FS] = msg[FS])
    BY <1>9 DEF OwnInv, Asked, GivenAt
  <2> QED
    BY <1>3, <2>1, <2>2 DEF OwnInv, Asked
<1>23. SeenHead'
  BY <1>1, <1>3, <1>7, <1>9 DEF OwnInv, SeenHead
<1>24. OwnInv(R2, k)'
  BY <1>6, <1>7, <1>19, <1>20, <1>21, <1>22, <1>23 DEF OwnInv, BoxType, RankType
<1> QED
  BY <1>6, <1>24

-----------------------------------------------------------------------------
(* msg_send.                                                                 *)

\* A message m goes from p's hands, or from a handler on p's stack, to the tail
\* of its recipient's mailbox.
LEMMA SendOwn ==
  ASSUME TypeInv, NEW R \in BoxType, NEW k \in RankType, OwnInv(R, k), NEW p \in Procs,
         NEW m \in InHand(p) \cup InFrame(p), msg_send(m),
         rally[m] = <<>> \/ (Len(rally[m]) >= 1 /\ Last(rally[m]) = from[m]),
         UNCHANGED <<msg, held, seen>>, m # held[FS],
         \A q \in Procs : /\ InHand(q)' \subseteq InHand(q) \ {m}
                          /\ InFrame(q)' \subseteq InFrame(q) \ {m}
                          /\ pc'[q] \in TakenAt => pc'[q] = pc[q]
                          /\ pc'[q] \in GivenAt => pc'[q] = pc[q]
                          /\ pc'[q] = "lock" => pc[q] = "lock"
                          /\ fpc'[q] = "send" => fpc[q] = "send" /\ frame'[q] = frame[q],
         pc'[FS] # "wakeSync"
  PROVE  \E R2 \in BoxType, k2 \in RankType : OwnInv(R2, k2)'
<1> USE ProcsFacts
<1>1. /\ from \in [Msgs -> Pids] /\ to \in [Msgs -> Procs] /\ live \subseteq Msgs
      /\ rally \in [Msgs -> Seq(Pids)] /\ next \in [Msgs -> Msgs] /\ prev \in [Msgs -> Msgs]
      /\ mbox \in [Procs -> MsgOrNull] /\ msg \in [Procs -> MsgOrNull]
  BY DEF TypeInv, HeapType, LinkType, ProcType
<1>2. /\ \A q \in Procs : InHand(q) \cup InFrame(q) \cup R[q] \subseteq live
      /\ \A q, r \in Procs : (InHand(q) \cup InFrame(q)) \cap R[r] = {}
  BY DEF OwnInv, Hands, InBox
<1>3. m \in live /\ m \in Msgs /\ \A q \in Procs : m \notin R[q]
  BY <1>1, <1>2
<1>4. PICK d \in Procs : d = to[m]
  BY <1>1, <1>3
<1>5. PICK R2 : R2 = [R EXCEPT ![d] = R[d] \cup {m}]
  OBVIOUS
<1>6. \E k2 : /\ mbox[d] = NULL => k2 = k
              /\ mbox[d] # NULL => k2 = [k EXCEPT ![m] = k[prev[mbox[d]]] + 1]
  <2>1. CASE mbox[d] = NULL
    <3> WITNESS k
    <3> QED
      BY <2>1
  <2>2. CASE mbox[d] # NULL
    <3> WITNESS [k EXCEPT ![m] = k[prev[mbox[d]]] + 1]
    <3> QED
      BY <2>2
  <2> QED
    BY <2>1, <2>2
<1>7. PICK k2 : /\ mbox[d] = NULL => k2 = k
                /\ mbox[d] # NULL => k2 = [k EXCEPT ![m] = k[prev[mbox[d]]] + 1]
  BY <1>6
<1>8. R2 \in BoxType
  BY <1>3, <1>5 DEF BoxType
<1>9. k2 \in RankType
  <2>1. CASE mbox[d] = NULL
    BY <1>7, <2>1
  <2>2. CASE mbox[d] # NULL
    <3>1. mbox[d] \in Msgs /\ prev[mbox[d]] \in Msgs
      BY <1>1, <2>2 DEF MsgOrNull
    <3>2. k[prev[mbox[d]]] + 1 \in Nat
      BY <3>1 DEF RankType
    <3> QED
      BY <1>7, <2>2, <3>2 DEF RankType
  <2> QED
    BY <2>1, <2>2
<1>10. /\ Rings(R2, k2)' /\ InBox(R2)'
       /\ \A x \in Msgs \ {m} : k2[x] = k[x]
       /\ \A q \in Procs : mbox[q] # NULL => mbox'[q] = mbox[q]
  <2>1. Rings(R, k) /\ InBox(R)
    BY DEF OwnInv
  <2>2. R2 = [R EXCEPT ![to[m]] = R[to[m]] \cup {m}]
    BY <1>4, <1>5
  <2>3. /\ mbox[to[m]] = NULL => k2 = k
        /\ mbox[to[m]] # NULL => k2 = [k EXCEPT ![m] = k[prev[mbox[to[m]]]] + 1]
    BY <1>4, <1>7
  <2>4. Joined(R, k, m, R2, k2)
    BY <1>8, <1>9, <2>2, <2>3 DEF Joined
  <2> QED
    BY <1>3, <2>1, <2>4, SendRings
<1>11. R2[d] = R[d] \cup {m} /\ \A q \in Procs \ {d} : R2[q] = R[q]
  BY <1>5 DEF BoxType
<1>12. UNCHANGED <<live, from, to, op>>
  BY DEF msg_send
<1>13. \A x \in Msgs \ {m} : rally'[x] = rally[x]
  BY <1>1, <1>3 DEF msg_send, rally_grow
<1>14. \A q \in Procs \ {d} : mbox'[q] = mbox[q]
  BY <1>1, <1>4 DEF msg_send
<1>15. mbox[d] = NULL => \A x \in Msgs \ {m} : next'[x] = next[x] /\ prev'[x] = prev[x]
  BY <1>1, <1>3, <1>4 DEF msg_send
<1>16. mbox[d] # NULL =>
         /\ \A x \in Msgs \ {m} : /\ x # prev[mbox[d]] => next'[x] = next[x]
                                  /\ x # mbox[d] => prev'[x] = prev[x]
         /\ prev[mbox[d]] # m => next'[prev[mbox[d]]] = m
  <2> SUFFICES ASSUME mbox[d] # NULL
               PROVE  /\ \A x \in Msgs \ {m} : /\ x # prev[mbox[d]] => next'[x] = next[x]
                                               /\ x # mbox[d] => prev'[x] = prev[x]
                      /\ prev[mbox[d]] # m => next'[prev[mbox[d]]] = m
    OBVIOUS
  <2>1. /\ next' = [next EXCEPT ![m] = mbox[d], ![prev[mbox[d]]] = m]
        /\ prev' = [prev EXCEPT ![m] = prev[mbox[d]], ![mbox[d]] = m]
    BY <1>4 DEF msg_send
  <2>2. prev[mbox[d]] \in Msgs
    BY <1>1 DEF MsgOrNull
  <2> QED
    BY <1>1, <2>1, <2>2
<1>17. \A q \in Procs : /\ RingOf(R[q], mbox[q], next, prev, k)
                        /\ R[q] \subseteq Msgs \ {m} /\ (mbox[q] # NULL => mbox[q] \in R[q] /\ prev[mbox[q]] \in R[q])
  BY <1>3 DEF OwnInv, Rings, RingOf, RingSet, RingLinks, BoxType
<1>18. \A x \in Msgs \ {m} : (\A q \in Procs : x \notin R[q]) => next'[x] = next[x] /\ prev'[x] = prev[x]
  BY <1>15, <1>16, <1>17
<1>19. \A q, r \in Procs : q # r => R[q] \cap R[r] = {}
  BY DEF OwnInv, InBox
\* What was taken out of a mailbox keeps its neighbours there.
<1>20. ASSUME NEW q \in Procs, NEW x \in Msgs \ {m}, \A r \in Procs : x \notin R[r],
              LeftLinks(x, R[q], mbox[q], next, prev)
       PROVE  /\ LeftLinks(x, R2[q], mbox'[q], next', prev')
              /\ Kept(x, R[q], next, prev, k) \subseteq Kept(x, R2[q], next', prev', k2)
  <2>1. next'[x] = next[x] /\ prev'[x] = prev[x]
    BY <1>18, <1>20
  <2>2. \A z \in R[q] : k[z] \in Nat /\ k2[z] = k[z]
    BY <1>10, <1>17 DEF RankType
  <2>3. CASE q # d
    <3>1. \A z \in R[q] : next'[z] = next[z]
      <4>1. mbox[d] # NULL => \A z \in R[q] : z # prev[mbox[d]]
        BY <1>17, <1>19, <2>3
      <4> QED
        BY <1>15, <1>16, <1>17, <4>1
    <3>2. LeftLinks(x, R[q], mbox[q], next', prev') /\ Kept(x, R[q], next', prev', k) = Kept(x, R[q], next, prev, k)
      BY <1>20, <2>1, <3>1, LeftSame
    <3>3. Kept(x, R[q], next', prev', k2) = Kept(x, R[q], next', prev', k)
      <4>1. CASE next'[x] = x
        BY <4>1 DEF Kept
      <4>2. CASE next'[x] # x
        <5>1. prev'[x] \in R[q]
          BY <3>2, <4>2 DEF LeftLinks
        <5>2. k2[prev'[x]] = k[prev'[x]]
          BY <2>2, <5>1
        <5>3. {z \in R[q] : k2[z] <= k2[prev'[x]]} = {z \in R[q] : k[z] <= k[prev'[x]]}
          BY <2>2, <5>2
        <5> QED
          BY <5>3 DEF Kept
      <4> QED
        BY <4>1, <4>2
    <3> QED
      BY <1>11, <1>14, <2>3, <3>2, <3>3
  <2>4. CASE q = d
    <3>1. mbox[q] # NULL => /\ mbox'[q] = mbox[q]
                            /\ \A z \in R[q] : z # prev[mbox[q]] => next'[z] = next[z]
      BY <1>10, <1>16, <1>17, <2>4
    <3>2. mbox[q] # NULL => next'[prev[mbox[q]]] = m
      BY <1>16, <1>17, <2>4
    <3>3. /\ LeftLinks(x, R[q] \cup {m}, mbox'[q], next', prev')
          /\ Kept(x, R[q], next, prev, k) \subseteq Kept(x, R[q] \cup {m}, next', prev', k2)
      <4>1. x \notin R[q] /\ m \notin R[q] /\ RingOf(R[q], mbox[q], next, prev, k)
        BY <1>3, <1>17, <1>20
      <4>2. LeftLinks(x, R[q], mbox[q], next, prev)
        BY <1>20
      <4>3. Grows(R[q], mbox[q], next, prev, k, m, mbox'[q], next', k2)
        BY <2>2, <3>1, <3>2, <4>1 DEF Grows
      <4>4. <<next'[x], prev'[x]>> = <<next[x], prev[x]>>
        BY <2>1
      <4> QED
        BY <4>1, <4>2, <4>3, <4>4, LeftGrows
    <3> QED
      BY <1>11, <2>4, <3>3
  <2> QED
    BY <2>3, <2>4
<1>21. Hands(R2)'
  <2>1. \A q \in Procs : held'[q] # NULL => q = FS /\ held'[q] # msg'[q]
    BY DEF OwnInv, Hands
  <2>2. \A q \in Procs : InHand(q)' \cup InFrame(q)' \subseteq live'
    BY <1>2, <1>12
  <2>3. \A q, r \in Procs : (InHand(q)' \cup InFrame(q)') \cap R2[r] = {}
    BY <1>2, <1>11
  <2>4. \A q, r \in Procs : InHand(q)' \cap InFrame(r)' = {}
    BY DEF OwnInv, Hands
  <2>5. \A q, r \in Procs : q # r => InHand(q)' \cap InHand(r)' = {} /\ InFrame(q)' \cap InFrame(r)' = {}
    BY DEF OwnInv, Hands
  <2> QED
    BY <2>1, <2>2, <2>3, <2>4, <2>5 DEF Hands
\* What stays in hand is another message.
<1>22. /\ \A q \in Procs : pc'[q] \in TakenAt \cup GivenAt => pc'[q] = pc[q] /\ msg[q] \in Msgs \ {m}
       /\ \A q \in Procs : fpc'[q] = "send" => fpc[q] = "send" /\ frame'[q] = frame[q] /\ frame[q] \in Msgs \ {m}
       /\ held[FS] # NULL => held[FS] \in Msgs \ {m}
  <2>1. \A q \in Procs : pc'[q] \in TakenAt \cup GivenAt => msg'[q] \in InHand(q)'
    BY DEF InHand, TakenAt, GivenAt
  <2>2. \A q \in Procs : fpc'[q] = "send" => frame'[q] \in InFrame(q)'
    BY DEF InFrame
  <2>3. held[FS] # NULL => held[FS] \in InHand(FS)
    BY HandFacts
  <2> QED
    BY <1>1, <1>2, <2>1, <2>2, <2>3
<1>23. Told'
  <2>1. \A q \in Procs : pc'[q] \in TakenAt =>
          to'[msg'[q]] = q /\ Len(rally'[msg'[q]]) >= 1 /\ Last(rally'[msg'[q]]) = q
    BY <1>12, <1>13, <1>22 DEF OwnInv, Told
  <2>2. \A q \in Procs : pc'[q] \in GivenAt =>
          \/ rally'[msg'[q]] = <<>>
          \/ Len(rally'[msg'[q]]) >= 1 /\ Last(rally'[msg'[q]]) = from'[msg'[q]]
    BY <1>12, <1>13, <1>22 DEF OwnInv, Told
  <2>3. \A q \in Procs : fpc'[q] = "send" => rally'[frame'[q]] = <<>>
    BY <1>13, <1>22 DEF OwnInv, Told
  <2>4. held'[FS] # NULL =>
          to'[held'[FS]] = FS /\ Len(rally'[held'[FS]]) >= 1 /\ Last(rally'[held'[FS]]) = FS
    BY <1>12, <1>13, <1>22 DEF OwnInv, Told
  <2> QED
    BY <2>1, <2>2, <2>3, <2>4 DEF Told
<1>24. Left(R2, k2)'
  <2>1. \A q \in Procs : pc'[q] \in TakenAt =>
          /\ msg[q] \in Msgs \ {m} /\ \A r \in Procs : msg[q] \notin R[r]
          /\ LeftLinks(msg[q], R[q], mbox[q], next, prev)
    <3> SUFFICES ASSUME NEW q \in Procs, pc'[q] \in TakenAt
                 PROVE  /\ msg[q] \in Msgs \ {m} /\ \A r \in Procs : msg[q] \notin R[r]
                        /\ LeftLinks(msg[q], R[q], mbox[q], next, prev)
      OBVIOUS
    <3>1. pc[q] \in TakenAt /\ msg[q] \in Msgs \ {m}
      BY <1>22
    <3>2. msg[q] \in InHand(q)
      BY <3>1, HandFacts
    <3> QED
      BY <1>2, <3>1, <3>2 DEF OwnInv, Left
  <2>2. \A q \in Procs : pc'[q] \in TakenAt => LeftLinks(msg'[q], R2[q], mbox'[q], next', prev')
    BY <1>20, <2>1
  <2>3. ASSUME held'[FS] # NULL
        PROVE  /\ LeftLinks(held'[FS], R2[FS], mbox'[FS], next', prev')
               /\ next'[held'[FS]] # held'[FS] =>
                    /\ from'[prev'[held'[FS]]] # Driver /\ from'[next'[held'[FS]]] # Driver
                    /\ pc'[FS] = "got" => {prev'[held'[FS]], next'[held'[FS]]}
                                            \subseteq Kept(msg'[FS], R2[FS], next', prev', k2)
    <3>1. PICK h : h = held[FS]
      OBVIOUS
    <3>2. held'[FS] = h /\ held[FS] # NULL /\ h \in Msgs \ {m} /\ \A r \in Procs : h \notin R[r]
      BY <1>2, <1>22, <2>3, <3>1, HandFacts
    <3>3. /\ LeftLinks(h, R[FS], mbox[FS], next, prev)
          /\ next[h] # h => /\ from[prev[h]] # Driver /\ from[next[h]] # Driver
                            /\ pc[FS] = "got" => {prev[h], next[h]} \subseteq Kept(msg[FS], R[FS], next, prev, k)
      BY <3>1, <3>2 DEF OwnInv, Left
    <3>4. next'[h] = next[h] /\ prev'[h] = prev[h]
      BY <1>18, <3>2
    <3>5. LeftLinks(h, R2[FS], mbox'[FS], next', prev')
      BY <1>20, <3>2, <3>3
    <3>6. pc'[FS] = "got" => pc[FS] = "got" /\ Kept(msg[FS], R[FS], next, prev, k)
                                                  \subseteq Kept(msg'[FS], R2[FS], next', prev', k2)
      <4> SUFFICES ASSUME pc'[FS] = "got"
                   PROVE  pc[FS] = "got" /\ Kept(msg[FS], R[FS], next, prev, k)
                                                  \subseteq Kept(msg'[FS], R2[FS], next', prev', k2)
        OBVIOUS
      <4>1. pc'[FS] \in TakenAt
        BY DEF TakenAt
      <4>2. pc[FS] = "got"
        BY <4>1
      <4> QED
        BY <1>20, <2>1, <4>1, <4>2
    <3> QED
      BY <1>12, <3>2, <3>3, <3>4, <3>5, <3>6
  <2> QED
    BY <2>2, <2>3 DEF Left
<1>25. Asked'
  BY <1>12, <1>22 DEF OwnInv, Asked
<1>26. SeenHead'
  BY <1>10 DEF OwnInv, SeenHead
<1>27. OwnInv(R2, k2)'
  BY <1>8, <1>9, <1>10, <1>21, <1>23, <1>24, <1>25, <1>26 DEF OwnInv, BoxType, RankType
<1> QED
  BY <1>8, <1>9, <1>27

\* The sends of processes and of interrupt handlers.
LEMMA SendsOwn ==
  ASSUME TypeInv, NEW R \in BoxType, NEW k \in RankType, OwnInv(R, k), NEW p \in Procs,
         SendLocked(p) \/ IrqSendLocked(p)
  PROVE  \E R2 \in BoxType, k2 \in RankType : OwnInv(R2, k2)'
<1> USE ProcsFacts
<1>1. /\ pc \in [Procs -> Labels] /\ msg \in [Procs -> MsgOrNull] /\ held \in [Procs -> MsgOrNull]
      /\ frame \in [Procs -> MsgOrNull] /\ fpc \in [Procs -> {"none", "send", "wake"}]
  BY DEF TypeInv, ProcType, IrqType
<1>2. CASE SendLocked(p)
  <2>1. PICK m : m = msg[p]
    OBVIOUS
  <2>2. /\ pc[p] = "send" /\ msg_send(m) /\ UNCHANGED <<msg, held, seen, frame, fpc>>
    BY <1>2, <2>1 DEF SendLocked, At, irqVars
  <2>3. pc' = [pc EXCEPT ![p] = IF op[msg[p]] = "SYS_SYNC" THEN "wakeSync" ELSE "wake"]
    BY <1>2 DEF SendLocked, Goto
  <2>4. pc'[p] \in {"wake", "wakeSync"} /\ \A q \in Procs \ {p} : pc'[q] = pc[q]
    BY <1>1, <2>3
  <2>5. m \in InHand(p)
    BY <2>1, <2>2, HandFacts DEF GivenAt
  <2>6. \A q \in Procs \ {p} : m \notin InHand(q) /\ InHand(q)' = InHand(q)
    BY <2>2, <2>4, <2>5 DEF OwnInv, Hands, InHand
  <2>7. \A q \in Procs : m \notin InFrame(q) /\ InFrame(q)' = InFrame(q)
    BY <2>2, <2>5 DEF OwnInv, Hands, InFrame
  <2>8. InHand(p)' \subseteq InHand(p) \ {m}
    <3>1. held[p] # NULL => held[p] # m
      BY <2>1 DEF OwnInv, Hands
    <3>2. InHand(p)' = {held[p]} \ {NULL}
      BY <2>2, <2>4 DEF InHand
    <3>3. {held[p]} \ {NULL} \subseteq InHand(p)
      BY DEF InHand
    <3> QED
      BY <3>1, <3>2, <3>3
  <2>9. m # held[FS]
    <3>1. m \in live
      BY <2>5 DEF OwnInv, Hands
    <3>2. held[FS] # NULL => held[FS] \in InHand(FS) /\ held[FS] # msg[FS]
      BY HandFacts DEF OwnInv, Hands
    <3>3. m # NULL
      BY <3>1 DEF TypeInv, HeapType
    <3> QED
      BY <2>1, <2>6, <3>2, <3>3
  <2>10. rally[m] = <<>> \/ (Len(rally[m]) >= 1 /\ Last(rally[m]) = from[m])
    <3>1. pc[p] \in GivenAt
      BY <2>2 DEF GivenAt
    <3> QED
      BY <2>1, <3>1 DEF OwnInv, Told
  <2>11. pc'[FS] # "wakeSync"
    <3>1. CASE p = FS
      <4>1. op[msg[FS]] = "SYS_READ"
        BY <2>2, <3>1 DEF OwnInv, Asked, GivenAt
      <4> QED
        BY <1>1, <2>3, <3>1, <4>1
    <3>2. CASE p # FS
      BY <2>4, <3>2 DEF OwnInv, Asked
    <3> QED
      BY <3>1, <3>2
  <2>12. \A q \in Procs : /\ InHand(q)' \subseteq InHand(q) \ {m}
                          /\ InFrame(q)' \subseteq InFrame(q) \ {m}
                          /\ pc'[q] \in TakenAt => pc'[q] = pc[q]
                          /\ pc'[q] \in GivenAt => pc'[q] = pc[q]
                          /\ pc'[q] = "lock" => pc[q] = "lock"
                          /\ fpc'[q] = "send" => fpc[q] = "send" /\ frame'[q] = frame[q]
    BY <2>2, <2>4, <2>6, <2>7, <2>8 DEF TakenAt, GivenAt
  <2> QED
    BY <2>2, <2>5, <2>9, <2>10, <2>11, <2>12, SendOwn
<1>3. CASE IrqSendLocked(p)
  <2>1. PICK m : m = frame[p]
    OBVIOUS
  <2>2. /\ fpc[p] = "send" /\ msg_send(m) /\ UNCHANGED <<pc, msg, held, seen, frame>>
        /\ fpc' = [fpc EXCEPT ![p] = "wake"]
    BY <1>3, <2>1 DEF IrqSendLocked, procVars
  <2>3. fpc'[p] = "wake" /\ \A q \in Procs \ {p} : fpc'[q] = fpc[q]
    BY <1>1, <2>2
  <2>4. m \in InFrame(p)
    BY <2>1, <2>2 DEF InFrame
  <2>5. \A q \in Procs : m \notin InHand(q) /\ InHand(q)' = InHand(q)
    BY <2>2, <2>4 DEF OwnInv, Hands, InHand
  <2>6. \A q \in Procs \ {p} : m \notin InFrame(q) /\ InFrame(q)' = InFrame(q)
    BY <2>2, <2>3, <2>4 DEF OwnInv, Hands, InFrame
  <2>7. InFrame(p)' = {}
    BY <2>3 DEF InFrame
  <2>8. m # held[FS]
    <3>1. m # NULL
      BY <2>4 DEF OwnInv, Hands, TypeInv, HeapType
    <3>2. held[FS] # NULL => held[FS] \in InHand(FS)
      BY HandFacts
    <3> QED
      BY <2>5, <3>1, <3>2
  <2>9. rally[m] = <<>>
    BY <2>1, <2>2 DEF OwnInv, Told
  <2>10. \A q \in Procs : /\ InHand(q)' \subseteq InHand(q) \ {m}
                          /\ InFrame(q)' \subseteq InFrame(q) \ {m}
                          /\ pc'[q] \in TakenAt => pc'[q] = pc[q]
                          /\ pc'[q] \in GivenAt => pc'[q] = pc[q]
                          /\ pc'[q] = "lock" => pc[q] = "lock"
                          /\ fpc'[q] = "send" => fpc[q] = "send" /\ frame'[q] = frame[q]
    BY <2>2, <2>3, <2>5, <2>6, <2>7
  <2>11. pc'[FS] # "wakeSync"
    BY <2>2 DEF OwnInv, Asked
  <2>12. m \in InHand(p) \cup InFrame(p) /\ msg_send(m) /\ UNCHANGED <<msg, held, seen>>
    BY <2>2, <2>4
  <2> QED
    BY <2>8, <2>9, <2>10, <2>11, <2>12, SendOwn
<1> QED
  BY <1>2, <1>3

-----------------------------------------------------------------------------
(* The three invariants.                                                     *)

\* Each step keeps the invariant, for the messages the mailboxes have then.
LEMMA NextOwn ==
  ASSUME TypeInv, NEW R \in BoxType, NEW k \in RankType, OwnInv(R, k), [Next]_vars
  PROVE  \E R2 \in BoxType, k2 \in RankType : OwnInv(R2, k2)'
<1>1. SUFFICES ASSUME ~ OwnInv(R, k)' PROVE \E R2 \in BoxType, k2 \in RankType : OwnInv(R2, k2)'
  OBVIOUS
<1>2. ASSUME NEW p \in Procs, Common(p)
      PROVE  \E R2 \in BoxType, k2 \in RankType : OwnInv(R2, k2)'
  <2>1. CASE SendLocked(p)
    BY <2>1, SendsOwn
  <2>2. CASE CheckLocked(p)
    BY <1>1, <2>2, TakeOwn, QuietSteps
  <2>3. CASE SendWake(p) \/ CheckRead(p) \/ SleepLocked(p) \/ SleepSched(p) \/ ReplyEnd(p)
    BY <1>1, <2>3, QuietSteps
  <2> QED
    BY <1>2, <2>1, <2>2, <2>3 DEF Common
<1>3. ASSUME NEW p \in Procs, Irq(p)
      PROVE  \E R2 \in BoxType, k2 \in RankType : OwnInv(R2, k2)'
  BY <1>1, <1>3, IrqAllocOwn, SendsOwn, QuietSteps DEF Irq
<1>4. ASSUME NEW c \in Clients, Client(c)
      PROVE  \E R2 \in BoxType, k2 \in RankType : OwnInv(R2, k2)'
  BY <1>1, <1>4, ClientCallOwn, FreesOwn DEF Client
<1>5. CASE Fs
  BY <1>1, <1>5, FsAskOwn, FreesOwn, ReplyOwn DEF Fs
<1>6. CASE Drvr
  BY <1>1, <1>6, FreesOwn, ReplyOwn DEF Drvr
<1>7. CASE Tick \/ UNCHANGED vars
  BY <1>1, <1>7, QuietSteps, ProcsFacts
<1> QED
  BY <1>2, <1>3, <1>4, <1>5, <1>6, <1>7 DEF Next

\* The mailboxes are empty at first.
LEMMA InitOwn ==
  ASSUME Init
  PROVE  \E R \in BoxType, k \in RankType : OwnInv(R, k)
<1> USE ProcsFacts
<1>1. PICK R : R = [p \in Procs |-> {}]
  OBVIOUS
<1>2. PICK k : k = [m \in Msgs |-> 0]
  OBVIOUS
<1>3. R \in BoxType /\ k \in RankType /\ \A p \in Procs : R[p] = {}
  BY <1>1, <1>2 DEF BoxType, RankType
<1>4. /\ \A p \in Procs : /\ pc[p] \in {"idle", "check"} /\ held[p] = NULL /\ fpc[p] = "none"
                          /\ mbox[p] = NULL
      /\ live = {}
  BY DEF Init
<1>5. Rings(R, k)
  BY <1>3, <1>4 DEF Rings, RingOf, RingSet, RingLinks, RingRank
<1>6. \A p \in Procs : InHand(p) = {} /\ InFrame(p) = {}
  BY <1>4 DEF InHand, InFrame
<1>7. InBox(R) /\ Hands(R)
  BY <1>3, <1>4, <1>6 DEF InBox, Hands
<1>8. Told /\ Left(R, k)
  BY <1>3, <1>4 DEF Told, Left, TakenAt, GivenAt
<1>9. Asked /\ SeenHead
  BY <1>4 DEF Asked, SeenHead, GivenAt
<1>10. OwnInv(R, k)
  BY <1>3, <1>5, <1>7, <1>8, <1>9 DEF OwnInv, BoxType, RankType
<1> QED
  BY <1>3, <1>10

Owned == \E R \in BoxType, k \in RankType : OwnInv(R, k)

\* In every reachable state the mailboxes are rings of messages that no one else has.
LEMMA OwnedAlways == Spec => [](TypeInv /\ Owned)
<1>1. Init => TypeInv /\ Owned
  BY InitType, InitOwn DEF Owned
<1>2. TypeInv /\ Owned /\ [Next]_vars => TypeInv' /\ Owned'
  BY NextType, NextOwn DEF Owned
<1> QED
  BY <1>1, <1>2, PTL DEF Spec

\* No message has two owners, and no one has or queues a message that has been
\* freed (message.c:98-213), with any number of clients, calls and interrupts.
THEOREM OneOwnerCorrect == Spec => []OneOwner
<1>1. Owned => OneOwner
  BY OwnInvGives DEF Owned
<1> QED
  BY <1>1, OwnedAlways, PTL

\* Every mailbox stays a circular doubly linked list of its owner's messages,
\* although msg_free writes through links that msg_check left behind.
THEOREM RingsLinkedCorrect == Spec => []RingsLinked
<1>1. Owned => RingsLinked
  BY OwnInvGives DEF Owned
<1> QED
  BY <1>1, OwnedAlways, PTL

\* The rally of a queued message ends with who queued it and whom it is for.
THEOREM RallyToldCorrect == Spec => []RallyTold
<1>1. Owned => RallyTold
  BY OwnInvGives DEF Owned
<1> QED
  BY <1>1, OwnedAlways, PTL

-----------------------------------------------------------------------------
(* Answers.  A client's request and its answer are one message, the one the  *)
(* client points to; the calls that want no answer never come back.          *)

\* Message m is client c's request, or the answer to it.
Conversation(m, c) ==
  op[m] = "SYS_READ" /\ ((from[m] = c /\ to[m] = FS) \/ (from[m] = FS /\ to[m] = c))

Called == \A m \in live, c \in Clients :
  /\ from[m] = FS /\ to[m] = c => op[m] = "SYS_READ"
  /\ Conversation(m, c) => m = msg[c] /\ pc[c] \notin {"idle", "wakeSync"}

\* Who waits for an answer and receives something receives the message it sent.
LEMMA TakesAnswer ==
  ASSUME TypeInv, NEW R \in BoxType, NEW k \in RankType, OwnInv(R, k), Called,
         NEW p \in Procs, CheckLocked(p), pc'[p] # "sleep", Awaited(p) # ANYONE
  PROVE  msg'[p] = msg[p]
<1> USE ProcsFacts
<1>1. msg \in [Procs -> MsgOrNull] /\ pc \in [Procs -> Labels]
  BY DEF TypeInv, ProcType
<1>2. PICK m \in Msgs : Settles(p, seen[p], Awaited(p), m) /\ msg' = [msg EXCEPT ![p] = m]
  BY <1>1 DEF CheckLocked, Goto
<1>3. m \in R[p] /\ from[m] = Awaited(p)
  BY <1>2, SettlesIn DEF CheckLocked, Settles
<1>4. m \in live /\ to[m] = p
  BY <1>3 DEF OwnInv, InBox
<1>5. CASE p \in Clients
  BY <1>1, <1>2, <1>3, <1>4, <1>5 DEF Awaited, Called, Conversation
<1>6. CASE p \notin Clients
  <2>1. p = FS /\ from[m] = Driver
    BY <1>3, <1>6 DEF Awaited
  <2> QED
    BY <1>1, <1>2, <1>3, <2>1, DriverAnswers
<1> QED
  BY <1>5, <1>6

\* A step that makes no message and changes no field.
LEMMA CalledSame ==
  ASSUME Called, live' \subseteq live,
         \A x \in live' : from'[x] = from[x] /\ to'[x] = to[x] /\ op'[x] = op[x],
         \A c \in Clients : pc[c] \notin {"idle", "wakeSync"} /\ msg[c] \in live' /\ op[msg[c]] = "SYS_READ"
           => msg'[c] = msg[c] /\ pc'[c] \notin {"idle", "wakeSync"}
  PROVE  Called'
<1> SUFFICES ASSUME NEW m \in live', NEW c \in Clients
             PROVE  /\ from'[m] = FS /\ to'[m] = c => op'[m] = "SYS_READ"
                    /\ Conversation(m, c)' => m = msg'[c] /\ pc'[c] \notin {"idle", "wakeSync"}
  BY DEF Called
<1>1. from'[m] = from[m] /\ to'[m] = to[m] /\ op'[m] = op[m] /\ m \in live
  OBVIOUS
<1>2. Conversation(m, c)' => Conversation(m, c)
  BY <1>1 DEF Conversation
<1> QED
  BY <1>1, <1>2 DEF Called, Conversation

\* A step that makes message m, which is no one's answer.
LEMMA CalledAlloc ==
  ASSUME TypeInv, Called, NEW f, NEW dst, NEW o, NEW m, msg_alloc(m, f, dst, o), f # FS \/ dst \notin Clients,
         \A c \in Clients : (f = c /\ dst = FS /\ o = "SYS_READ") => msg'[c] = m /\ pc'[c] \notin {"idle", "wakeSync"},
         \A c \in Clients : pc[c] \notin {"idle", "wakeSync"}
           => msg'[c] = msg[c] /\ pc'[c] \notin {"idle", "wakeSync"}
  PROVE  Called'
<1> USE ProcsFacts
<1>1. m \in Msgs \ live /\ live' = live \cup {m}
  BY DEF msg_alloc
<1>2. from'[m] = f /\ to'[m] = dst /\ op'[m] = o
  BY <1>1 DEF msg_alloc, TypeInv, HeapType
<1>3. \A x \in live : from'[x] = from[x] /\ to'[x] = to[x] /\ op'[x] = op[x]
  BY <1>1 DEF msg_alloc, TypeInv, HeapType
<1> SUFFICES ASSUME NEW x \in live', NEW c \in Clients
             PROVE  /\ from'[x] = FS /\ to'[x] = c => op'[x] = "SYS_READ"
                    /\ Conversation(x, c)' => x = msg'[c] /\ pc'[c] \notin {"idle", "wakeSync"}
  BY DEF Called
<1>4. CASE x = m
  BY <1>2, <1>4, IpcAssumption DEF Conversation
<1>5. CASE x # m
  <2>1. x \in live /\ from'[x] = from[x] /\ to'[x] = to[x] /\ op'[x] = op[x]
    BY <1>1, <1>3, <1>5
  <2>2. Conversation(x, c)' => Conversation(x, c)
    BY <2>1 DEF Conversation
  <2> QED
    BY <2>1, <2>2 DEF Called
<1> QED
  BY <1>4, <1>5

\* A step that turns message m round.
LEMMA CalledReply ==
  ASSUME TypeInv, NEW R \in BoxType, NEW k \in RankType, OwnInv(R, k), Called, FsReply \/ DriverReply
  PROVE  Called'
<1> USE ProcsFacts
<1>1. /\ from \in [Msgs -> Pids] /\ to \in [Msgs -> Procs] /\ live \subseteq Msgs
      /\ pc \in [Procs -> Labels] /\ FS # Driver /\ FS \notin Clients /\ Driver \notin Clients
  BY IpcAssumption DEF TypeInv, HeapType, ProcType
<1>2. PICK p \in {FS, Driver} : /\ ReplyBegin(p) /\ pc[p] \in TakenAt
                                /\ p = FS => op[msg[FS]] = "SYS_READ"
  <2>1. CASE FsReply
    <3> WITNESS FS \in {FS, Driver}
    <3> QED
      BY <2>1 DEF FsReply, FsServed, TakenAt
  <2>2. CASE DriverReply
    <3> WITNESS Driver \in {FS, Driver}
    <3> QED
      BY <1>1, <2>2 DEF DriverReply, At, TakenAt
  <2> QED
    BY <2>1, <2>2
<1>3. PICK m : m = msg[p]
  OBVIOUS
<1>4. p \in Procs /\ m \in live /\ to[m] = p
  BY <1>2, <1>3, HandFacts DEF OwnInv, Hands, Told
<1>5. /\ UNCHANGED <<live, op, msg>>
      /\ pc' = [pc EXCEPT ![p] = "swap"]
      /\ from'[m] = p /\ to'[m] = from[m]
      /\ \A x \in Msgs \ {m} : from'[x] = from[x] /\ to'[x] = to[x]
  BY <1>1, <1>2, <1>3, <1>4 DEF ReplyBegin, Goto
<1>6. \A c \in Clients : pc'[c] = pc[c]
  BY <1>1, <1>5
<1> SUFFICES ASSUME NEW x \in live', NEW c \in Clients
             PROVE  /\ from'[x] = FS /\ to'[x] = c => op'[x] = "SYS_READ"
                    /\ Conversation(x, c)' => x = msg'[c] /\ pc'[c] \notin {"idle", "wakeSync"}
  BY DEF Called
<1>7. CASE x # m
  <2>1. x \in live /\ from'[x] = from[x] /\ to'[x] = to[x] /\ op'[x] = op[x]
    BY <1>1, <1>5, <1>7
  <2>2. Conversation(x, c)' => Conversation(x, c)
    BY <2>1 DEF Conversation
  <2> QED
    BY <1>5, <1>6, <2>1, <2>2 DEF Called
<1>8. CASE x = m
  <2>1. from'[x] = FS /\ to'[x] = c => op'[x] = "SYS_READ"
    BY <1>1, <1>2, <1>3, <1>5, <1>8
  <2>2. Conversation(x, c)' => Conversation(x, c)
    <3> SUFFICES ASSUME Conversation(x, c)' PROVE Conversation(x, c)
      OBVIOUS
    <3>1. op'[m] = "SYS_READ" /\ ((from'[m] = c /\ to'[m] = FS) \/ (from'[m] = FS /\ to'[m] = c))
      BY <1>8 DEF Conversation
    <3>2. p = FS /\ from[m] = c
      BY <1>1, <1>2, <1>5, <3>1
    <3> QED
      BY <1>4, <1>5, <1>8, <3>1, <3>2 DEF Conversation
  <2> QED
    BY <1>4, <1>5, <1>6, <1>8, <2>1, <2>2 DEF Called
<1> QED
  BY <1>7, <1>8

\* The steps of a client, other than its requests, leave it its message until it frees it.
LEMMA CalledCommon ==
  ASSUME TypeInv, NEW R \in BoxType, NEW k \in RankType, OwnInv(R, k), Called,
         NEW p \in Procs, Common(p)
  PROVE  Called'
<1> USE ProcsFacts
<1>1. /\ pc \in [Procs -> Labels] /\ msg \in [Procs -> MsgOrNull] /\ Clients \subseteq Procs
      /\ FS # ANYONE
  BY IpcAssumption DEF TypeInv, ProcType
<1>2. UNCHANGED <<live, from, to, op>>
  BY DEF Common, SendLocked, SendWake, CheckRead, CheckLocked, SleepLocked, SleepSched, ReplyEnd,
         heapVars, msg_send
<1>3. SUFFICES ASSUME NEW c \in Clients, pc[c] \notin {"idle", "wakeSync"}, op[msg[c]] = "SYS_READ"
               PROVE  msg'[c] = msg[c] /\ pc'[c] \notin {"idle", "wakeSync"}
  BY <1>2, CalledSame
<1>4. CASE p # c
  <2>1. \A l : Goto(p, l) => pc'[c] = pc[c]
    BY <1>1, <1>4 DEF Goto
  <2>2. pc'[c] = pc[c]
    BY <2>1, <1>4 DEF Common, SendLocked, SendWake, CheckRead, CheckLocked, SleepLocked, SleepSched, ReplyEnd
  <2>3. msg'[c] = msg[c]
    BY <1>1, <1>4 DEF Common, SendLocked, SendWake, CheckRead, CheckLocked, SleepLocked, SleepSched, ReplyEnd
  <2> QED
    BY <1>3, <2>2, <2>3
<1>5. CASE p = c
  <2>1. CASE SendLocked(p)
    BY <1>1, <1>3, <1>5, <2>1 DEF SendLocked, Goto
  <2>2. CASE SendWake(p)
    BY <1>1, <1>3, <1>5, <2>2 DEF SendWake, Goto, Awaited, At
  <2>3. CASE CheckRead(p) \/ SleepLocked(p) \/ SleepSched(p) \/ ReplyEnd(p)
    BY <1>1, <1>3, <1>5, <2>3 DEF CheckRead, SleepLocked, SleepSched, ReplyEnd, Goto
  <2>4. CASE CheckLocked(p) /\ pc'[p] = "sleep"
    BY <1>1, <1>3, <1>5, <2>4 DEF CheckLocked, Goto
  <2>5. CASE CheckLocked(p) /\ pc'[p] # "sleep"
    <3>1. Awaited(p) # ANYONE
      BY <1>1, <1>5 DEF Awaited
    <3>2. msg'[p] = msg[p]
      BY <2>5, <3>1, TakesAnswer
    <3>3. pc'[p] = "got"
      BY <1>1, <2>5 DEF CheckLocked, Goto
    <3> QED
      BY <1>5, <3>2, <3>3
  <2> QED
    BY <2>1, <2>2, <2>3, <2>4, <2>5 DEF Common
<1> QED
  BY <1>4, <1>5

\* A process that frees its message and moves on.
LEMMA CalledFree ==
  ASSUME TypeInv, Called, NEW p \in Procs, msg_free(msg[p]), msg[p] \in Msgs,
         \A c \in Clients \ {p} : pc'[c] = pc[c] /\ msg'[c] = msg[c]
  PROVE  Called'
<1> USE ProcsFacts
<1>1. live' = live \ {msg[p]} /\ live \subseteq Msgs
  BY DEF msg_free, TypeInv, HeapType
<1>2. \A x \in live' : from'[x] = from[x] /\ to'[x] = to[x] /\ op'[x] = op[x]
  BY <1>1 DEF msg_free, TypeInv, HeapType
<1>3. \A c \in Clients : pc[c] \notin {"idle", "wakeSync"} /\ msg[c] \in live' /\ op[msg[c]] = "SYS_READ"
        => msg'[c] = msg[c] /\ pc'[c] \notin {"idle", "wakeSync"}
  BY <1>1
<1> QED
  BY <1>1, <1>2, <1>3, CalledSame

\* No step breaks Called.
LEMMA NextCalled ==
  ASSUME TypeInv, NEW R \in BoxType, NEW k \in RankType, OwnInv(R, k), Called, [Next]_vars
  PROVE  Called'
<1> USE ProcsFacts
<1>0. /\ pc \in [Procs -> Labels] /\ msg \in [Procs -> MsgOrNull]
      /\ FS # Driver /\ FS \notin Clients /\ Driver \notin Clients /\ HARDWARE \notin Clients
      /\ HARDWARE # FS
  BY IpcAssumption DEF TypeInv, ProcType
<1>1. ASSUME NEW p \in Procs, Common(p)
      PROVE  Called'
  BY <1>1, CalledCommon
<1>2. ASSUME NEW p \in Procs, Irq(p)
      PROVE  Called'
  <2>1. CASE IrqAlloc(p)
    <3>1. PICK m : msg_alloc(m, HARDWARE, Driver, "IRQ") /\ UNCHANGED <<pc, msg>>
      BY <2>1 DEF IrqAlloc, procVars
    <3> QED
      BY <1>0, <3>1, CalledAlloc
  <2>2. CASE IrqSendLocked(p) \/ IrqSendWake(p)
    <3>1. UNCHANGED <<live, from, to, op, pc, msg>>
      BY <2>2 DEF IrqSendLocked, IrqSendWake, msg_send, heapVars, procVars
    <3> QED
      BY <3>1, CalledSame
  <2> QED
    BY <1>2, <2>1, <2>2 DEF Irq
<1>3. ASSUME NEW c \in Clients, ClientCall(c)
      PROVE  Called'
  <2>1. PICK m, o : msg_alloc(m, c, FS, o) /\ msg' = [msg EXCEPT ![c] = m]
    BY <1>3 DEF ClientCall
  <2>2. pc[c] = "idle" /\ pc' = [pc EXCEPT ![c] = "send"] /\ c \in Procs
    BY <1>3 DEF ClientCall, At, Goto
  <2>3. pc'[c] = "send" /\ msg'[c] = m /\ \A d \in Clients \ {c} : pc'[d] = pc[d] /\ msg'[d] = msg[d]
    BY <1>0, <2>1, <2>2
  <2> QED
    BY <1>0, <2>1, <2>2, <2>3, CalledAlloc
<1>4. ASSUME NEW c \in Clients, ClientReturn(c)
      PROVE  Called'
  <2>1. c \in Procs /\ msg_free(msg[c]) /\ pc[c] = "got"
    BY <1>4 DEF ClientReturn, At
  <2>2. msg[c] \in Msgs
    BY <2>1 DEF TypeInv, HasMsg, HasMsgAt
  <2>3. \A d \in Clients \ {c} : pc'[d] = pc[d] /\ msg'[d] = msg[d]
    BY <1>0, <1>4 DEF ClientReturn, Goto
  <2> QED
    BY <2>1, <2>2, <2>3, CalledFree
<1>5. CASE FsAskDriver
  <2>1. PICK m : msg_alloc(m, FS, Driver, "SYS_READ") /\ msg' = [msg EXCEPT ![FS] = m]
    BY <1>5 DEF FsAskDriver
  <2>2. \A c \in Clients : pc'[c] = pc[c] /\ msg'[c] = msg[c]
    BY <1>0, <1>5, <2>1 DEF FsAskDriver, Goto
  <2> QED
    BY <1>0, <2>1, <2>2, CalledAlloc
<1>6. CASE FsDriverDone \/ FsFree
  <2>1. msg_free(msg[FS]) /\ pc[FS] \in {"got", "served"}
    BY <1>6 DEF FsDriverDone, FsFree, FsServed, At
  <2>2. msg[FS] \in Msgs
    BY <2>1 DEF TypeInv, HasMsg, HasMsgAt
  <2>3. \A c \in Clients : pc'[c] = pc[c] /\ msg'[c] = msg[c]
    BY <1>0, <1>6 DEF FsDriverDone, FsFree, Goto
  <2> QED
    BY <2>1, <2>2, <2>3, CalledFree
<1>7. CASE FsReply \/ DriverReply
  BY <1>7, CalledReply
<1>8. CASE DriverIrq
  <2>1. msg_free(msg[Driver]) /\ pc[Driver] = "got"
    BY <1>8 DEF DriverIrq, At
  <2>2. msg[Driver] \in Msgs
    BY <2>1 DEF TypeInv, HasMsg, HasMsgAt
  <2>3. \A c \in Clients : pc'[c] = pc[c] /\ msg'[c] = msg[c]
    BY <1>0, <1>8 DEF DriverIrq, Goto
  <2> QED
    BY <2>1, <2>2, <2>3, CalledFree
<1>9. CASE Tick \/ UNCHANGED vars
  <2>1. UNCHANGED <<live, from, to, op, pc, msg>>
    BY <1>9 DEF Tick, vars, heapVars, procVars
  <2> QED
    BY <2>1, CalledSame
<1> QED
  BY <1>1, <1>2, <1>3, <1>4, <1>5, <1>6, <1>7, <1>8, <1>9 DEF Next, Client, Fs, Drvr

\* Only msg_check moves a process from its lock to a message.
LEMMA LockToGot ==
  ASSUME TypeInv, [Next]_vars, NEW p \in Procs, At(p, "lock"), At(p, "got")'
  PROVE  CheckLocked(p)
<1> USE ProcsFacts
<1>0. pc \in [Procs -> Labels] /\ pc[p] = "lock" /\ pc'[p] = "got" /\ Clients \subseteq Procs
  BY DEF TypeInv, ProcType, At
\* A step that moves q to l moves no other process.
<1>1. \A q \in Procs : \A l : Goto(q, l) => p = q /\ l = "got"
  BY <1>0 DEF Goto
<1>2. ASSUME NEW q \in Procs, Common(q) PROVE CheckLocked(p)
  <2>1. ~ SendLocked(q) /\ ~ SendWake(q) /\ ~ CheckRead(q)
    BY <1>0, <1>1 DEF SendLocked, SendWake, CheckRead
  <2>2. ~ SleepLocked(q) /\ ~ SleepSched(q) /\ ~ ReplyEnd(q)
    BY <1>0, <1>1 DEF SleepLocked, SleepSched, ReplyEnd
  <2>3. CheckLocked(q)
    BY <1>2, <2>1, <2>2 DEF Common
  <2>4. p = q
    BY <1>1, <2>3 DEF CheckLocked
  <2> QED
    BY <2>3, <2>4
<1>3. ASSUME NEW q \in Procs, Irq(q) PROVE FALSE
  BY <1>0, <1>3 DEF Irq, IrqAlloc, IrqSendLocked, IrqSendWake, procVars
<1>4. ASSUME NEW c \in Clients, Client(c) PROVE FALSE
  BY <1>0, <1>1, <1>4 DEF Client, ClientCall, ClientReturn
<1>5. CASE Fs
  <2>1. ~ FsAskDriver /\ ~ FsDriverDone /\ ~ FsFree
    BY <1>1 DEF FsAskDriver, FsDriverDone, FsFree
  <2>2. ~ FsReply
    BY <1>1 DEF FsReply, ReplyBegin
  <2> QED
    BY <1>5, <2>1, <2>2 DEF Fs
<1>6. CASE Drvr
  BY <1>1, <1>6 DEF Drvr, DriverReply, DriverIrq, ReplyBegin
<1>7. CASE Tick \/ UNCHANGED vars
  BY <1>0, <1>7 DEF Tick, vars, procVars
<1> QED
  BY <1>2, <1>3, <1>4, <1>5, <1>6, <1>7 DEF Next

Answering == TypeInv /\ (\E R \in BoxType, k \in RankType : OwnInv(R, k)) /\ Called

\* Nothing that a process receives while it waits for an answer is anything but the
\* message it sent: the file system's from its driver, a client's from the file system.
THEOREM AnswersOwnCallCorrect == Spec => AnswersOwnCall
<1>1. Init => Answering
  BY InitType, InitOwn DEF Answering, Init, Called
<1>2. Answering /\ [Next]_vars => Answering'
  BY NextType, NextOwn, NextCalled DEF Answering
<1>3. Answering /\ [Next]_vars =>
        [\A p \in Procs : (At(p, "lock") /\ At(p, "got")' /\ Awaited(p) # ANYONE) => msg'[p] = msg[p]]_vars
  <2> SUFFICES ASSUME Answering, [Next]_vars, NEW p \in Procs,
                      At(p, "lock"), At(p, "got")', Awaited(p) # ANYONE
               PROVE  msg'[p] = msg[p]
    OBVIOUS
  <2>1. PICK R \in BoxType, k \in RankType : OwnInv(R, k)
    BY DEF Answering
  <2>2. CheckLocked(p) /\ pc'[p] # "sleep"
    BY LockToGot DEF Answering, At
  <2> QED
    BY <2>1, <2>2, TakesAnswer DEF Answering
<1> QED
  BY <1>1, <1>2, <1>3, PTL DEF Spec, AnswersOwnCall

-----------------------------------------------------------------------------
(* Nothing is lost while no mailbox that a message is taken from and freed   *)
(* can hold more than one other message.                                     *)

\* The calls are answered, at most two clients make them, and the driver has at
\* most one interrupt to deal with.
FewMessages ==
  /\ Requests \subseteq {"SYS_READ"} /\ MaxIrqs <= 1
  /\ \E a, b : Clients \subseteq {a, b}

\* Message m is what the file system asks its driver, or the answer to it.
Transfer(m) == op[m] = "SYS_READ" /\ \/ from[m] = FS /\ to[m] = Driver
                                     \/ from[m] = Driver /\ to[m] = FS

\* Whose the messages are.
Kinds == \A m \in live :
  (\E c \in Clients : Conversation(m, c)) \/ Transfer(m) \/ (op[m] = "IRQ" /\ to[m] = Driver)

\* At most one interrupt message is alive.
OneIrq == \A x, y \in live : op[x] = "IRQ" /\ op[y] = "IRQ" => x = y

\* What can be reached from the head of a ring is the ring.
LEMMA RingReached ==
  ASSUME NEW Q, NEW h, NEW n, NEW pr, NEW k \in RankType, RingOf(Q, h, n, pr, k), h # NULL,
         NEW S, h \in S, \A x \in S : n[x] \in S
  PROVE  Q \subseteq S
<1>1. /\ Q \subseteq Msgs /\ h \in Q
      /\ \A x \in Q : pr[x] \in Q /\ n[pr[x]] = x
      /\ \A x \in Q : n[x] # h => k[x] < k[n[x]]
      /\ \A x \in Msgs : k[x] \in Nat
  BY DEF RingOf, RingSet, RingLinks, RingRank, RankType
<1> SUFFICES ASSUME NEW z \in Q \ S PROVE FALSE
  OBVIOUS
<1>2. PICK T : T = {k[x] : x \in Q \ S}
  OBVIOUS
<1>3. T \subseteq Nat /\ T # {}
  BY <1>1, <1>2
<1>4. PICK i \in T : \A j \in T : i <= j
  BY <1>3, Least
<1>5. PICK x \in Q \ S : k[x] = i
  BY <1>2, <1>4
<1>6. x # h /\ pr[x] \in Q /\ n[pr[x]] = x
  BY <1>1, <1>5
<1>7. k[pr[x]] < k[x] /\ k[pr[x]] \in Nat /\ k[x] \in Nat
  BY <1>1, <1>5, <1>6
<1>8. pr[x] \notin S
  BY <1>5, <1>6
<1>9. k[pr[x]] \in T
  BY <1>2, <1>6, <1>8
<1>10. i <= k[pr[x]]
  BY <1>4, <1>9
<1> QED
  BY <1>5, <1>7, <1>10

\* The messages of a mailbox are its ring.
LEMMA RingExact ==
  ASSUME NEW R \in BoxType, NEW k \in RankType, Rings(R, k), NEW p \in Procs
  PROVE  Ring(p) = R[p]
<1>1. RingOf(R[p], mbox[p], next, prev, k) /\ R[p] \subseteq Msgs
  BY DEF Rings, BoxType
<1>2. CASE mbox[p] = NULL
  BY <1>1, <1>2 DEF Ring, RingOf, RingSet
<1>3. CASE mbox[p] # NULL
  <2>1. \A S : mbox[p] \in S /\ (\A x \in S : next[x] \in S) => R[p] \subseteq S
    BY <1>1, <1>3, RingReached
  <2>2. R[p] \subseteq Ring(p)
    BY <1>1, <1>3, <2>1 DEF Ring
  <2> QED
    BY <2>2, RingIn
<1> QED
  BY <1>2, <1>3

\* The same in the next state.
LEMMA RingExactNext ==
  ASSUME NEW R \in BoxType, NEW k \in RankType, Rings(R, k)', NEW p \in Procs
  PROVE  Ring(p)' = R[p]
<1>1. RingOf(R[p], mbox'[p], next', prev', k) /\ R[p] \subseteq Msgs
  BY DEF Rings, BoxType
<1>2. CASE mbox'[p] = NULL
  BY <1>1, <1>2 DEF Ring, RingOf, RingSet
<1>3. CASE mbox'[p] # NULL
  <2>1. \A S : mbox'[p] \in S /\ (\A x \in S : next'[x] \in S) => R[p] \subseteq S
    BY <1>1, <1>3, RingReached
  <2>2. R[p] \subseteq Ring(p)'
    BY <1>1, <1>3, <2>1 DEF Ring
  <2>3. mbox'[p] \in R[p] /\ \A x \in R[p] : next'[x] \in R[p]
    BY <1>1, <1>3 DEF RingOf, RingSet, RingLinks
  <2>4. Ring(p)' \subseteq R[p]
    BY <1>1, <1>3, <2>3 DEF Ring
  <2> QED
    BY <2>2, <2>4
<1> QED
  BY <1>2, <1>3

\* A step that concerns no message but m, and leaves m in some place or frees it.
LEMMA PlacesStep ==
  ASSUME NothingLost, NEW m, live' \subseteq live \cup {m},
         \A q \in Procs : /\ InHand(q) \subseteq InHand(q)' \cup {m}
                          /\ InFrame(q) \subseteq InFrame(q)' \cup {m}
                          /\ Ring(q) \subseteq Ring(q)' \cup {m},
         \/ m \notin live'
         \/ \E q \in Procs : m \in InHand(q)' \cup InFrame(q)' \cup Ring(q)'
  PROVE  NothingLost'
<1> SUFFICES ASSUME NEW x \in live'
             PROVE  \E p \in Procs : x \in InHand(p)' \cup InFrame(p)' \cup Ring(p)'
  BY DEF NothingLost
<1>1. CASE x = m
  BY <1>1
<1>2. CASE x # m
  <2>1. PICK p \in Procs : x \in InHand(p) \cup InFrame(p) \cup Ring(p)
    BY <1>2 DEF NothingLost
  <2> QED
    BY <1>2, <2>1
<1> QED
  BY <1>1, <1>2

\* A step that moves no message and no one's hand.
LEMMA PlacesSame ==
  ASSUME TypeInv, NothingLost, UNCHANGED <<live, linkVars>>,
         \A q \in Procs : InHand(q) \subseteq InHand(q)' /\ InFrame(q) \subseteq InFrame(q)'
  PROVE  NothingLost'
<1>1. NULL \notin live
  BY ProcsFacts DEF TypeInv, HeapType
<1>2. \A q \in Procs : Ring(q)' = Ring(q)
  BY DEF Ring, linkVars
<1> QED
  BY <1>1, <1>2, PlacesStep

\* The steps that change no mailbox, other than msg_alloc's.
LEMMA QuietPlaces ==
  ASSUME TypeInv, NothingLost, NEW p \in Procs,
         \/ SendWake(p) \/ CheckRead(p) \/ SleepLocked(p) \/ SleepSched(p) \/ ReplyEnd(p)
         \/ CheckLocked(p) /\ pc'[p] = "sleep"
         \/ IrqSendWake(p) \/ Tick \/ UNCHANGED vars
         \/ ReplyBegin(p) /\ pc[p] \in TakenAt
  PROVE  NothingLost'
<1>0. /\ pc \in [Procs -> Labels] /\ msg \in [Procs -> MsgOrNull]
      /\ frame \in [Procs -> MsgOrNull] /\ fpc \in [Procs -> {"none", "send", "wake"}]
  BY DEF TypeInv, ProcType, IrqType
<1>1. CASE IrqSendWake(p)
  <2>1. /\ UNCHANGED <<live, linkVars, pc, msg, held>> /\ fpc[p] = "wake"
        /\ frame' = [frame EXCEPT ![p] = NULL] /\ fpc' = [fpc EXCEPT ![p] = "none"]
    BY <1>1 DEF IrqSendWake, heapVars, procVars
  <2>2. \A q \in Procs : InHand(q)' = InHand(q)
    BY <2>1 DEF InHand
  <2>3. \A q \in Procs : InFrame(q)' = InFrame(q)
    BY <1>0, <2>1 DEF InFrame
  <2> QED
    BY <2>1, <2>2, <2>3, PlacesSame
<1>2. CASE Tick \/ UNCHANGED vars
  <2>1. UNCHANGED <<live, linkVars, pc, msg, held, fpc, frame>>
    BY <1>2 DEF Tick, vars, heapVars, procVars, irqVars
  <2>2. \A q \in Procs : InHand(q)' = InHand(q) /\ InFrame(q)' = InFrame(q)
    BY <2>1 DEF InHand, InFrame
  <2> QED
    BY <2>1, <2>2, PlacesSame
<1>3. CASE ~ IrqSendWake(p) /\ ~ (Tick \/ UNCHANGED vars)
  <2>1. UNCHANGED <<live, linkVars, held, fpc, frame>>
    BY <1>0, <1>3 DEF SendWake, CheckRead, SleepLocked, SleepSched, ReplyEnd, CheckLocked, ReplyBegin,
                      Goto, heapVars, irqVars, linkVars
  <2>2. \A q \in Procs : InFrame(q)' = InFrame(q)
    BY <2>1 DEF InFrame
  <2>3. \A q \in Procs \ {p} : pc'[q] = pc[q] /\ msg'[q] = msg[q]
    BY <1>0, <1>3 DEF SendWake, CheckRead, SleepLocked, SleepSched, ReplyEnd, CheckLocked, ReplyBegin, Goto
  <2>4. \/ pc[p] \notin {"send", "got", "served", "swap"}
        \/ pc'[p] \in {"send", "swap"} /\ msg' = msg
    BY <1>0, <1>3 DEF SendWake, CheckRead, SleepLocked, SleepSched, ReplyEnd, CheckLocked, ReplyBegin,
                      Goto, At, TakenAt
  <2>5. \A q \in Procs : InHand(q) \subseteq InHand(q)'
    BY <2>1, <2>3, <2>4 DEF InHand
  <2> QED
    BY <2>1, <2>2, <2>5, PlacesSame
<1> QED
  BY <1>1, <1>2, <1>3

\* msg_alloc changes no mailbox, and the new message is in the hand of who made it.
LEMMA AllocPlaces ==
  ASSUME TypeInv, NothingLost, NEW R \in BoxType, NEW k \in RankType, OwnInv(R, k),
         NEW m \in Msgs, NEW f, NEW dst, NEW o, msg_alloc(m, f, dst, o),
         \A q \in Procs : InHand(q) \subseteq InHand(q)' /\ InFrame(q) \subseteq InFrame(q)',
         NEW p \in Procs, m \in InHand(p)' \cup InFrame(p)'
  PROVE  NothingLost'
<1>1. Rings(R, k) /\ InBox(R) /\ Rings(R, k)'
  BY AllocRings DEF OwnInv
<1>2. \A q \in Procs : Ring(q) = R[q] /\ Ring(q)' = R[q]
  BY <1>1, RingExact, RingExactNext
<1>3. live' \subseteq live \cup {m}
  BY DEF msg_alloc
<1> QED
  BY <1>2, <1>3, PlacesStep

\* msg_send: the message is in its recipient's mailbox then.
LEMMA SendPlaces ==
  ASSUME TypeInv, NothingLost, NEW R \in BoxType, NEW k \in RankType, OwnInv(R, k),
         NEW p \in Procs, SendLocked(p) \/ IrqSendLocked(p)
  PROVE  NothingLost'
<1> USE ProcsFacts
<1>1. /\ from \in [Msgs -> Pids] /\ to \in [Msgs -> Procs] /\ live \subseteq Msgs
      /\ prev \in [Msgs -> Msgs] /\ mbox \in [Procs -> MsgOrNull] /\ pc \in [Procs -> Labels]
      /\ fpc \in [Procs -> {"none", "send", "wake"}]
  BY DEF TypeInv, HeapType, LinkType, ProcType, IrqType
<1>2. PICK m : /\ msg_send(m) /\ m \in InHand(p) \cup InFrame(p)
               /\ rally[m] = <<>> \/ (Len(rally[m]) >= 1 /\ Last(rally[m]) = from[m])
               /\ \A q \in Procs : /\ InHand(q) \subseteq InHand(q)' \cup {m}
                                   /\ InFrame(q) \subseteq InFrame(q)' \cup {m}
  <2>1. CASE SendLocked(p)
    <3>1. /\ pc[p] = "send" /\ msg_send(msg[p]) /\ UNCHANGED <<msg, held, frame, fpc>>
          /\ \A q \in Procs \ {p} : pc'[q] = pc[q]
      BY <1>1, <2>1 DEF SendLocked, At, Goto, irqVars
    <3>2. \A q \in Procs : InHand(q) \subseteq InHand(q)' \cup {msg[p]}
      BY <3>1 DEF InHand
    <3>3. \A q \in Procs : InFrame(q)' = InFrame(q)
      BY <3>1 DEF InFrame
    <3>4. msg[p] \in InHand(p)
      BY <3>1 DEF InHand
    <3>5. rally[msg[p]] = <<>> \/ (Len(rally[msg[p]]) >= 1 /\ Last(rally[msg[p]]) = from[msg[p]])
      BY <3>1 DEF OwnInv, Told, GivenAt
    <3> QED
      BY <3>1, <3>2, <3>3, <3>4, <3>5
  <2>2. CASE IrqSendLocked(p)
    <3>1. /\ fpc[p] = "send" /\ msg_send(frame[p]) /\ UNCHANGED <<pc, msg, held, frame>>
          /\ \A q \in Procs \ {p} : fpc'[q] = fpc[q]
      BY <1>1, <2>2 DEF IrqSendLocked, procVars
    <3>2. \A q \in Procs : InHand(q)' = InHand(q)
      BY <3>1 DEF InHand
    <3>3. \A q \in Procs : InFrame(q) \subseteq InFrame(q)' \cup {frame[p]}
      BY <3>1 DEF InFrame
    <3>4. frame[p] \in InFrame(p)
      BY <3>1 DEF InFrame
    <3>5. rally[frame[p]] = <<>>
      BY <3>1 DEF OwnInv, Told
    <3> QED
      BY <3>1, <3>2, <3>3, <3>4, <3>5
  <2> QED
    BY <2>1, <2>2
<1>3. m \in live /\ m \in Msgs /\ \A q \in Procs : m \notin R[q]
  BY <1>1, <1>2 DEF OwnInv, Hands
<1>4. PICK d \in Procs : d = to[m]
  BY <1>1, <1>3
<1>5. PICK R2 : R2 = [R EXCEPT ![d] = R[d] \cup {m}]
  OBVIOUS
<1>6. PICK k2 : k2 = IF mbox[d] = NULL THEN k ELSE [k EXCEPT ![m] = k[prev[mbox[d]]] + 1]
  OBVIOUS
<1>7. R2 \in BoxType /\ R2[d] = R[d] \cup {m} /\ \A q \in Procs \ {d} : R2[q] = R[q]
  BY <1>3, <1>5 DEF BoxType
<1>8. k2 \in RankType
  <2>1. CASE mbox[d] = NULL
    BY <1>6, <2>1
  <2>2. CASE mbox[d] # NULL
    <3>1. mbox[d] \in Msgs /\ prev[mbox[d]] \in Msgs
      BY <1>1, <2>2 DEF MsgOrNull
    <3>2. k[prev[mbox[d]]] + 1 \in Nat
      BY <3>1 DEF RankType
    <3> QED
      BY <1>6, <2>2, <3>2 DEF RankType
  <2> QED
    BY <2>1, <2>2
<1>9. Joined(R, k, m, R2, k2)
  BY <1>4, <1>5, <1>6, <1>7, <1>8 DEF Joined
<1>10. Rings(R, k) /\ InBox(R)
  BY DEF OwnInv
<1>11. Rings(R2, k2)'
  BY <1>2, <1>3, <1>9, <1>10, SendRings
<1>12. \A q \in Procs : Ring(q) = R[q] /\ Ring(q)' = R2[q]
  BY <1>7, <1>8, <1>10, <1>11, RingExact, RingExactNext
<1>13. live' = live
  BY <1>2 DEF msg_send
<1>14. m \in Ring(d)' /\ \A q \in Procs : Ring(q) \subseteq Ring(q)'
  BY <1>7, <1>12
<1> QED
  BY <1>2, <1>13, <1>14, PlacesStep

\* msg_check: the message is in the hand of who takes it then.
LEMMA TakePlaces ==
  ASSUME TypeInv, NothingLost, NEW R \in BoxType, NEW k \in RankType, OwnInv(R, k),
         NEW p \in Procs, CheckLocked(p), pc'[p] # "sleep"
  PROVE  NothingLost'
<1> USE ProcsFacts
<1>1. /\ msg \in [Procs -> MsgOrNull] /\ pc \in [Procs -> Labels]
  BY DEF TypeInv, ProcType
<1>2. PICK m \in Msgs : /\ Settles(p, seen[p], Awaited(p), m)
                        /\ Behead(p, m) /\ Unlink(m)
                        /\ msg' = [msg EXCEPT ![p] = m] /\ Goto(p, "got")
  BY <1>1 DEF CheckLocked, Goto
<1>3. /\ pc[p] = "lock" /\ UNCHANGED <<held, live, frame, fpc>> /\ UNCHANGED heapVars
  BY DEF CheckLocked, At, heapVars, irqVars
<1>4. m \in R[p]
  BY <1>2, <1>3, SettlesIn DEF At
<1>5. PICK R2 : R2 = [R EXCEPT ![p] = R[p] \ {m}]
  OBVIOUS
<1>6. R2 \in BoxType /\ R2[p] = R[p] \ {m} /\ \A q \in Procs \ {p} : R2[q] = R[q]
  BY <1>5 DEF BoxType
<1>7. Rings(R, k) /\ InBox(R)
  BY DEF OwnInv
<1>8. Taken(R, p, m, R2)
  BY <1>4, <1>5, <1>6 DEF Taken
<1>9. Rings(R2, k)'
  BY <1>2, <1>3, <1>7, <1>8, TakeRings
<1>10. \A q \in Procs : Ring(q) = R[q] /\ Ring(q)' = R2[q]
  BY <1>6, <1>7, <1>9, RingExact, RingExactNext
<1>11. pc'[p] = "got" /\ msg'[p] = m /\ \A q \in Procs \ {p} : pc'[q] = pc[q] /\ msg'[q] = msg[q]
  BY <1>1, <1>2 DEF Goto
<1>12. m \in InHand(p)' /\ \A q \in Procs : InHand(q) \subseteq InHand(q)'
  BY <1>3, <1>11 DEF InHand
<1>13. \A q \in Procs : InFrame(q)' = InFrame(q)
  BY <1>3 DEF InFrame
<1>14. \A q \in Procs : Ring(q) \subseteq Ring(q)' \cup {m}
  BY <1>6, <1>10
<1> QED
  BY <1>3, <1>12, <1>13, <1>14, PlacesStep

\* msg_free of a message whose links name at most one message that is still in
\* the mailbox it came from.
LEMMA FreePlaces ==
  ASSUME TypeInv, NothingLost, NEW R \in BoxType, NEW k \in RankType, OwnInv(R, k),
         NEW p \in Procs, pc[p] \in TakenAt, msg_free(msg[p]),
         \A x, y \in R[p] : x = y,
         \A q \in Procs : /\ InHand(q) \subseteq InHand(q)' \cup {msg[p]}
                          /\ InFrame(q) \subseteq InFrame(q)'
  PROVE  NothingLost'
<1> USE ProcsFacts
<1>1. PICK m : m = msg[p]
  OBVIOUS
<1>2. m \in live /\ m \in Msgs /\ \A q \in Procs : m \notin R[q]
  BY <1>1, HandFacts DEF OwnInv, Hands, TypeInv, HeapType
<1>3. LeftLinks(m, R[p], mbox[p], next, prev)
  BY <1>1 DEF OwnInv, Left
<1>4. Rings(R, k) /\ InBox(R) /\ RingLinks(R[p], next, prev)
  BY DEF OwnInv, Rings, RingOf
<1>5. Kept(m, R[p], next, prev, k) = R[p]
  BY <1>3, <1>4 DEF Kept, LeftLinks, RingLinks
<1>6. R = [R EXCEPT ![p] = Kept(m, R[p], next, prev, k)]
  BY <1>5 DEF BoxType
<1>7. Rings(R, k)'
  BY <1>1, <1>2, <1>3, <1>4, <1>6, FreeRings
<1>8. \A q \in Procs : Ring(q) = R[q] /\ Ring(q)' = R[q]
  BY <1>4, <1>7, RingExact, RingExactNext
<1>9. live' = live \ {m}
  BY <1>1 DEF msg_free
<1> QED
  BY <1>1, <1>8, <1>9, PlacesStep

\* A step that makes no message and changes no field.
LEMMA KindsSame ==
  ASSUME Kinds, OneIrq, live' \subseteq live,
         \A x \in live' : from'[x] = from[x] /\ to'[x] = to[x] /\ op'[x] = op[x]
  PROVE  Kinds' /\ OneIrq'
<1>1. OneIrq'
  BY DEF OneIrq
<1>2. Kinds'
  <2> SUFFICES ASSUME NEW m \in live'
               PROVE  \/ \E c \in Clients : Conversation(m, c)'
                      \/ Transfer(m)' \/ (op'[m] = "IRQ" /\ to'[m] = Driver)
    BY DEF Kinds
  <2>1. from'[m] = from[m] /\ to'[m] = to[m] /\ op'[m] = op[m] /\ m \in live
    OBVIOUS
  <2> QED
    BY <2>1 DEF Kinds, Conversation, Transfer
<1> QED
  BY <1>1, <1>2

\* A step that makes a message m of one of the three kinds, the only interrupt if it is one.
LEMMA KindsAlloc ==
  ASSUME TypeInv, Kinds, OneIrq, NEW m, NEW f, NEW dst, NEW o, msg_alloc(m, f, dst, o),
         \/ f \in Clients /\ dst = FS /\ o = "SYS_READ"
         \/ f = FS /\ dst = Driver /\ o = "SYS_READ"
         \/ dst = Driver /\ o = "IRQ" /\ \A x \in live : op[x] # "IRQ"
  PROVE  Kinds' /\ OneIrq'
<1>1. m \in Msgs \ live /\ live' = live \cup {m}
  BY DEF msg_alloc
<1>2. from'[m] = f /\ to'[m] = dst /\ op'[m] = o
  BY <1>1 DEF msg_alloc, TypeInv, HeapType
<1>3. \A x \in live : from'[x] = from[x] /\ to'[x] = to[x] /\ op'[x] = op[x]
  BY <1>1 DEF msg_alloc, TypeInv, HeapType
<1>4. OneIrq'
  BY <1>1, <1>2, <1>3 DEF OneIrq
<1>5. Kinds'
  <2> SUFFICES ASSUME NEW x \in live'
               PROVE  \/ \E c \in Clients : Conversation(x, c)'
                      \/ Transfer(x)' \/ (op'[x] = "IRQ" /\ to'[x] = Driver)
    BY DEF Kinds
  <2>1. CASE x = m
    BY <1>2, <2>1 DEF Conversation, Transfer
  <2>2. CASE x # m
    BY <1>1, <1>3, <2>2 DEF Kinds, Conversation, Transfer
  <2> QED
    BY <2>1, <2>2
<1> QED
  BY <1>4, <1>5

\* A step that turns a message round.
LEMMA KindsReply ==
  ASSUME TypeInv, NEW R \in BoxType, NEW k \in RankType, OwnInv(R, k), Kinds, OneIrq,
         NEW p \in Procs, pc[p] \in TakenAt, op[msg[p]] # "IRQ", ReplyBegin(p)
  PROVE  Kinds' /\ OneIrq'
<1>1. PICK m : m = msg[p]
  OBVIOUS
<1>2. m \in live /\ m \in Msgs
  BY <1>1, HandFacts DEF OwnInv, Hands, TypeInv, HeapType
<1>3. /\ UNCHANGED <<live, op>> /\ from'[m] = to[m] /\ to'[m] = from[m]
      /\ \A x \in Msgs \ {m} : from'[x] = from[x] /\ to'[x] = to[x]
  BY <1>1, <1>2 DEF ReplyBegin, TypeInv, HeapType
<1>4. OneIrq'
  BY <1>3 DEF OneIrq
<1>5. Kinds'
  <2> SUFFICES ASSUME NEW x \in live'
               PROVE  \/ \E c \in Clients : Conversation(x, c)'
                      \/ Transfer(x)' \/ (op'[x] = "IRQ" /\ to'[x] = Driver)
    BY DEF Kinds
  <2>1. CASE x = m
    BY <1>1, <1>2, <1>3, <2>1 DEF Kinds, Conversation, Transfer
  <2>2. CASE x # m
    BY <1>3, <2>2 DEF Kinds, Conversation, Transfer, TypeInv, HeapType
  <2> QED
    BY <2>1, <2>2
<1> QED
  BY <1>4, <1>5

\* No step makes a message of another kind, or a second interrupt.
LEMMA NextKinds ==
  ASSUME TypeInv, NEW R \in BoxType, NEW k \in RankType, OwnInv(R, k), FewMessages,
         Kinds, OneIrq, [Next]_vars
  PROVE  Kinds' /\ OneIrq'
<1> USE ProcsFacts
<1>1. ASSUME NEW p \in Procs, Common(p)
      PROVE  Kinds' /\ OneIrq'
  <2>1. UNCHANGED <<live, from, to, op>>
    BY <1>1 DEF Common, SendLocked, SendWake, CheckRead, CheckLocked, SleepLocked, SleepSched,
                ReplyEnd, heapVars, msg_send
  <2> QED
    BY <2>1, KindsSame
<1>2. ASSUME NEW p \in Procs, Irq(p)
      PROVE  Kinds' /\ OneIrq'
  <2>1. CASE IrqAlloc(p)
    <3>1. PICK m : msg_alloc(m, HARDWARE, Driver, "IRQ")
      BY <2>1 DEF IrqAlloc
    <3>2. PICK I : I = {x \in live : op[x] = "IRQ"}
      OBVIOUS
    <3>3. Cardinality(I) < MaxIrqs
      BY <2>1, <3>2 DEF IrqAlloc
    <3>4. IsFiniteSet(I)
      <4>1. I \subseteq Msgs
        BY <3>2 DEF TypeInv, HeapType
      <4> QED
        BY <4>1, IpcAssumption, FS_Subset
    <3>5. Cardinality(I) \in Nat /\ MaxIrqs \in Nat /\ MaxIrqs <= 1
      BY <3>4, FS_CardinalityType, IpcAssumption DEF FewMessages
    <3>6. Cardinality(I) = 0
      BY <3>3, <3>5
    <3>7. I = {}
      BY <3>4, <3>6, FS_EmptySet
    <3>8. \A x \in live : op[x] # "IRQ"
      BY <3>2, <3>7
    <3> QED
      BY <3>1, <3>8, KindsAlloc
  <2>2. CASE IrqSendLocked(p) \/ IrqSendWake(p)
    <3>1. UNCHANGED <<live, from, to, op>>
      BY <2>2 DEF IrqSendLocked, IrqSendWake, msg_send, heapVars
    <3> QED
      BY <3>1, KindsSame
  <2> QED
    BY <1>2, <2>1, <2>2 DEF Irq
<1>3. ASSUME NEW c \in Clients, ClientCall(c)
      PROVE  Kinds' /\ OneIrq'
  <2>1. PICK m, o : o \in Requests /\ msg_alloc(m, c, FS, o)
    BY <1>3 DEF ClientCall
  <2>2. o = "SYS_READ"
    BY <2>1 DEF FewMessages
  <2> QED
    BY <2>1, <2>2, KindsAlloc
<1>4. CASE FsAskDriver
  <2>1. PICK m : msg_alloc(m, FS, Driver, "SYS_READ")
    BY <1>4 DEF FsAskDriver
  <2> QED
    BY <2>1, KindsAlloc
<1>5. CASE (\E c \in Clients : ClientReturn(c)) \/ FsDriverDone \/ FsFree \/ DriverIrq
  <2>1. PICK m : msg_free(m)
    BY <1>5 DEF ClientReturn, FsDriverDone, FsFree, DriverIrq
  <2>2. live' = live \ {m} /\ \A x \in live' : from'[x] = from[x] /\ to'[x] = to[x] /\ op'[x] = op[x]
    BY <2>1 DEF msg_free, TypeInv, HeapType
  <2> QED
    BY <2>2, KindsSame
<1>6. CASE FsReply \/ DriverReply
  <2>1. PICK p \in Procs : ReplyBegin(p) /\ pc[p] \in TakenAt /\ op[msg[p]] # "IRQ"
    BY <1>6 DEF FsReply, FsServed, DriverReply, At, TakenAt
  <2> QED
    BY <2>1, KindsReply
<1>7. CASE Tick \/ UNCHANGED vars
  <2>1. UNCHANGED <<live, from, to, op>>
    BY <1>7 DEF Tick, vars, heapVars
  <2> QED
    BY <2>1, KindsSame
<1> QED
  BY <1>1, <1>2, <1>3, <1>4, <1>5, <1>6, <1>7 DEF Next, Client, Fs, Drvr

\* A message that has been queued for a client is the answer the client waits for.
LEMMA ClientBox ==
  ASSUME NEW R \in BoxType, NEW k \in RankType, OwnInv(R, k), Called, Kinds,
         NEW c \in Clients, pc[c] = "got"
  PROVE  R[c] = {}
<1> USE ProcsFacts
<1> SUFFICES ASSUME NEW x \in R[c] PROVE FALSE
  OBVIOUS
<1>1. x \in live /\ to[x] = c
  BY DEF OwnInv, InBox
<1>2. c # FS /\ c # Driver
  BY IpcAssumption
<1>3. Conversation(x, c)
  BY <1>1, <1>2 DEF Kinds, Conversation, Transfer
<1>4. x = msg[c]
  BY <1>1, <1>3 DEF Called
<1>5. msg[c] \in InHand(c)
  BY HandFacts DEF TakenAt
<1> QED
  BY <1>4, <1>5 DEF OwnInv, Hands

\* When the file system has its driver's answer, its mailbox has at most the request
\* of the client whose request it does not hold.
LEMMA FsBox ==
  ASSUME NEW R \in BoxType, NEW k \in RankType, OwnInv(R, k), FewMessages, Called, Kinds,
         pc[FS] = "got", held[FS] # NULL
  PROVE  \A x, y \in R[FS] : x = y
<1> USE ProcsFacts
<1>1. held[FS] \in InHand(FS) /\ msg[FS] \in InHand(FS) /\ held[FS] # msg[FS]
  BY HandFacts DEF OwnInv, Hands, TakenAt
<1>2. to[held[FS]] = FS /\ held[FS] \in live
  BY <1>1 DEF OwnInv, Told, Hands
<1>3. FS # Driver /\ FS \notin Clients
  BY IpcAssumption
<1>4. ASSUME NEW x \in live, to[x] = FS, x # msg[FS]
      PROVE  \E c \in Clients : x = msg[c]
  <2>1. ~ Transfer(x)
    BY <1>3, <1>4 DEF OwnInv, Asked, Transfer
  <2>2. PICK c \in Clients : Conversation(x, c)
    BY <1>3, <1>4, <2>1 DEF Kinds
  <2> QED
    BY <2>2 DEF Called
<1>5. PICK h \in Clients : held[FS] = msg[h]
  BY <1>1, <1>2, <1>4
<1>6. ASSUME NEW x \in R[FS]
      PROVE  \E c \in Clients : x = msg[c] /\ c # h
  <2>1. x \in live /\ to[x] = FS /\ x # msg[FS] /\ x # held[FS]
    BY <1>1 DEF OwnInv, InBox, Hands
  <2> QED
    BY <1>4, <1>5, <2>1
<1>7. PICK a, b : Clients \subseteq {a, b}
  BY DEF FewMessages
<1> QED
  BY <1>5, <1>6, <1>7

\* When the driver has its interrupt, its mailbox has at most the file system's request.
LEMMA DriverBox ==
  ASSUME NEW R \in BoxType, NEW k \in RankType, OwnInv(R, k), Kinds, OneIrq,
         pc[Driver] = "got", op[msg[Driver]] = "IRQ"
  PROVE  \A x, y \in R[Driver] : x = y
<1> USE ProcsFacts
<1>1. msg[Driver] \in InHand(Driver) /\ msg[Driver] \in live
  BY HandFacts DEF OwnInv, Hands, TakenAt
<1>2. FS # Driver /\ Driver \notin Clients
  BY IpcAssumption
<1>3. ASSUME NEW x \in R[Driver]
      PROVE  x = msg[FS]
  <2>1. x \in live /\ to[x] = Driver /\ x # msg[Driver]
    BY <1>1 DEF OwnInv, InBox, Hands
  <2>2. op[x] # "IRQ"
    BY <1>1, <2>1 DEF OneIrq
  <2>3. from[x] = FS
    BY <1>2, <2>1, <2>2 DEF Kinds, Conversation, Transfer
  <2> QED
    BY <2>1, <2>3 DEF OwnInv, Asked
<1> QED
  BY <1>3

\* No step loses a message.
LEMMA NextPlaces ==
  ASSUME TypeInv, NEW R \in BoxType, NEW k \in RankType, OwnInv(R, k), FewMessages,
         Called, Kinds, OneIrq, NothingLost, [Next]_vars
  PROVE  NothingLost'
<1> USE ProcsFacts
<1>0. /\ pc \in [Procs -> Labels] /\ msg \in [Procs -> MsgOrNull] /\ held \in [Procs -> MsgOrNull]
      /\ frame \in [Procs -> MsgOrNull] /\ fpc \in [Procs -> {"none", "send", "wake"}]
  BY DEF TypeInv, ProcType, IrqType
<1>1. ASSUME NEW p \in Procs, Common(p)
      PROVE  NothingLost'
  BY <1>1, QuietPlaces, SendPlaces, TakePlaces DEF Common
<1>2. ASSUME NEW p \in Procs, IrqAlloc(p)
      PROVE  NothingLost'
  <2>1. PICK m \in Msgs : msg_alloc(m, HARDWARE, Driver, "IRQ") /\ frame' = [frame EXCEPT ![p] = m]
    BY <1>2 DEF IrqAlloc
  <2>2. fpc[p] = "none" /\ fpc' = [fpc EXCEPT ![p] = "send"] /\ UNCHANGED <<pc, msg, held>>
    BY <1>2 DEF IrqAlloc, Runs, procVars
  <2>3. \A q \in Procs : InHand(q) \subseteq InHand(q)' /\ InFrame(q) \subseteq InFrame(q)'
    BY <1>0, <2>1, <2>2 DEF InHand, InFrame
  <2>4. m \in InFrame(p)'
    BY <1>0, <2>1, <2>2 DEF InFrame
  <2> QED
    BY <2>1, <2>3, <2>4, AllocPlaces
<1>3. ASSUME NEW p \in Procs, IrqSendLocked(p) \/ IrqSendWake(p)
      PROVE  NothingLost'
  BY <1>3, QuietPlaces, SendPlaces
<1>4. ASSUME NEW c \in Clients, ClientCall(c)
      PROVE  NothingLost'
  <2>1. PICK m \in Msgs, o \in Requests : msg_alloc(m, c, FS, o) /\ msg' = [msg EXCEPT ![c] = m]
    BY <1>4 DEF ClientCall
  <2>2. /\ pc[c] = "idle" /\ pc' = [pc EXCEPT ![c] = "send"] /\ c \in Procs
        /\ UNCHANGED <<held, frame, fpc>>
    BY <1>4 DEF ClientCall, At, Goto, irqVars
  <2>3. \A q \in Procs : InHand(q) \subseteq InHand(q)' /\ InFrame(q) \subseteq InFrame(q)'
    BY <1>0, <2>1, <2>2 DEF InHand, InFrame
  <2>4. m \in InHand(c)'
    BY <1>0, <2>1, <2>2 DEF InHand
  <2> QED
    BY <2>1, <2>2, <2>3, <2>4, AllocPlaces
<1>5. CASE FsAskDriver
  <2>1. PICK m \in Msgs : msg_alloc(m, FS, Driver, "SYS_READ") /\ msg' = [msg EXCEPT ![FS] = m]
    BY <1>5 DEF FsAskDriver
  <2>2. /\ pc[FS] = "got" /\ held[FS] = NULL /\ pc' = [pc EXCEPT ![FS] = "send"]
        /\ held' = [held EXCEPT ![FS] = msg[FS]] /\ UNCHANGED <<frame, fpc>>
    BY <1>5 DEF FsAskDriver, At, Goto, irqVars
  <2>3. msg[FS] \in Msgs
    BY <2>2 DEF TypeInv, HasMsg, HasMsgAt
  <2>4. \A q \in Procs : InFrame(q)' = InFrame(q)
    BY <2>2 DEF InFrame
  <2>5. \A q \in Procs \ {FS} : InHand(q)' = InHand(q)
    BY <1>0, <2>1, <2>2 DEF InHand
  <2>6. InHand(FS) = {msg[FS]} /\ InHand(FS)' = {m, msg[FS]}
    BY <1>0, <2>1, <2>2, <2>3 DEF InHand
  <2> QED
    BY <2>1, <2>4, <2>5, <2>6, AllocPlaces
<1>6. ASSUME NEW c \in Clients, ClientReturn(c)
      PROVE  NothingLost'
  <2>1. /\ pc[c] = "got" /\ msg_free(msg[c]) /\ c \in Procs
        /\ msg' = [msg EXCEPT ![c] = NULL] /\ pc' = [pc EXCEPT ![c] = "idle"]
        /\ UNCHANGED <<held, frame, fpc>>
    BY <1>6 DEF ClientReturn, At, Goto, irqVars
  <2>2. R[c] = {} /\ pc[c] \in TakenAt
    BY <2>1, ClientBox DEF TakenAt
  <2>3. \A q \in Procs : InHand(q) \subseteq InHand(q)' \cup {msg[c]} /\ InFrame(q)' = InFrame(q)
    BY <1>0, <2>1 DEF InHand, InFrame
  <2> QED
    BY <2>1, <2>2, <2>3, FreePlaces
<1>7. CASE FsDriverDone
  <2>1. /\ pc[FS] = "got" /\ held[FS] # NULL /\ msg_free(msg[FS])
        /\ msg' = [msg EXCEPT ![FS] = held[FS]] /\ pc' = [pc EXCEPT ![FS] = "served"]
        /\ held' = [held EXCEPT ![FS] = NULL] /\ UNCHANGED <<frame, fpc>>
    BY <1>7 DEF FsDriverDone, At, Goto, irqVars
  <2>2. (\A x, y \in R[FS] : x = y) /\ pc[FS] \in TakenAt
    BY <2>1, FsBox DEF TakenAt
  <2>3. \A q \in Procs : InFrame(q)' = InFrame(q)
    BY <2>1 DEF InFrame
  <2>4. \A q \in Procs \ {FS} : InHand(q)' = InHand(q)
    BY <1>0, <2>1 DEF InHand
  <2>5. InHand(FS) \subseteq InHand(FS)' \cup {msg[FS]}
    BY <1>0, <2>1 DEF InHand
  <2> QED
    BY <2>1, <2>2, <2>3, <2>4, <2>5, FreePlaces
<1>8. CASE FsFree
  <2>1. pc[FS] \in TakenAt /\ op[msg[FS]] = "SYS_SYNC"
    BY <1>8 DEF FsFree, FsServed, TakenAt
  <2>2. msg[FS] \in live
    BY <2>1, HandFacts DEF OwnInv, Hands
  <2> QED
    BY <2>1, <2>2 DEF Kinds, Conversation, Transfer
<1>9. CASE DriverIrq
  <2>1. /\ pc[Driver] = "got" /\ op[msg[Driver]] = "IRQ" /\ msg_free(msg[Driver])
        /\ msg' = [msg EXCEPT ![Driver] = NULL] /\ pc' = [pc EXCEPT ![Driver] = "check"]
        /\ UNCHANGED <<held, frame, fpc>>
    BY <1>9 DEF DriverIrq, At, Goto, irqVars
  <2>2. (\A x, y \in R[Driver] : x = y) /\ pc[Driver] \in TakenAt
    BY <2>1, DriverBox DEF TakenAt
  <2>3. \A q \in Procs : InHand(q) \subseteq InHand(q)' \cup {msg[Driver]} /\ InFrame(q)' = InFrame(q)
    BY <1>0, <2>1 DEF InHand, InFrame
  <2> QED
    BY <2>1, <2>2, <2>3, FreePlaces
<1>10. CASE FsReply \/ DriverReply
  <2>1. PICK p \in Procs : ReplyBegin(p) /\ pc[p] \in TakenAt
    BY <1>10 DEF FsReply, FsServed, DriverReply, At, TakenAt
  <2> QED
    BY <2>1, QuietPlaces
<1>11. CASE Tick \/ UNCHANGED vars
  BY <1>11, QuietPlaces
<1> QED
  BY <1>1, <1>2, <1>3, <1>4, <1>5, <1>6, <1>7, <1>8, <1>9, <1>10, <1>11
     DEF Next, Irq, Client, Fs, Drvr

\* With at most two clients, who make only calls that are answered, and at most one
\* interrupt at a time, no message that was sent is ever lost, however many messages
\* the heap has room for.  Each of the three conditions is needed: a third client, a
\* second interrupt, or a call that is freed (SYS_SYNC) lets msg_free cut a message out
\* of a mailbox.
THEOREM NothingLostCorrect ==
  ASSUME FewMessages
  PROVE  Spec => []NothingLost
<1> DEFINE Inv == Answering /\ Kinds /\ OneIrq /\ NothingLost
<1>1. Init => Inv
  <2> SUFFICES ASSUME Init PROVE Inv
    OBVIOUS
  <2>1. live = {}
    BY DEF Init
  <2>2. Answering
    BY <2>1, InitType, InitOwn DEF Answering, Called
  <2>3. Kinds /\ OneIrq /\ NothingLost
    BY <2>1 DEF Kinds, OneIrq, NothingLost
  <2> QED
    BY <2>2, <2>3
<1>2. Inv /\ [Next]_vars => Inv'
  <2> SUFFICES ASSUME Inv, [Next]_vars PROVE Inv'
    OBVIOUS
  <2>1. PICK R \in BoxType, k \in RankType : OwnInv(R, k)
    BY DEF Answering
  <2>2. Answering'
    BY NextType, NextOwn, NextCalled DEF Answering
  <2>3. TypeInv /\ Called
    BY DEF Answering
  <2>4. Kinds' /\ OneIrq'
    BY <2>1, <2>3, NextKinds
  <2>5. NothingLost'
    BY <2>1, <2>3, NextPlaces
  <2> QED
    BY <2>2, <2>4, <2>5
<1>3. Inv => NothingLost
  OBVIOUS
<1> QED
  BY <1>1, <1>2, <1>3, PTL DEF Spec

-----------------------------------------------------------------------------
(* Mailboxes as queues: the list of a ring.                                  *)

\* q lists the ring Q with head h along the links n, and n leads from its end to h.
Lists(q, Q, h, n) ==
  /\ q \in Seq(Msgs)
  /\ \A i \in 1 .. Len(q) : q[i] \in Q
  /\ \A x \in Q : \E i \in 1 .. Len(q) : q[i] = x
  /\ \A i, j \in 1 .. Len(q) : q[i] = q[j] => i = j
  /\ Q # {} => q[1] = h /\ n[q[Len(q)]] = h
  /\ \A i \in 1 .. Len(q) - 1 : q[i + 1] = n[q[i]]

\* The walk along the links is what its definition says.
LEMMA WalkIs ==
  ASSUME NEW h \in Msgs, NEW n \in [Msgs -> Msgs]
  PROVE  /\ Cardinality(Msgs) \in Nat
         /\ Walk(h, n) \in [0 .. Cardinality(Msgs) -> Msgs] /\ Walk(h, n)[0] = h
         /\ \A i \in 1 .. Cardinality(Msgs) : Walk(h, n)[i] = n[Walk(h, n)[i - 1]]
<1> DEFINE c == Cardinality(Msgs)
           G == [t \in (1 .. c) \X Msgs |-> n[t[2]]]
           walk[k \in 0 .. c] == IF k = 0 THEN h ELSE n[walk[k - 1]]
<1>1. Walk(h, n) = walk
  BY DEF Walk
<1>2. c \in Nat
  BY IpcAssumption, FS_CardinalityType
<1> HIDE DEF c
<1>3. G \in [(1 .. c) \X Msgs -> Msgs]
  OBVIOUS
<1>4. PICK f \in [0 .. c -> Msgs] : Turns(c, h, G, f)
  <2> HIDE DEF G
  <2> QED
    BY <1>2, <1>3, LoopExists
<1>5. f = [k \in 0 .. c |-> IF k = 0 THEN h ELSE n[f[k - 1]]]
  <2>1. \A k \in 0 .. c : k # 0 => G[<<k, f[k - 1]>>] = n[f[k - 1]]
    BY <1>2
  <2> HIDE DEF G
  <2>2. \A k \in 0 .. c : f[k] = IF k = 0 THEN h ELSE n[f[k - 1]]
    BY <1>4, <2>1 DEF Turns
  <2> QED
    BY <2>2
<1>6. walk = [k \in 0 .. c |-> IF k = 0 THEN h ELSE n[walk[k - 1]]]
  BY <1>5 DEF walk
<1> HIDE DEF walk
<1> DEFINE A == {k \in 0 .. c : walk[k] \in Msgs}
<1>7. 0 \in A
  BY <1>2, <1>6
<1>8. ASSUME NEW i \in 0 .. c - 1, i \in A PROVE i + 1 \in A
  <2>1. i + 1 \in 0 .. c /\ i + 1 # 0 /\ (i + 1) - 1 = i /\ walk[i] \in Msgs
    BY <1>2, <1>8
  <2>2. walk[i + 1] = n[walk[i]]
    BY <1>6, <2>1
  <2> QED
    BY <2>1, <2>2
<1> HIDE DEF A
<1>9. \A i \in 0 .. c : i \in A
  BY <1>2, <1>7, <1>8, UpTo
<1>10. walk \in [0 .. c -> Msgs] /\ walk[0] = h
  BY <1>2, <1>6, <1>9 DEF A
<1>11. \A i \in 1 .. c : walk[i] = n[walk[i - 1]]
  BY <1>2, <1>6
<1> QED
  BY <1>1, <1>2, <1>10, <1>11 DEF c

\* The walk from the head of a ring lists it.
LEMMA WalkLists ==
  ASSUME NEW Q, NEW h \in Msgs, NEW n \in [Msgs -> Msgs], NEW pr \in [Msgs -> Msgs],
         NEW k \in RankType, RingOf(Q, h, n, pr, k)
  PROVE  Lists([i \in 1 .. Cardinality(Q) |-> Walk(h, n)[i - 1]], Q, h, n)
<1> DEFINE w == Walk(h, n)
           c == Cardinality(Q)
           q == [i \in 1 .. Cardinality(Q) |-> Walk(h, n)[i - 1]]
<1>1. /\ Q \subseteq Msgs /\ h \in Q /\ \A x \in Q : n[x] \in Q
      /\ \A x \in Q : k[x] \in Nat /\ (n[x] # h => k[x] < k[n[x]])
  BY ProcsFacts DEF RingOf, RingSet, RingLinks, RingRank, RankType
<1>2. IsFiniteSet(Q) /\ c \in Nat /\ c <= Cardinality(Msgs) /\ c # 0
  <2>1. IsFiniteSet(Q) /\ c <= Cardinality(Msgs)
    BY <1>1, IpcAssumption, FS_Subset
  <2> QED
    BY <1>1, <2>1, FS_CardinalityType, FS_EmptySet
<1>3. /\ w \in [0 .. Cardinality(Msgs) -> Msgs] /\ w[0] = h
      /\ \A i \in 1 .. Cardinality(Msgs) : w[i] = n[w[i - 1]]
      /\ Cardinality(Msgs) \in Nat
  BY WalkIs
<1> HIDE DEF w, c
<1>4. \A i \in 0 .. c : w[i] \in Q
  <2> DEFINE A == {i \in 0 .. c : w[i] \in Q}
  <2>1. 0 \in A
    BY <1>1, <1>2, <1>3
  <2>2. ASSUME NEW i \in 0 .. c - 1, i \in A PROVE i + 1 \in A
    <3>1. i + 1 \in 1 .. Cardinality(Msgs) /\ (i + 1) - 1 = i /\ i + 1 \in 0 .. c
      BY <1>2, <1>3
    <3>2. w[i + 1] = n[w[i]]
      BY <1>3, <3>1
    <3> QED
      BY <1>1, <2>2, <3>1, <3>2
  <2> HIDE DEF A
  <2>3. \A i \in 0 .. c : i \in A
    BY <1>2, <2>1, <2>2, UpTo
  <2> QED
    BY <2>3 DEF A
\* The walk does not come back to the head before it has been everywhere.
<1>5. ASSUME NEW j \in 1 .. c, w[j] = h PROVE j = c
  <2> DEFINE S == {w[i - 1] : i \in 1 .. j}
             f == [i \in 1 .. j |-> w[i - 1]]
  <2>1. h \in S
    <3>1. 1 \in 1 .. j /\ 1 - 1 = 0
      BY <1>2
    <3> QED
      BY <1>3, <3>1
  <2>2. \A x \in S : n[x] \in S
    <3> SUFFICES ASSUME NEW i \in 1 .. j PROVE n[w[i - 1]] \in S
      OBVIOUS
    <3>1. n[w[i - 1]] = w[i]
      BY <1>2, <1>3
    <3>2. CASE i = j
      BY <1>5, <2>1, <3>1, <3>2
    <3>3. CASE i # j
      <4>1. i + 1 \in 1 .. j /\ (i + 1) - 1 = i
        BY <1>2, <3>3
      <4> QED
        BY <3>1, <4>1
    <3> QED
      BY <3>2, <3>3
  <2>3. Q \subseteq S
    <3> HIDE DEF S
    <3> QED
      BY <2>1, <2>2, RingReached, ProcsFacts
  <2>4. S \subseteq Q
    BY <1>2, <1>4
  <2>5. f \in Surjection(1 .. j, Q)
    <3>1. \A i \in 1 .. j : w[i - 1] \in Q
      BY <1>2, <1>4
    <3>2. f \in [1 .. j -> Q]
      BY <3>1
    <3>3. \A x \in Q : \E i \in 1 .. j : f[i] = x
      BY <2>3
    <3> HIDE DEF f
    <3> QED
      BY <3>2, <3>3 DEF Surjection
  <2>6. ExistsSurjection(1 .. j, Q)
    BY <2>5 DEF ExistsSurjection
  <2>7. j \in Nat
    BY <1>2
  <2>8. c <= j
    BY <2>6, <2>7, FS_SurjCardinalityBound DEF c
  <2> QED
    BY <1>2, <2>8
<1>6. \A i \in 0 .. c - 1 : w[i + 1] = n[w[i]] /\ (i < c - 1 => k[w[i]] < k[w[i + 1]])
  <2> SUFFICES ASSUME NEW i \in 0 .. c - 1
               PROVE  w[i + 1] = n[w[i]] /\ (i < c - 1 => k[w[i]] < k[w[i + 1]])
    OBVIOUS
  <2>1. i + 1 \in 1 .. Cardinality(Msgs) /\ (i + 1) - 1 = i /\ i + 1 \in 1 .. c /\ i \in 0 .. c
    BY <1>2, <1>3
  <2>2. w[i + 1] = n[w[i]] /\ w[i] \in Q
    BY <1>3, <1>4, <2>1
  <2>3. i < c - 1 => w[i + 1] # h
    BY <1>2, <1>5, <2>1
  <2> QED
    BY <1>1, <2>2, <2>3
\* Ranks go up along the walk.
<1>7. \A i, j \in 0 .. c - 1 : i < j => k[w[i]] < k[w[j]]
  <2> SUFFICES ASSUME NEW i \in 0 .. c - 1
               PROVE  \A j \in 0 .. c - 1 : i < j => k[w[i]] < k[w[j]]
    OBVIOUS
  <2> DEFINE A == {j \in 0 .. c - 1 : i < j => k[w[i]] < k[w[j]]}
  <2>1. 0 \in A
    BY <1>2
  <2>2. ASSUME NEW j \in 0 .. (c - 1) - 1, j \in A PROVE j + 1 \in A
    <3>1. j \in 0 .. c - 1 /\ j < c - 1 /\ j + 1 \in 0 .. c - 1 /\ i \in 0 .. c /\ j \in 0 .. c /\ j + 1 \in 0 .. c
      BY <1>2
    <3>2. k[w[j]] < k[w[j + 1]]
      BY <1>6, <3>1
    <3>3. k[w[i]] \in Nat /\ k[w[j]] \in Nat /\ k[w[j + 1]] \in Nat
      BY <1>1, <1>4, <3>1
    <3>4. i < j + 1 => i < j \/ i = j
      BY <1>2
    <3>5. i < j + 1 => k[w[i]] < k[w[j + 1]]
      BY <2>2, <3>2, <3>3, <3>4
    <3> QED
      BY <3>1, <3>5
  <2> HIDE DEF A
  <2>3. c - 1 \in Nat
    BY <1>2
  <2>4. \A j \in 0 .. c - 1 : j \in A
    BY <2>1, <2>2, <2>3, UpTo
  <2> QED
    BY <2>4 DEF A
<1>8. \A i, j \in 0 .. c - 1 : w[i] = w[j] => i = j
  <2> SUFFICES ASSUME NEW i \in 0 .. c - 1, NEW j \in 0 .. c - 1, w[i] = w[j], i # j PROVE FALSE
    OBVIOUS
  <2>1. i < j \/ j < i
    BY <1>2
  <2>2. k[w[i]] \in Nat
    BY <1>1, <1>2, <1>4
  <2> QED
    BY <1>7, <2>1, <2>2
<1>9. /\ q \in [1 .. c -> Q] /\ q \in Seq(Msgs) /\ Len(q) = c
      /\ \A i \in 1 .. c : q[i] = w[i - 1] /\ i - 1 \in 0 .. c - 1
  <2>1. \A i \in 1 .. c : w[i - 1] \in Q /\ w[i - 1] \in Msgs /\ i - 1 \in 0 .. c - 1
    BY <1>1, <1>2, <1>4
  <2>2. q = [i \in 1 .. c |-> w[i - 1]]
    BY DEF c, w
  <2> HIDE DEF q
  <2> QED
    BY <1>2, <2>1, <2>2
<1> HIDE DEF q
<1>10. \A i, j \in 1 .. c : q[i] = q[j] => i = j
  <2> SUFFICES ASSUME NEW i \in 1 .. c, NEW j \in 1 .. c, q[i] = q[j] PROVE i = j
    OBVIOUS
  <2>1. w[i - 1] = w[j - 1] /\ i - 1 \in 0 .. c - 1 /\ j - 1 \in 0 .. c - 1
    BY <1>9
  <2>2. i - 1 = j - 1
    BY <1>8, <2>1
  <2> QED
    BY <2>2
<1>11. \A x \in Q : \E i \in 1 .. c : q[i] = x
  <2>1. q \in Injection(1 .. c, Q)
    BY <1>9, <1>10 DEF Injection, IsInjective
  <2>2. IsFiniteSet(1 .. c) /\ Cardinality(1 .. c) = c
    <3>1. PICK o \in Int : o = 1
      OBVIOUS
    <3>2. IsFiniteSet(o .. c) /\ Cardinality(o .. c) = IF o > c THEN 0 ELSE c - o + 1
      BY <1>2, FS_Interval
    <3> QED
      BY <1>2, <3>1, <3>2
  <2>3. q \in Surjection(1 .. c, Q)
    BY <1>2, <2>1, <2>2, FS_Injection DEF c
  <2> QED
    BY <2>3 DEF Surjection
<1>12. \A i \in 1 .. c - 1 : q[i + 1] = n[q[i]]
  <2> SUFFICES ASSUME NEW i \in 1 .. c - 1 PROVE q[i + 1] = n[q[i]]
    OBVIOUS
  <2>1. i \in 1 .. c /\ i + 1 \in 1 .. c /\ (i + 1) - 1 = i /\ i - 1 \in 0 .. c - 1 /\ (i - 1) + 1 = i
    BY <1>2
  <2>2. q[i] = w[i - 1] /\ q[i + 1] = w[i] /\ w[i] = n[w[i - 1]]
    BY <1>6, <1>9, <2>1
  <2> QED
    BY <2>2
<1>13. q[1] = h /\ n[q[c]] = h
  <2>1. 1 \in 1 .. c /\ c \in 1 .. c /\ 1 - 1 = 0 /\ (c - 1) + 1 = c /\ c - 1 \in 0 .. c - 1
    BY <1>2
  <2>2. q[1] = h /\ q[c] = w[c - 1] /\ n[w[c - 1]] = w[c]
    BY <1>3, <1>6, <1>9, <2>1
  <2>3. ASSUME w[c] # h PROVE FALSE
    <3>1. w[c] \in Q
      BY <1>2, <1>4
    <3>2. PICK i \in 1 .. c : q[i] = w[c]
      BY <1>11, <3>1
    <3>3. w[i - 1] = w[c] /\ i - 1 \in 0 .. c - 1
      BY <1>9, <3>2
    <3>4. k[w[c - 1]] < k[w[c]] /\ k[w[c]] \in Nat /\ k[w[c - 1]] \in Nat
      <4>1. w[c - 1] \in Q
        BY <1>2, <1>4
      <4> QED
        BY <1>1, <2>2, <2>3, <3>1, <4>1
    <3>5. i - 1 < c - 1 => k[w[i - 1]] < k[w[c - 1]]
      BY <1>7, <2>1, <3>3
    <3>6. i - 1 < c - 1 \/ i - 1 = c - 1
      BY <1>2
    <3> QED
      BY <3>3, <3>4, <3>5, <3>6
  <2> QED
    BY <2>2, <2>3
<1>14. Lists(q, Q, h, n)
  BY <1>9, <1>10, <1>11, <1>12, <1>13 DEF Lists
<1> QED
  BY <1>14 DEF q

\* There is one list of a ring.
LEMMA OneList ==
  ASSUME NEW Q, NEW h, NEW n, NEW q, NEW r, Lists(q, Q, h, n), Lists(r, Q, h, n)
  PROVE  q = r
<1>1. /\ q \in Seq(Msgs) /\ r \in Seq(Msgs) /\ Len(q) \in Nat /\ Len(r) \in Nat
      /\ \A i \in 1 .. Len(q) : q[i] \in Q
      /\ \A i \in 1 .. Len(r) : r[i] \in Q
      /\ \A x \in Q : (\E i \in 1 .. Len(q) : q[i] = x) /\ (\E i \in 1 .. Len(r) : r[i] = x)
      /\ \A i, j \in 1 .. Len(q) : q[i] = q[j] => i = j
      /\ \A i, j \in 1 .. Len(r) : r[i] = r[j] => i = j
      /\ Q # {} => q[1] = h /\ r[1] = h
      /\ \A i \in 1 .. Len(q) - 1 : q[i + 1] = n[q[i]]
      /\ \A i \in 1 .. Len(r) - 1 : r[i + 1] = n[r[i]]
  BY DEF Lists
<1>2. CASE Q = {}
  <2>1. Len(q) = 0 /\ Len(r) = 0
    BY <1>1, <1>2
  <2> QED
    BY <1>1, <2>1
<1>3. CASE Q # {}
  <2>1. Len(q) >= 1 /\ Len(r) >= 1
    BY <1>1, <1>3
  <2> DEFINE A == {i \in 0 .. Len(q) : i # 0 => i <= Len(r) /\ r[i] = q[i]}
  <2>2. 0 \in A
    BY <1>1
  <2>3. ASSUME NEW i \in 0 .. Len(q) - 1, i \in A PROVE i + 1 \in A
    <3>1. CASE i = 0
      BY <1>1, <1>3, <2>1, <3>1
    <3>2. CASE i # 0
      <4>1. i \in 1 .. Len(q) - 1 /\ i <= Len(r) /\ r[i] = q[i] /\ q[i + 1] = n[q[i]] /\ i + 1 \in 0 .. Len(q)
        BY <1>1, <2>3, <3>2
      <4>2. i + 1 <= Len(r)
        <5> SUFFICES ASSUME i = Len(r) PROVE FALSE
          BY <1>1, <4>1
        <5>1. i + 1 \in 1 .. Len(q)
          BY <1>1, <4>1
        <5>2. PICK j \in 1 .. Len(r) : r[j] = q[i + 1]
          BY <1>1, <5>1
        <5>3. FALSE
          <6>1. Lists(r, Q, h, n) /\ r[Len(r)] = q[i] /\ n[r[Len(r)]] = h
            BY <1>3, <4>1 DEF Lists
          <6>2. q[i + 1] = q[1] /\ 1 \in 1 .. Len(q)
            BY <1>1, <1>3, <2>1, <4>1, <6>1
          <6> QED
            BY <1>1, <4>1, <5>1, <6>2
        <5> QED
          BY <5>3
      <4>3. r[i + 1] = n[r[i]]
        BY <1>1, <4>1, <4>2
      <4> QED
        BY <4>1, <4>2, <4>3
    <3> QED
      BY <3>1, <3>2
  <2> HIDE DEF A
  <2>4. \A i \in 0 .. Len(q) : i \in A
    BY <1>1, <2>2, <2>3, UpTo
  <2>5. \A i \in 1 .. Len(q) : i <= Len(r) /\ r[i] = q[i]
    BY <1>1, <2>4 DEF A
  <2>6. Len(q) <= Len(r)
    BY <1>1, <2>1, <2>5
  <2>7. Len(r) <= Len(q)
    <3> SUFFICES ASSUME Len(q) < Len(r) PROVE FALSE
      BY <1>1
    <3>1. Len(q) \in 1 .. Len(r) - 1 /\ r[Len(q)] = q[Len(q)] /\ n[q[Len(q)]] = h
      BY <1>1, <1>3, <2>1, <2>5 DEF Lists
    <3>2. r[Len(q) + 1] = h /\ r[1] = h /\ 1 \in 1 .. Len(r) /\ Len(q) + 1 \in 1 .. Len(r)
      BY <1>1, <1>3, <2>1, <3>1
    <3> QED
      BY <1>1, <2>1, <3>2
  <2>8. Len(q) = Len(r)
    BY <1>1, <2>6, <2>7
  <2> QED
    BY <1>1, <2>5, <2>8
<1> QED
  BY <1>2, <1>3

\* The list of a ring whose links have not changed.
LEMMA ListSame ==
  ASSUME NEW Q, NEW h, NEW n, NEW n2, NEW q, Lists(q, Q, h, n), \A x \in Q : n2[x] = n[x]
  PROVE  Lists(q, Q, h, n2)
<1>1. Q # {} => Len(q) \in 1 .. Len(q)
  BY DEF Lists
<1>2. /\ \A i \in 1 .. Len(q) : q[i] \in Q
      /\ \A i \in 1 .. Len(q) - 1 : i \in 1 .. Len(q)
  BY DEF Lists
<1>3. Q # {} => n2[q[Len(q)]] = n[q[Len(q)]]
  BY <1>1, <1>2
<1>4. \A i \in 1 .. Len(q) - 1 : n2[q[i]] = n[q[i]]
  BY <1>2
<1> QED
  BY <1>3, <1>4 DEF Lists

\* msg_send appends a message to a list ...
LEMMA ListAppend ==
  ASSUME NEW Q, NEW h, NEW n \in [Msgs -> Msgs], NEW pr, NEW k, RingOf(Q, h, n, pr, k),
         NEW q, Lists(q, Q, h, n), h # NULL, NEW m \in Msgs \ Q,
         NEW n2, n2 = [n EXCEPT ![m] = h, ![pr[h]] = m]
  PROVE  Lists(Append(q, m), Q \cup {m}, h, n2)
<1>1. /\ q \in Seq(Msgs) /\ Len(q) \in Nat
      /\ \A i \in 1 .. Len(q) : q[i] \in Q
      /\ \A x \in Q : \E i \in 1 .. Len(q) : q[i] = x
      /\ \A i, j \in 1 .. Len(q) : q[i] = q[j] => i = j
      /\ \A i \in 1 .. Len(q) - 1 : q[i + 1] = n[q[i]]
  BY DEF Lists
<1>2. Q \subseteq Msgs /\ h \in Q /\ \A x \in Q : pr[n[x]] = x
  BY DEF RingOf, RingSet, RingLinks
<1>3. Len(q) >= 1 /\ q[1] = h /\ n[q[Len(q)]] = h
  BY <1>1, <1>2 DEF Lists
<1>4. PICK r : r = Append(q, m)
  OBVIOUS
<1>5. /\ r \in Seq(Msgs) /\ Len(r) = Len(q) + 1 /\ r[Len(q) + 1] = m
      /\ \A i \in 1 .. Len(q) : r[i] = q[i]
  BY <1>1, <1>4
<1>6. pr[h] = q[Len(q)] /\ q[Len(q)] \in Q
  BY <1>1, <1>2, <1>3
<1>7. n2[m] = h /\ n2[q[Len(q)]] = m /\ \A x \in Q : x # q[Len(q)] => n2[x] = n[x]
  BY <1>2, <1>6
<1>8. \A i \in 1 .. Len(r) : r[i] \in Q \cup {m}
  BY <1>1, <1>5
<1>9. \A x \in Q \cup {m} : \E i \in 1 .. Len(r) : r[i] = x
  <2>1. Len(q) + 1 \in 1 .. Len(r) /\ \A i \in 1 .. Len(q) : i \in 1 .. Len(r)
    BY <1>1, <1>5
  <2> QED
    BY <1>1, <1>5, <2>1
<1>10. \A i, j \in 1 .. Len(r) : r[i] = r[j] => i = j
  <2>1. \A i \in 1 .. Len(r) : i = Len(q) + 1 \/ i \in 1 .. Len(q)
    BY <1>1, <1>5
  <2> QED
    BY <1>1, <1>5, <2>1
<1>11. r[1] = h /\ n2[r[Len(r)]] = h
  <2>1. 1 \in 1 .. Len(q)
    BY <1>1, <1>3
  <2> QED
    BY <1>3, <1>5, <1>7, <2>1
<1>12. \A i \in 1 .. Len(r) - 1 : r[i + 1] = n2[r[i]]
  <2> SUFFICES ASSUME NEW i \in 1 .. Len(r) - 1 PROVE r[i + 1] = n2[r[i]]
    OBVIOUS
  <2>1. i \in 1 .. Len(q) /\ r[i] = q[i] /\ q[i] \in Q
    BY <1>1, <1>5
  <2>2. CASE i = Len(q)
    BY <1>5, <1>7, <2>1, <2>2
  <2>3. CASE i # Len(q)
    <3>1. i \in 1 .. Len(q) - 1 /\ i + 1 \in 1 .. Len(q) /\ Len(q) \in 1 .. Len(q)
      BY <1>1, <1>3, <2>1, <2>3
    <3>2. q[i] # q[Len(q)]
      BY <1>1, <2>1, <2>3, <3>1
    <3>3. r[i + 1] = q[i + 1] /\ q[i + 1] = n[q[i]]
      BY <1>1, <1>5, <3>1
    <3>4. n2[q[i]] = n[q[i]]
      BY <1>7, <2>1, <3>2
    <3> QED
      BY <2>1, <3>3, <3>4
  <2> QED
    BY <2>2, <2>3
<1>13. Lists(r, Q \cup {m}, h, n2)
  BY <1>5, <1>8, <1>9, <1>10, <1>11, <1>12 DEF Lists
<1> QED
  BY <1>4, <1>13

\* ... or to an empty one.
LEMMA ListFirst ==
  ASSUME NEW q, NEW h, NEW n \in [Msgs -> Msgs], Lists(q, {}, h, n), NEW m \in Msgs
  PROVE  Lists(Append(q, m), {m}, m, [n EXCEPT ![m] = m])
<1>1. q \in Seq(Msgs) /\ Len(q) = 0
  BY DEF Lists
<1>2. PICK r : r = Append(q, m)
  OBVIOUS
<1>3. r \in Seq(Msgs) /\ Len(r) = 1 /\ r[1] = m
  BY <1>1, <1>2
<1>4. [n EXCEPT ![m] = m][m] = m
  OBVIOUS
<1>5. \A i \in 1 .. Len(r) : i = 1
  BY <1>3
<1>6. 1 \in 1 .. Len(r)
  BY <1>3
<1>7. Lists(r, {m}, m, [n EXCEPT ![m] = m])
  BY <1>3, <1>4, <1>5, <1>6 DEF Lists
<1> QED
  BY <1>2, <1>7

\* Two sequences one behind the other.
LEMMA Behind ==
  ASSUME NEW a \in Seq(Msgs), NEW b \in Seq(Msgs)
  PROVE  /\ a \o b \in Seq(Msgs) /\ Len(a \o b) = Len(a) + Len(b)
         /\ \A j \in 1 .. Len(a) : (a \o b)[j] = a[j]
         /\ \A j \in 1 .. Len(b) : (a \o b)[Len(a) + j] = b[j]
  OBVIOUS

\* What is left of a sequence without its i-th element.
LEMMA Without ==
  ASSUME NEW q \in Seq(Msgs), NEW i \in 1 .. Len(q)
  PROVE  /\ Queues!RemoveAt(q, i) \in Seq(Msgs) /\ Len(Queues!RemoveAt(q, i)) = Len(q) - 1
         /\ \A j \in 1 .. Len(q) - 1 : Queues!RemoveAt(q, i)[j] = IF j < i THEN q[j] ELSE q[j + 1]
<1> PICK a, b : a = SubSeq(q, 1, i - 1) /\ b = SubSeq(q, i + 1, Len(q))
  OBVIOUS
<1>0. Len(q) \in Nat /\ i \in Nat /\ i >= 1 /\ i <= Len(q)
  OBVIOUS
<1>1. a \in Seq(Msgs) /\ Len(a) = i - 1 /\ \A j \in 1 .. i - 1 : a[j] = q[j]
  BY <1>0
<1>2. b \in Seq(Msgs) /\ Len(b) = Len(q) - i /\ \A j \in 1 .. Len(q) - i : b[j] = q[j + i]
  BY <1>0
<1>3. Queues!RemoveAt(q, i) = a \o b
  BY DEF Queues!RemoveAt
<1>4. /\ a \o b \in Seq(Msgs) /\ Len(a \o b) = Len(a) + Len(b)
      /\ \A j \in 1 .. Len(a) : (a \o b)[j] = a[j]
      /\ \A j \in 1 .. Len(b) : (a \o b)[Len(a) + j] = b[j]
  <2>1. a \in Seq(Msgs) /\ b \in Seq(Msgs)
    BY <1>1, <1>2
  <2> QED
    BY <2>1, Behind
<1>5. ASSUME NEW j \in 1 .. Len(q) - 1
      PROVE  (a \o b)[j] = IF j < i THEN q[j] ELSE q[j + 1]
  <2>1. CASE j < i
    <3>1. j \in 1 .. Len(a)
      BY <1>0, <1>1, <2>1
    <3>2. (a \o b)[j] = a[j]
      BY <1>4, <3>1
    <3> QED
      BY <1>1, <2>1, <3>1, <3>2
  <2>2. CASE ~ (j < i)
    <3>1. PICK l \in 1 .. Len(q) - i : l = j - (i - 1) /\ j = Len(a) + l /\ l + i = j + 1
      BY <1>0, <1>1, <2>2
    <3>2. (a \o b)[j] = b[l]
      BY <1>2, <1>4, <3>1
    <3>3. b[l] = q[j + 1]
      BY <1>2, <3>1
    <3> QED
      BY <2>2, <3>2, <3>3
  <2> QED
    BY <2>1, <2>2
<1>6. Len(a \o b) = Len(q) - 1
  <2>1. Len(a) = i - 1 /\ Len(b) = Len(q) - i /\ Len(a \o b) = Len(a) + Len(b)
    BY <1>1, <1>2, <1>4
  <2>2. PICK x \in Nat, y \in Nat : x = Len(q) /\ y = i
    BY <1>0
  <2>3. Len(a \o b) = (y - 1) + (x - y)
    BY <2>1, <2>2
  <2>4. (y - 1) + (x - y) = x - 1
    OBVIOUS
  <2> QED
    BY <2>2, <2>3, <2>4
<1> QED
  BY <1>3, <1>4, <1>5, <1>6

\* msg_check takes a message out of a list.
LEMMA ListRemove ==
  ASSUME NEW Q, NEW h \in Msgs, NEW n \in [Msgs -> Msgs], NEW pr \in [Msgs -> Msgs],
         NEW k, RingOf(Q, h, n, pr, k), NEW q, Lists(q, Q, h, n),
         NEW i \in 1 .. Len(q), NEW m, m = q[i],
         NEW h2, h = m /\ n[m] # m => h2 = n[m], h # m => h2 = h,
         NEW n2, n2 = [n EXCEPT ![pr[m]] = n[m]]
  PROVE  Lists(Queues!RemoveAt(q, i), Q \ {m}, h2, n2)
<1>1. /\ q \in Seq(Msgs) /\ Len(q) \in Nat
      /\ \A j \in 1 .. Len(q) : q[j] \in Q
      /\ \A x \in Q : \E j \in 1 .. Len(q) : q[j] = x
      /\ \A j, l \in 1 .. Len(q) : q[j] = q[l] => j = l
      /\ \A j \in 1 .. Len(q) - 1 : q[j + 1] = n[q[j]]
  BY DEF Lists
<1>2. Q \subseteq Msgs /\ m \in Q /\ \A x \in Q : pr[x] \in Q /\ pr[n[x]] = x /\ n[pr[x]] = x
  BY <1>1 DEF RingOf, RingSet, RingLinks
<1>3. q[1] = h /\ n[q[Len(q)]] = h
  BY <1>2 DEF Lists
<1>4. PICK c \in Nat : c = Len(q)
  BY <1>1
<1>5. PICK r : r = Queues!RemoveAt(q, i)
  OBVIOUS
<1>6. /\ r \in Seq(Msgs) /\ Len(r) = c - 1
      /\ \A j \in 1 .. c - 1 : r[j] = IF j < i THEN q[j] ELSE q[j + 1]
  <2>1. /\ Queues!RemoveAt(q, i) \in Seq(Msgs) /\ Len(Queues!RemoveAt(q, i)) = Len(q) - 1
        /\ \A j \in 1 .. Len(q) - 1 :
             Queues!RemoveAt(q, i)[j] = IF j < i THEN q[j] ELSE q[j + 1]
    BY <1>1, Without
  <2> QED
    BY <1>4, <1>5, <2>1
<1>7. i \in 1 .. c /\ \A j \in 1 .. c : j \in 1 .. Len(q)
  BY <1>4
<1>8. \A j \in 1 .. Len(r) : r[j] \in Q \ {m}
  <2> SUFFICES ASSUME NEW j \in 1 .. c - 1 PROVE r[j] \in Q \ {m}
    BY <1>6
  <2>1. CASE j < i
    <3>1. r[j] = q[j] /\ j \in 1 .. Len(q) /\ j # i
      BY <1>4, <1>6, <1>7, <2>1
    <3> QED
      BY <1>1, <3>1
  <2>2. CASE ~ (j < i)
    <3>1. r[j] = q[j + 1] /\ j + 1 \in 1 .. Len(q) /\ j + 1 # i
      BY <1>4, <1>6, <1>7, <2>2
    <3> QED
      BY <1>1, <3>1
  <2> QED
    BY <2>1, <2>2
<1>9. \A x \in Q \ {m} : \E j \in 1 .. Len(r) : r[j] = x
  <2> SUFFICES ASSUME NEW x \in Q \ {m} PROVE \E j \in 1 .. c - 1 : r[j] = x
    BY <1>6
  <2>1. PICK j \in 1 .. c : q[j] = x
    BY <1>1, <1>4
  <2>2. j # i
    BY <2>1
  <2>3. CASE j < i
    <3>1. j \in 1 .. c - 1
      BY <1>7, <2>3
    <3> QED
      BY <1>6, <2>1, <2>3, <3>1
  <2>4. CASE j > i
    <3>1. j - 1 \in 1 .. c - 1 /\ ~ (j - 1 < i) /\ (j - 1) + 1 = j
      BY <1>7, <2>4
    <3>2. r[j - 1] = q[j]
      BY <1>6, <3>1
    <3> QED
      BY <2>1, <3>1, <3>2
  <2> QED
    BY <1>7, <2>2, <2>3, <2>4
<1>10. \A j, l \in 1 .. Len(r) : r[j] = r[l] => j = l
  <2> SUFFICES ASSUME NEW j \in 1 .. c - 1, NEW l \in 1 .. c - 1, r[j] = r[l] PROVE j = l
    BY <1>6
  <2>1. PICK a \in 1 .. c : a = IF j < i THEN j ELSE j + 1
    BY <1>7
  <2>2. PICK b \in 1 .. c : b = IF l < i THEN l ELSE l + 1
    BY <1>7
  <2>3. q[a] = q[b]
    BY <1>6, <2>1, <2>2
  <2>4. a = b
    BY <1>1, <1>7, <2>3
  <2> QED
    BY <1>7, <2>1, <2>2, <2>4
\* The one before m is followed by the one behind it, or by the head.
<1>11. \A x \in Q : n2[x] = IF n[x] = m THEN n[m] ELSE n[x]
  <2> SUFFICES ASSUME NEW x \in Q PROVE n2[x] = IF n[x] = m THEN n[m] ELSE n[x]
    OBVIOUS
  <2>1. n[x] = m <=> x = pr[m]
    BY <1>2
  <2> QED
    BY <1>2, <2>1
<1>12. Q \ {m} # {} => r[1] = h2 /\ n2[r[Len(r)]] = h2
  <2> SUFFICES ASSUME c > 1 PROVE r[1] = h2 /\ n2[r[c - 1]] = h2
    <3>1. Q \ {m} # {} => c > 1
      <4> SUFFICES ASSUME NEW x \in Q \ {m} PROVE c > 1
        OBVIOUS
      <4>1. PICK j \in 1 .. c : q[j] = x
        BY <1>1, <1>4
      <4> QED
        BY <1>7, <4>1
    <3> QED
      BY <1>6, <3>1
  <2>0. 1 \in 1 .. c /\ 2 \in 1 .. c /\ 1 \in 1 .. c - 1 /\ c - 1 \in 1 .. c - 1 /\ c \in 1 .. c /\ c - 1 \in 1 .. c
        /\ (c - 1) + 1 = c /\ 1 + 1 = 2
    OBVIOUS
  <2>1. CASE i = 1
    <3>1. h = m /\ q[2] = n[m] /\ q[2] # m
      BY <1>1, <1>3, <1>4, <2>0, <2>1
    <3>2. h2 = q[2] /\ r[1] = q[2] /\ r[c - 1] = q[c]
      BY <1>6, <2>0, <2>1, <3>1
    <3>3. n2[q[c]] = n[m]
      BY <1>1, <1>3, <1>4, <1>11, <2>0, <3>1
    <3> QED
      BY <3>1, <3>2, <3>3
  <2>2. CASE i # 1
    <3>1. h # m /\ h2 = h /\ 1 < i
      BY <1>1, <1>3, <1>4, <1>7, <2>0, <2>2
    <3>2. r[1] = h2
      BY <1>3, <1>6, <2>0, <3>1
    <3>3. CASE i = c
      <4>1. r[c - 1] = q[c - 1] /\ n[q[c - 1]] = q[c] /\ q[c] = m /\ q[c - 1] \in Q
        BY <1>1, <1>4, <1>6, <2>0, <3>3
      <4>2. n2[q[c - 1]] = n[m] /\ n[m] = h
        BY <1>3, <1>4, <1>11, <4>1
      <4> QED
        BY <3>1, <3>2, <4>1, <4>2
    <3>4. CASE i # c
      <4>1. ~ (c - 1 < i) /\ r[c - 1] = q[c] /\ q[c] \in Q /\ n[q[c]] = h
        BY <1>1, <1>3, <1>4, <1>6, <1>7, <2>0, <3>4
      <4>2. n2[q[c]] = h
        BY <1>11, <3>1, <4>1
      <4> QED
        BY <3>1, <3>2, <4>1, <4>2
    <3> QED
      BY <3>3, <3>4
  <2> QED
    BY <2>1, <2>2
<1>13. \A j \in 1 .. Len(r) - 1 : r[j + 1] = n2[r[j]]
  <2> SUFFICES ASSUME NEW j \in 1 .. c - 2 PROVE r[j + 1] = n2[r[j]]
    BY <1>6
  <2>0. /\ j \in 1 .. c - 1 /\ j + 1 \in 1 .. c - 1 /\ j \in 1 .. c /\ j + 1 \in 1 .. c /\ (j + 1) + 1 \in 1 .. c
        /\ (j + 1) + 1 = j + 2 /\ j \in 1 .. Len(q) - 1 /\ j + 1 \in 1 .. Len(q) - 1
    BY <1>4
  <2>1. q[j + 1] = n[q[j]] /\ q[j + 2] = n[q[j + 1]] /\ q[j] \in Q /\ q[j + 1] \in Q
    BY <1>1, <1>4, <2>0
  <2>2. CASE j + 1 < i
    <3>1. r[j] = q[j] /\ r[j + 1] = q[j + 1]
      BY <1>6, <1>7, <2>0, <2>2
    <3>2. q[j + 1] # m
      BY <1>1, <1>4, <2>0, <2>2
    <3> QED
      BY <1>11, <2>1, <3>1, <3>2
  <2>3. CASE j + 1 = i
    <3>1. r[j] = q[j] /\ r[j + 1] = q[j + 2] /\ q[j + 1] = m
      BY <1>6, <1>7, <2>0, <2>3
    <3>2. n[q[j]] = m /\ q[j + 2] = n[m]
      BY <2>1, <3>1
    <3>3. n2[q[j]] = n[m]
      BY <1>11, <2>1, <3>2
    <3> QED
      BY <3>1, <3>2, <3>3
  <2>4. CASE j + 1 > i
    <3>1. r[j] = q[j + 1] /\ r[j + 1] = q[j + 2]
      BY <1>6, <1>7, <2>0, <2>4
    <3>2. q[j + 2] # m
      <4>1. j + 2 \in 1 .. Len(q) /\ j + 2 # i
        BY <1>4, <1>7, <2>0, <2>4
      <4> QED
        BY <1>1, <4>1
    <3> QED
      BY <1>11, <2>1, <3>1, <3>2
  <2> QED
    BY <1>7, <2>2, <2>3, <2>4
<1>14. Lists(r, Q \ {m}, h2, n2)
  BY <1>6, <1>8, <1>9, <1>10, <1>12, <1>13 DEF Lists
<1> QED
  BY <1>5, <1>14

\* The queue of a mailbox lists its messages ...
LEMMA QueueLists ==
  ASSUME TypeInv, NEW R \in BoxType, NEW k \in RankType, Rings(R, k), NEW p \in Procs
  PROVE  Lists(Queue(p), R[p], mbox[p], next)
<1>1. next \in [Msgs -> Msgs] /\ prev \in [Msgs -> Msgs] /\ mbox[p] \in MsgOrNull
  BY DEF TypeInv, LinkType
<1>2. RingOf(R[p], mbox[p], next, prev, k)
  BY DEF Rings
<1>3. CASE mbox[p] = NULL
  <2>1. R[p] = {} /\ Queue(p) = <<>>
    BY <1>2, <1>3 DEF RingOf, RingSet, Queue
  <2> QED
    BY <2>1 DEF Lists
<1>4. CASE mbox[p] # NULL
  <2>1. mbox[p] \in Msgs /\ Ring(p) = R[p]
    BY <1>1, <1>4, RingExact DEF MsgOrNull
  <2>2. Queue(p) = [i \in 1 .. Cardinality(R[p]) |-> Walk(mbox[p], next)[i - 1]]
    BY <1>4, <2>1 DEF Queue
  <2> QED
    BY <1>1, <1>2, <2>1, <2>2, WalkLists
<1> QED
  BY <1>3, <1>4

\* ... also in the next state.
LEMMA QueueListsNext ==
  ASSUME TypeInv', NEW R \in BoxType, NEW k \in RankType, Rings(R, k)', NEW p \in Procs
  PROVE  Lists(Queue(p)', R[p], mbox'[p], next')
<1>1. next' \in [Msgs -> Msgs] /\ prev' \in [Msgs -> Msgs] /\ mbox'[p] \in MsgOrNull
  BY DEF TypeInv, LinkType
<1>2. RingOf(R[p], mbox'[p], next', prev', k)
  BY DEF Rings
<1>3. CASE mbox'[p] = NULL
  <2>1. R[p] = {} /\ Queue(p)' = <<>>
    BY <1>2, <1>3 DEF RingOf, RingSet, Queue
  <2> QED
    BY <2>1 DEF Lists
<1>4. CASE mbox'[p] # NULL
  <2>1. mbox'[p] \in Msgs /\ Ring(p)' = R[p]
    BY <1>1, <1>4, RingExactNext DEF MsgOrNull
  <2>2. Queue(p)' = [i \in 1 .. Cardinality(R[p]) |-> Walk(mbox'[p], next')[i - 1]]
    BY <1>4, <2>1 DEF Queue
  <2> QED
    BY <1>1, <1>2, <2>1, <2>2, WalkLists
<1> QED
  BY <1>3, <1>4

\* What is in the queues is what is in the mailboxes.
LEMMA QueuedIs ==
  ASSUME TypeInv, NEW R \in BoxType, NEW k \in RankType, Rings(R, k)
  PROVE  Queues!Queued = UNION {R[p] : p \in Procs}
<1>1. \A p \in Procs : Queues!ToSet(Queue(p)) = R[p]
  <2> SUFFICES ASSUME NEW p \in Procs PROVE Queues!ToSet(Queue(p)) = R[p]
    OBVIOUS
  <2>1. Lists(Queue(p), R[p], mbox[p], next)
    BY QueueLists
  <2>2. DOMAIN Queue(p) = 1 .. Len(Queue(p))
    BY <2>1 DEF Lists
  <2> QED
    BY <2>1, <2>2 DEF Lists, Queues!ToSet
<1>2. \A p \in Procs : [r \in Procs |-> Queue(r)][p] = Queue(p)
  OBVIOUS
<1> QED
  BY <1>1, <1>2 DEF Queues!Queued

\* A step that leaves the links of a mailbox alone leaves its queue alone.
LEMMA QueueSame ==
  ASSUME TypeInv, TypeInv', NEW R \in BoxType, NEW k \in RankType, Rings(R, k),
         NEW R2 \in BoxType, NEW k2 \in RankType, Rings(R2, k2)',
         NEW p \in Procs, R2[p] = R[p], R[p] # {} => mbox'[p] = mbox[p],
         \A x \in R[p] : next'[x] = next[x]
  PROVE  Queue(p)' = Queue(p)
<1>1. Lists(Queue(p), R[p], mbox[p], next) /\ Lists(Queue(p)', R[p], mbox'[p], next')
  BY QueueLists, QueueListsNext
<1>2. Lists(Queue(p), R[p], mbox'[p], next')
  <2>1. Lists(Queue(p), R[p], mbox[p], next')
    BY <1>1, ListSame
  <2> QED
    BY <2>1 DEF Lists
<1> QED
  BY <1>1, <1>2, OneList


\* A step that changes neither messages nor mailboxes.
LEMMA QuietMail ==
  ASSUME UNCHANGED <<live, from, linkVars>>
  PROVE  UNCHANGED Queues!mailboxVars
<1>1. \A p \in Procs : Ring(p)' = Ring(p)
  BY DEF Ring, linkVars
<1>2. \A p \in Procs : Queue(p)' = Queue(p)
  BY <1>1 DEF Queue, linkVars
<1> QED
  BY <1>2 DEF Queues!mailboxVars

\* msg_alloc makes a message.
LEMMA AllocMail ==
  ASSUME TypeInv, TypeInv', NEW R \in BoxType, NEW k \in RankType, OwnInv(R, k),
         NEW m \in Msgs, NEW f, NEW dst, NEW o, msg_alloc(m, f, dst, o)
  PROVE  Queues!Next
<1>1. Rings(R, k) /\ InBox(R) /\ Rings(R, k)'
  BY AllocRings DEF OwnInv
<1>2. /\ next \in [Msgs -> Msgs] /\ from \in [Msgs -> Pids] /\ from' \in [Msgs -> Pids]
  BY DEF TypeInv, HeapType, LinkType
<1>3. \A p \in Procs : \A x \in R[p] : x # m /\ x \in Msgs
  BY <1>1 DEF InBox, msg_alloc, BoxType
<1>4. \A p \in Procs : \A x \in R[p] : next'[x] = next[x] /\ from'[x] = from[x]
  BY <1>2, <1>3 DEF msg_alloc
<1>5. \A p \in Procs : Queue(p)' = Queue(p)
  BY <1>1, <1>4, QueueSame DEF msg_alloc
<1>6. \A x \in Queues!Queued : from'[x] = from[x]
  BY <1>1, <1>4, QueuedIs
<1>7. m \in Msgs \ live /\ Msgs \ live' = (Msgs \ live) \ {m}
  BY DEF msg_alloc
<1>8. Queues!Make(m)
  BY <1>5, <1>7 DEF Queues!Make
<1> QED
  BY <1>2, <1>6, <1>8 DEF Queues!Next

\* msg_reply begins with a message that is in no mailbox.
LEMMA ReplyMail ==
  ASSUME TypeInv, TypeInv', NEW R \in BoxType, NEW k \in RankType, OwnInv(R, k),
         NEW p \in Procs, ReplyBegin(p), pc[p] \in TakenAt
  PROVE  Queues!Next
<1>1. msg[p] \in InHand(p)
  BY HandFacts
<1>2. msg[p] \in live /\ msg[p] \in Msgs /\ \A q \in Procs : msg[p] \notin R[q]
  BY <1>1 DEF OwnInv, Hands, TypeInv, HeapType
<1>3. /\ from \in [Msgs -> Pids] /\ from' \in [Msgs -> Pids]
      /\ from' = [from EXCEPT ![msg[p]] = to[msg[p]]] /\ UNCHANGED <<live, linkVars>>
  BY DEF TypeInv, HeapType, ReplyBegin
<1>4. Queues!Queued = UNION {R[q] : q \in Procs}
  BY QueuedIs DEF OwnInv
<1>5. msg[p] \notin Queues!Queued /\ Queues!Queued \subseteq Msgs
  BY <1>2, <1>4 DEF BoxType
<1>6. \A x \in Queues!Queued : from'[x] = from[x]
  BY <1>3, <1>5
<1>7. \A q \in Procs : Ring(q)' = Ring(q)
  BY <1>3 DEF Ring, linkVars
<1>8. \A q \in Procs : Queue(q)' = Queue(q)
  BY <1>3, <1>7 DEF Queue, linkVars
<1>9. Queues!Readdress(msg[p])
  BY <1>2, <1>3, <1>5, <1>8 DEF Queues!Readdress
<1> QED
  BY <1>2, <1>3, <1>6, <1>9 DEF Queues!Next

\* msg_free, when nothing is lost with it, discards a message that is in no mailbox.
LEMMA FreeMail ==
  ASSUME TypeInv, TypeInv', NEW R \in BoxType, NEW k \in RankType, OwnInv(R, k),
         NEW p \in Procs, pc[p] \in TakenAt, msg_free(msg[p]),
         \A x, y \in R[p] : x = y
  PROVE  Queues!Next
<1> USE ProcsFacts
<1>1. PICK m : m = msg[p]
  OBVIOUS
<1>2. m \in live /\ m \in Msgs /\ \A q \in Procs : m \notin R[q]
  BY <1>1, HandFacts DEF OwnInv, Hands, TypeInv, HeapType
<1>3. LeftLinks(m, R[p], mbox[p], next, prev)
  BY <1>1 DEF OwnInv, Left
<1>4. Rings(R, k) /\ InBox(R) /\ RingLinks(R[p], next, prev)
  BY DEF OwnInv, Rings, RingOf
<1>5. Kept(m, R[p], next, prev, k) = R[p]
  BY <1>3, <1>4 DEF Kept, LeftLinks, RingLinks
<1>6. R = [R EXCEPT ![p] = Kept(m, R[p], next, prev, k)]
  BY <1>5 DEF BoxType
<1>7. Rings(R, k)' /\ mbox' = mbox
  BY <1>1, <1>2, <1>3, <1>4, <1>6, FreeRings
<1>8. /\ next \in [Msgs -> Msgs] /\ from \in [Msgs -> Pids] /\ from' \in [Msgs -> Pids]
  BY DEF TypeInv, HeapType, LinkType
<1>9. \A q \in Procs : \A x \in R[q] : x # m /\ x \in Msgs
  BY <1>2 DEF BoxType
<1>10. next' = [next EXCEPT ![prev[m]] = next[m], ![m] = m]
  BY <1>1 DEF msg_free
<1>11. \A q \in Procs : \A x \in R[q] : next'[x] = next[x]
  <2> SUFFICES ASSUME NEW q \in Procs, NEW x \in R[q] PROVE next'[x] = next[x]
    OBVIOUS
  <2>1. CASE next[m] = m /\ prev[m] = m
    BY <1>8, <1>9, <1>10, <2>1
  <2>2. CASE ~ (next[m] = m /\ prev[m] = m)
    <3>1. prev[m] \in R[p] /\ next[prev[m]] = next[m]
      BY <1>2, <1>3, <1>4, <2>2 DEF LeftLinks, RingLinks
    <3> QED
      BY <1>8, <1>9, <1>10, <3>1
  <2> QED
    BY <2>1, <2>2
<1>12. \A q \in Procs : Queue(q)' = Queue(q)
  BY <1>4, <1>7, <1>11, QueueSame
<1>13. Queues!Queued = UNION {R[q] : q \in Procs}
  BY <1>4, QueuedIs
<1>14. from' = [from EXCEPT ![m] = Idle] /\ live' = live \ {m}
  BY <1>1 DEF msg_free
<1>15. \A x \in Queues!Queued : from'[x] = from[x]
  BY <1>8, <1>9, <1>13, <1>14
<1>16. Msgs \ live' = (Msgs \ live) \cup {m} /\ m \notin Msgs \ live /\ m \notin Queues!Queued
  BY <1>2, <1>13, <1>14
<1>17. Queues!Discard(m)
  BY <1>12, <1>16 DEF Queues!Discard
<1> QED
  BY <1>2, <1>8, <1>15, <1>17 DEF Queues!Next

\* msg_send puts the message last in its recipient's queue.
LEMMA SendMail ==
  ASSUME TypeInv, TypeInv', NEW R \in BoxType, NEW k \in RankType, OwnInv(R, k),
         NEW p \in Procs, SendLocked(p) \/ IrqSendLocked(p)
  PROVE  Queues!Next
<1> USE ProcsFacts
<1>1. /\ from \in [Msgs -> Pids] /\ from' \in [Msgs -> Pids] /\ to \in [Msgs -> Procs]
      /\ live \subseteq Msgs /\ next \in [Msgs -> Msgs] /\ prev \in [Msgs -> Msgs]
      /\ mbox \in [Procs -> MsgOrNull]
  BY DEF TypeInv, HeapType, LinkType
<1>2. PICK m : /\ msg_send(m) /\ m \in InHand(p) \cup InFrame(p)
               /\ rally[m] = <<>> \/ (Len(rally[m]) >= 1 /\ Last(rally[m]) = from[m])
  <2>1. CASE SendLocked(p)
    <3>1. pc[p] = "send" /\ msg_send(msg[p])
      BY <2>1 DEF SendLocked, At
    <3>2. msg[p] \in InHand(p)
      BY <3>1 DEF InHand
    <3>3. rally[msg[p]] = <<>> \/ (Len(rally[msg[p]]) >= 1 /\ Last(rally[msg[p]]) = from[msg[p]])
      BY <3>1 DEF OwnInv, Told, GivenAt
    <3> QED
      BY <3>1, <3>2, <3>3
  <2>2. CASE IrqSendLocked(p)
    <3>1. fpc[p] = "send" /\ msg_send(frame[p])
      BY <2>2 DEF IrqSendLocked
    <3>2. frame[p] \in InFrame(p)
      BY <3>1 DEF InFrame
    <3>3. rally[frame[p]] = <<>>
      BY <3>1 DEF OwnInv, Told
    <3> QED
      BY <3>1, <3>2, <3>3
  <2> QED
    BY <2>1, <2>2
<1>3. m \in live /\ m \in Msgs /\ \A q \in Procs : m \notin R[q]
  BY <1>1, <1>2 DEF OwnInv, Hands
<1>4. PICK d \in Procs : d = to[m]
  BY <1>1, <1>3
<1>5. PICK R2 : R2 = [R EXCEPT ![d] = R[d] \cup {m}]
  OBVIOUS
<1>6. PICK k2 : k2 = IF mbox[d] = NULL THEN k ELSE [k EXCEPT ![m] = k[prev[mbox[d]]] + 1]
  OBVIOUS
<1>7. R2 \in BoxType /\ R2[d] = R[d] \cup {m} /\ \A q \in Procs \ {d} : R2[q] = R[q]
  BY <1>3, <1>5 DEF BoxType
<1>8. k2 \in RankType
  <2>1. CASE mbox[d] = NULL
    BY <1>6, <2>1
  <2>2. CASE mbox[d] # NULL
    <3>1. mbox[d] \in Msgs /\ prev[mbox[d]] \in Msgs
      BY <1>1, <2>2 DEF MsgOrNull
    <3>2. k[prev[mbox[d]]] + 1 \in Nat
      BY <3>1 DEF RankType
    <3> QED
      BY <1>6, <2>2, <3>2 DEF RankType
  <2> QED
    BY <2>1, <2>2
<1>9. Joined(R, k, m, R2, k2)
  BY <1>4, <1>5, <1>6, <1>7, <1>8 DEF Joined
<1>10. Rings(R, k) /\ InBox(R)
  BY DEF OwnInv
<1>11. Rings(R2, k2)'
  BY <1>2, <1>3, <1>9, <1>10, SendRings
<1>12. RingOf(R[d], mbox[d], next, prev, k) /\ Lists(Queue(d), R[d], mbox[d], next)
  BY <1>10, QueueLists DEF Rings
<1>13. Queue(d)' = Append(Queue(d), m)
  <2>1. Lists(Queue(d)', R[d] \cup {m}, mbox'[d], next')
    BY <1>7, <1>8, <1>11, QueueListsNext
  <2>2. Lists(Append(Queue(d), m), R[d] \cup {m}, mbox'[d], next')
    <3>1. CASE mbox[d] = NULL
      <4>1. R[d] = {} /\ mbox'[d] = m /\ next' = [next EXCEPT ![m] = m]
        BY <1>1, <1>2, <1>4, <1>12, <3>1 DEF msg_send, RingOf, RingSet
      <4>2. Lists(Queue(d), {}, mbox[d], next)
        BY <1>12, <4>1
      <4>3. Lists(Append(Queue(d), m), {m}, m, [next EXCEPT ![m] = m])
        BY <1>1, <1>3, <4>2, ListFirst
      <4>4. R[d] \cup {m} = {m}
        BY <4>1
      <4> QED
        BY <4>1, <4>3, <4>4
    <3>2. CASE mbox[d] # NULL
      <4>1. mbox' = mbox /\ next' = [next EXCEPT ![m] = mbox[d], ![prev[mbox[d]]] = m]
        BY <1>2, <1>4, <3>2 DEF msg_send
      <4>2. m \in Msgs \ R[d]
        BY <1>3
      <4>3. Lists(Append(Queue(d), m), R[d] \cup {m}, mbox[d], next')
        BY <1>1, <1>12, <3>2, <4>1, <4>2, ListAppend
      <4> QED
        BY <4>1, <4>3
    <3> QED
      BY <3>1, <3>2
  <2> QED
    BY <2>1, <2>2, OneList
<1>14. ASSUME NEW q \in Procs \ {d} PROVE Queue(q)' = Queue(q)
  <2>1. R[q] \cap R[d] = {}
    BY <1>10 DEF InBox
  <2>2. mbox'[q] = mbox[q]
    BY <1>1, <1>2, <1>4 DEF msg_send
  <2>3. \A x \in R[q] : next'[x] = next[x]
    <3>1. mbox[d] # NULL => prev[mbox[d]] \in R[d]
      BY <1>12 DEF RingOf, RingSet, RingLinks
    <3>2. \A x \in R[q] : x \in Msgs /\ x # m /\ (mbox[d] # NULL => x # prev[mbox[d]])
      BY <1>3, <2>1, <3>1 DEF BoxType
    <3>3. next' = IF mbox[d] = NULL THEN [next EXCEPT ![m] = m]
                  ELSE [next EXCEPT ![m] = mbox[d], ![prev[mbox[d]]] = m]
      BY <1>2, <1>4 DEF msg_send
    <3> QED
      BY <1>1, <3>2, <3>3
  <2> QED
    BY <1>7, <1>8, <1>10, <1>11, <2>2, <2>3, QueueSame
<1>15. m \notin (Msgs \ live) \cup Queues!Queued
  <2>1. Queues!Queued = UNION {R[q] : q \in Procs}
    BY <1>10, QueuedIs
  <2> QED
    BY <1>3, <2>1
<1>16. live' = live /\ from' = from
  BY <1>2 DEF msg_send
<1>17. Queues!Send(m, d)
  <2> DEFINE F == [q \in Procs |-> Queue(q)]
             G == [q \in Procs |-> Queue(q)']
  <2>1. \A q \in Procs : G[q] = [F EXCEPT ![d] = Append(@, m)][q]
    BY <1>13, <1>14
  <2>2. G = [F EXCEPT ![d] = Append(@, m)]
    BY <2>1
  <2> QED
    BY <1>15, <1>16, <2>2 DEF Queues!Send
<1> QED
  BY <1>1, <1>3, <1>16, <1>17 DEF Queues!Next

\* The message that msg_check settles on is the first from its sender.
LEMMA SettlesFirst ==
  ASSUME TypeInv, NEW R \in BoxType, NEW k \in RankType, OwnInv(R, k), NEW p \in Procs,
         At(p, "lock"), NEW s, NEW m \in Msgs, Settles(p, seen[p], s, m),
         NEW q, Lists(q, R[p], mbox[p], next), NEW i \in 1 .. Len(q), q[i] = m
  PROVE  \A j \in 1 .. i - 1 : from[q[j]] # from[m]
<1>1. m \in R[p] /\ m \in Msgs
  BY SettlesIn
<1>2. mbox[p] # NULL
  BY <1>1 DEF OwnInv, Rings, RingOf, RingSet
<1>3. /\ q \in Seq(Msgs) /\ Len(q) \in Nat /\ q[1] = mbox[p]
      /\ \A j, l \in 1 .. Len(q) : q[j] = q[l] => j = l
      /\ \A j \in 1 .. Len(q) - 1 : q[j + 1] = next[q[j]]
  BY <1>1 DEF Lists
<1>4. i \in Nat /\ i >= 1 /\ i <= Len(q)
  BY <1>3
<1>5. CASE s = ANYONE
  <2>1. m = seen[p]
    BY <1>5 DEF Settles
  <2>2. m = mbox[p]
    BY <2>1, ProcsFacts DEF OwnInv, SeenHead, At
  <2>3. 1 \in 1 .. Len(q)
    BY <1>3, <1>4
  <2>4. i = 1
    BY <1>3, <2>2, <2>3
  <2> QED
    BY <2>4
<1>6. CASE s # ANYONE
  <2>1. from[m] = s
    BY <1>6 DEF Settles
  <2>2. PICK passed \in SUBSET (Msgs \ {m}) :
            /\ IF seen[p] = m THEN passed = {} ELSE seen[p] \in passed
            /\ \A x \in passed : from[x] # s /\ next[x] # mbox[p] /\ next[x] \in passed \cup {m}
    BY <1>6 DEF Settles
  <2>3. seen[p] = mbox[p]
    <3>1. seen[p] # NULL
      BY <2>2, <1>1, ProcsFacts
    <3> QED
      BY <3>1 DEF OwnInv, SeenHead, At
  <2> DEFINE A == {j \in 0 .. i - 1 : j # 0 => q[j] \in passed}
  <2>4. 0 \in A
    BY <1>4
  <2>5. ASSUME NEW j \in 0 .. (i - 1) - 1, j \in A PROVE j + 1 \in A
    <3>1. j + 1 \in 1 .. Len(q) /\ j + 1 \in 0 .. i - 1 /\ j + 1 # i /\ i \in 1 .. Len(q)
      BY <1>3, <1>4
    <3>2. q[j + 1] # m
      BY <1>3, <3>1
    <3>3. CASE j = 0
      <4>1. q[j + 1] = mbox[p]
        BY <1>3, <3>3
      <4>2. q[j + 1] \in passed
        BY <2>2, <2>3, <3>2, <4>1
      <4> QED
        BY <3>1, <4>2
    <3>4. CASE j # 0
      <4>1. q[j] \in passed /\ j \in 1 .. Len(q) - 1
        BY <1>3, <1>4, <2>5, <3>4
      <4>2. q[j + 1] = next[q[j]]
        BY <1>3, <4>1
      <4>3. q[j + 1] \in passed
        BY <2>2, <3>2, <4>1, <4>2
      <4> QED
        BY <3>1, <4>3
    <3> QED
      BY <3>3, <3>4
  <2> HIDE DEF A
  <2>6. i - 1 \in Nat
    BY <1>4
  <2>7. \A j \in 0 .. i - 1 : j \in A
    BY <2>4, <2>5, <2>6, UpTo
  <2>8. \A j \in 1 .. i - 1 : q[j] \in passed
    BY <1>4, <2>7 DEF A
  <2> QED
    BY <2>1, <2>2, <2>8
<1> QED
  BY <1>5, <1>6

\* msg_check takes the first message from a sender out of the queue.
LEMMA TakeMail ==
  ASSUME TypeInv, TypeInv', NEW R \in BoxType, NEW k \in RankType, OwnInv(R, k),
         NEW p \in Procs, CheckLocked(p), pc'[p] # "sleep"
  PROVE  Queues!Next
<1> USE ProcsFacts
<1>1. /\ msg \in [Procs -> MsgOrNull] /\ pc \in [Procs -> Labels]
      /\ from \in [Msgs -> Pids] /\ from' \in [Msgs -> Pids]
      /\ next \in [Msgs -> Msgs] /\ prev \in [Msgs -> Msgs] /\ mbox \in [Procs -> MsgOrNull]
  BY DEF TypeInv, HeapType, LinkType, ProcType
<1>2. PICK m \in Msgs : Settles(p, seen[p], Awaited(p), m) /\ Behead(p, m) /\ Unlink(m)
  BY <1>1 DEF CheckLocked, Goto
<1>3. At(p, "lock") /\ UNCHANGED heapVars /\ UNCHANGED <<live, from>>
  BY DEF CheckLocked, heapVars
<1>4. m \in R[p]
  BY <1>2, <1>3, SettlesIn
<1>5. PICK R2 : R2 = [R EXCEPT ![p] = R[p] \ {m}]
  OBVIOUS
<1>6. R2 \in BoxType /\ R2[p] = R[p] \ {m} /\ \A q \in Procs \ {p} : R2[q] = R[q]
  BY <1>5 DEF BoxType
<1>7. Rings(R, k) /\ InBox(R)
  BY DEF OwnInv
<1>8. Taken(R, p, m, R2)
  BY <1>4, <1>5, <1>6 DEF Taken
<1>9. Rings(R2, k)' /\ \A q \in Procs \ {p} : mbox'[q] = mbox[q]
  BY <1>2, <1>3, <1>7, <1>8, TakeRings
<1>10. /\ RingOf(R[p], mbox[p], next, prev, k) /\ Lists(Queue(p), R[p], mbox[p], next)
       /\ mbox[p] \in Msgs
  BY <1>1, <1>4, <1>7, QueueLists DEF Rings, RingOf, RingSet, MsgOrNull
<1>11. PICK i \in 1 .. Len(Queue(p)) : Queue(p)[i] = m
  BY <1>4, <1>10 DEF Lists
<1>12. next' = [next EXCEPT ![prev[m]] = next[m]]
  BY <1>2 DEF Unlink
<1>13. Queue(p)' = Queues!RemoveAt(Queue(p), i)
  <2>1. Lists(Queue(p)', R[p] \ {m}, mbox'[p], next')
    BY <1>6, <1>9, QueueListsNext
  <2>2. /\ mbox[p] = m /\ next[m] # m => mbox'[p] = next[m]
        /\ mbox[p] # m => mbox'[p] = mbox[p]
    BY <1>1, <1>2 DEF Behead
  <2>3. Lists(Queues!RemoveAt(Queue(p), i), R[p] \ {m}, mbox'[p], next')
    BY <1>1, <1>10, <1>11, <1>12, <2>2, ListRemove
  <2> QED
    BY <2>1, <2>3, OneList
<1>14. ASSUME NEW q \in Procs \ {p} PROVE Queue(q)' = Queue(q)
  <2>1. R[q] \cap R[p] = {} /\ prev[m] \in R[p]
    BY <1>4, <1>7, <1>10 DEF InBox, RingOf, RingLinks
  <2>2. \A x \in R[q] : next'[x] = next[x]
    BY <1>1, <1>12, <2>1 DEF BoxType
  <2> QED
    BY <1>6, <1>7, <1>9, <2>2, QueueSame
<1>15. \A j \in 1 .. i - 1 : from[Queue(p)[j]] # from[m]
  BY <1>2, <1>3, <1>10, <1>11, SettlesFirst
<1>16. Queues!Receive(p)
  <2> DEFINE F == [q \in Procs |-> Queue(q)]
             G == [q \in Procs |-> Queue(q)']
  <2>1. \A q \in Procs : G[q] = [F EXCEPT ![p] = Queues!RemoveAt(@, i)][q]
    BY <1>13, <1>14
  <2>2. G = [F EXCEPT ![p] = Queues!RemoveAt(@, i)]
    BY <2>1
  <2>3. i \in 1 .. Len(F[p]) /\ \A j \in 1 .. i - 1 : from[F[p][j]] # from[F[p][i]]
    BY <1>11, <1>15
  <2>4. UNCHANGED <<Msgs \ live, from>>
    BY <1>3
  <2> HIDE DEF F, G
  <2>5. \E l \in 1 .. Len(F[p]) :
          /\ \A j \in 1 .. l - 1 : from[F[p][j]] # from[F[p][l]]
          /\ G = [F EXCEPT ![p] = Queues!RemoveAt(@, l)]
          /\ UNCHANGED <<Msgs \ live, from>>
    BY <2>2, <2>3, <2>4
  <2> QED
    BY <2>5 DEF F, G, Queues!Receive
<1> QED
  BY <1>1, <1>3, <1>16 DEF Queues!Next

\* Every step is a step of the queues, or changes nothing of them.
LEMMA NextMail ==
  ASSUME TypeInv, TypeInv', NEW R \in BoxType, NEW k \in RankType, OwnInv(R, k), FewMessages,
         Called, Kinds, OneIrq, [Next]_vars
  PROVE  [Queues!Next]_(Queues!mailboxVars)
<1> USE ProcsFacts
<1>1. ASSUME NEW p \in Procs, Common(p) PROVE [Queues!Next]_(Queues!mailboxVars)
  <2>1. CASE SendLocked(p)
    BY <2>1, SendMail
  <2>2. CASE CheckLocked(p) /\ pc'[p] # "sleep"
    BY <2>2, TakeMail
  <2>3. CASE CheckLocked(p) /\ pc'[p] = "sleep"
    <3>1. pc \in [Procs -> Labels]
      BY DEF TypeInv, ProcType
    <3>2. UNCHANGED <<live, from, linkVars>>
      BY <2>3, <3>1 DEF CheckLocked, Goto, heapVars, linkVars
    <3> QED
      BY <3>2, QuietMail
  <2>4. CASE SendWake(p) \/ CheckRead(p) \/ SleepLocked(p) \/ SleepSched(p) \/ ReplyEnd(p)
    <3>1. UNCHANGED <<live, from, linkVars>>
      BY <2>4 DEF SendWake, CheckRead, SleepLocked, SleepSched, ReplyEnd, heapVars, linkVars
    <3> QED
      BY <3>1, QuietMail
  <2> QED
    BY <1>1, <2>1, <2>2, <2>3, <2>4 DEF Common
<1>2. ASSUME NEW p \in Procs, Irq(p) PROVE [Queues!Next]_(Queues!mailboxVars)
  <2>1. CASE IrqAlloc(p)
    <3>1. PICK m \in Msgs : msg_alloc(m, HARDWARE, Driver, "IRQ")
      BY <2>1 DEF IrqAlloc
    <3> QED
      BY <3>1, AllocMail
  <2>2. CASE IrqSendLocked(p)
    BY <2>2, SendMail
  <2>3. CASE IrqSendWake(p)
    <3>1. UNCHANGED <<live, from, linkVars>>
      BY <2>3 DEF IrqSendWake, heapVars, linkVars
    <3> QED
      BY <3>1, QuietMail
  <2> QED
    BY <1>2, <2>1, <2>2, <2>3 DEF Irq
<1>3. ASSUME NEW c \in Clients, Client(c) PROVE [Queues!Next]_(Queues!mailboxVars)
  <2>1. CASE ClientCall(c)
    <3>1. PICK m \in Msgs, o \in Requests : msg_alloc(m, c, FS, o)
      BY <2>1 DEF ClientCall
    <3> QED
      BY <3>1, AllocMail
  <2>2. CASE ClientReturn(c)
    <3>1. pc[c] = "got" /\ msg_free(msg[c]) /\ c \in Procs
      BY <2>2 DEF ClientReturn, At
    <3>2. R[c] = {} /\ pc[c] \in TakenAt
      BY <3>1, ClientBox DEF TakenAt
    <3> QED
      BY <3>1, <3>2, FreeMail
  <2> QED
    BY <1>3, <2>1, <2>2 DEF Client
<1>4. CASE Fs
  <2>1. CASE FsAskDriver
    <3>1. PICK m \in Msgs : msg_alloc(m, FS, Driver, "SYS_READ")
      BY <2>1 DEF FsAskDriver
    <3> QED
      BY <3>1, AllocMail
  <2>2. CASE FsDriverDone
    <3>1. pc[FS] = "got" /\ held[FS] # NULL /\ msg_free(msg[FS])
      BY <2>2 DEF FsDriverDone, At
    <3>2. (\A x, y \in R[FS] : x = y) /\ pc[FS] \in TakenAt
      BY <3>1, FsBox DEF TakenAt
    <3> QED
      BY <3>1, <3>2, FreeMail
  <2>3. CASE FsReply
    <3>1. ReplyBegin(FS) /\ pc[FS] \in TakenAt
      BY <2>3 DEF FsReply, FsServed, TakenAt
    <3> QED
      BY <3>1, ReplyMail
  <2>4. ~ FsFree
    <3> SUFFICES ASSUME FsFree PROVE FALSE
      OBVIOUS
    <3>1. pc[FS] \in TakenAt /\ op[msg[FS]] = "SYS_SYNC"
      BY DEF FsFree, FsServed, TakenAt
    <3>2. msg[FS] \in live
      BY <3>1, HandFacts DEF OwnInv, Hands
    <3> QED
      BY <3>1, <3>2 DEF Kinds, Conversation, Transfer
  <2> QED
    BY <1>4, <2>1, <2>2, <2>3, <2>4 DEF Fs
<1>5. CASE Drvr
  <2>1. CASE DriverReply
    <3>1. ReplyBegin(Driver) /\ pc[Driver] \in TakenAt
      BY <2>1 DEF DriverReply, At, TakenAt
    <3> QED
      BY <3>1, ReplyMail
  <2>2. CASE DriverIrq
    <3>1. pc[Driver] = "got" /\ op[msg[Driver]] = "IRQ" /\ msg_free(msg[Driver])
      BY <2>2 DEF DriverIrq, At
    <3>2. (\A x, y \in R[Driver] : x = y) /\ pc[Driver] \in TakenAt
      BY <3>1, DriverBox DEF TakenAt
    <3> QED
      BY <3>1, <3>2, FreeMail
  <2> QED
    BY <1>5, <2>1, <2>2 DEF Drvr
<1>6. CASE Tick \/ UNCHANGED vars
  <2>1. UNCHANGED <<live, from, linkVars>>
    BY <1>6 DEF Tick, vars, heapVars, linkVars
  <2> QED
    BY <2>1, QuietMail
<1> QED
  BY <1>1, <1>2, <1>3, <1>4, <1>5, <1>6 DEF Next

\* The empty mailboxes are empty queues.
LEMMA InitMail == Init => Queues!Init
<1> SUFFICES ASSUME Init PROVE Queues!Init
  OBVIOUS
<1>1. live = {} /\ mbox = [p \in Procs |-> NULL] /\ from = [m \in Msgs |-> Idle]
  BY DEF Init
<1>2. \A p \in Procs : Queue(p) = <<>>
  BY <1>1 DEF Queue
<1>3. from \in [Msgs -> Pids]
  BY <1>1, ProcsFacts
<1> QED
  BY <1>1, <1>2, <1>3 DEF Queues!Init

\* Under the same conditions the linked mailboxes are the queues of Mailbox: every
\* message a process receives is the first from its sender, it is in one queue at a
\* time, and it leaves its queue only when its owner receives it, whatever the links
\* that msg_check leaves behind and msg_free writes through.
THEOREM MailboxCorrect ==
  ASSUME FewMessages
  PROVE  Spec => ImplementsMailbox
<1> DEFINE Inv == Answering /\ Kinds /\ OneIrq
<1>1. Init => Inv
  <2> SUFFICES ASSUME Init PROVE Inv
    OBVIOUS
  <2>1. live = {}
    BY DEF Init
  <2>2. Answering
    BY <2>1, InitType, InitOwn DEF Answering, Called
  <2>3. Kinds /\ OneIrq
    BY <2>1 DEF Kinds, OneIrq
  <2> QED
    BY <2>2, <2>3
<1>2. Inv /\ [Next]_vars => Inv'
  <2> SUFFICES ASSUME Inv, [Next]_vars PROVE Inv'
    OBVIOUS
  <2>1. PICK R \in BoxType, k \in RankType : OwnInv(R, k)
    BY DEF Answering
  <2>2. Answering'
    BY NextType, NextOwn, NextCalled DEF Answering
  <2>3. TypeInv /\ Called
    BY DEF Answering
  <2>4. Kinds' /\ OneIrq'
    BY <2>1, <2>3, NextKinds
  <2> QED
    BY <2>2, <2>4
<1>3. Inv /\ [Next]_vars => [Queues!Next]_(Queues!mailboxVars)
  <2> SUFFICES ASSUME Inv, [Next]_vars PROVE [Queues!Next]_(Queues!mailboxVars)
    OBVIOUS
  <2>1. PICK R \in BoxType, k \in RankType : OwnInv(R, k)
    BY DEF Answering
  <2>2. TypeInv /\ TypeInv' /\ Called
    BY NextType DEF Answering
  <2> QED
    BY <2>1, <2>2, NextMail
<1>4. Init => Queues!Init
  BY InitMail
<1> QED
  BY <1>1, <1>2, <1>3, <1>4, PTL DEF Spec, ImplementsMailbox, Queues!Spec
=============================================================================
