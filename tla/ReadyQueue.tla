----------------------------- MODULE ReadyQueue -----------------------------
(***************************************************************************)
(* The process table and the scheduler (src/kernel/process.c).             *)
(*                                                                         *)
(* The ready queue is the circular doubly linked list of the source, link  *)
(* by link.  A section between intr_lock and intr_unlock is one step;      *)
(* proc_sched, which takes no lock, is one step for each access to         *)
(* ready_q and current_proc.  The processor executes the code of the       *)
(* process "running", which is not always the one current_proc points to:  *)
(* proc_sched sets current_proc first and switches tasks afterwards.       *)
(*                                                                         *)
(* An interrupt handler runs on the stack of the running process.  It is   *)
(* one step: no second interrupt is taken while the first calls proc_sched *)
(* (bound; a second tick is 1/60 s away).                                  *)
(***************************************************************************)
EXTENDS Integers

CONSTANTS
  NumProcs,     \* NUM_PROCS
  Preemptible,  \* interrupts are taken between the steps of proc_sched
  NULL

ASSUME ReadyQueueAssumption ==
  /\ NumProcs \in Nat /\ NumProcs >= 2
  /\ Preemptible \in BOOLEAN
  /\ NULL \notin Int

Pids   == 0 .. NumProcs - 1
Idle   == 0
KERNEL == 1

VARIABLES
  state, next, prev,  \* fields of the process table
  ready_q, current,   \* ready_q, current_proc
  lastPid,            \* the static pid of calc_next_pid
  running,            \* the process whose code the processor executes
  exiting,            \* the processes that wait in do_exit for their end
  pc, arg, pick       \* where each process is, and its local variables

queueVars == <<state, next, prev, ready_q>>
localVars == <<pc, arg, pick>>
vars == <<queueVars, current, lastPid, running, exiting, localVars>>

States   == {"NONEXIST", "READY", "BLOCKED"}
InSched  == {"branch", "head", "rotate", "store", "test", "jump"}
Labels   == {"run", "slept", "woke"} \cup InSched

\* The processes that belong in the ready queue.
Ready == {p \in Pids \ {Idle} : state[p] = "READY"}

-----------------------------------------------------------------------------
(* main() has created the kernel process and enters its loop of proc_sched.  *)

Init ==
  /\ state = [p \in Pids |-> IF p \in {Idle, KERNEL} THEN "READY" ELSE "NONEXIST"]
  /\ next  = [p \in Pids |-> p]
  /\ prev  = [p \in Pids |-> p]
  /\ ready_q = KERNEL
  /\ current = Idle
  /\ lastPid = KERNEL
  /\ running = Idle
  /\ exiting = {}
  /\ pc   = [p \in Pids |-> IF p = Idle THEN "branch" ELSE "run"]
  /\ arg  = [p \in Pids |-> NULL]
  /\ pick = [p \in Pids |-> NULL]

-----------------------------------------------------------------------------
(* The ready queue. *)

\* proc_enq(p): p joins the end of the queue.
proc_enq(p) ==
  /\ state' = [state EXCEPT ![p] = "READY"]
  /\ IF ready_q = NULL
     THEN /\ ready_q' = p
          /\ next' = [next EXCEPT ![p] = p]
          /\ prev' = [prev EXCEPT ![p] = p]
     ELSE /\ next' = [next EXCEPT ![p] = ready_q, ![prev[ready_q]] = p]
          /\ prev' = [prev EXCEPT ![p] = prev[ready_q], ![ready_q] = p]
          /\ UNCHANGED ready_q

\* Mutant of proc_deq: ready_q stays on the process that leaves.
proc_deq_head_stays(p, st) ==
  /\ state' = [state EXCEPT ![p] = st]
  /\ next' = [next EXCEPT ![prev[p]] = next[p], ![p] = p]
  /\ prev' = [prev EXCEPT ![next[p]] = prev[p], ![p] = p]
  /\ ready_q' = IF ready_q = p /\ next[p] = p THEN NULL ELSE ready_q

\* proc_deq(p, st): p leaves the queue, wherever it is.
proc_deq(p, st) ==
  /\ state' = [state EXCEPT ![p] = st]
  /\ next' = [next EXCEPT ![prev[p]] = next[p], ![p] = p]
  /\ prev' = [prev EXCEPT ![next[p]] = prev[p], ![p] = p]
  /\ ready_q' = IF ready_q # p THEN ready_q
                ELSE IF next[p] = p THEN NULL ELSE next[p]

\* proc_sched takes the first process of the queue when the processor comes
\* from the idle process or from one that has left the queue.
FromHead == current = Idle \/ state[current] = "BLOCKED"

-----------------------------------------------------------------------------
(* Steps of the running process. *)

At(p, label)   == running = p /\ pc[p] = label
Goto(p, label) == pc' = [pc EXCEPT ![p] = label]

\* A process calls proc_sched of its own accord: the idle loop, proc_nap,
\* timer_sleep, and the end of do_exit.
Nap(p) ==
  /\ At(p, "run")
  /\ Goto(p, "branch")
  /\ UNCHANGED <<queueVars, current, lastPid, running, exiting, arg, pick>>

\* proc_sleep(do_getpid()), the locked part.
Sleep(p) ==
  /\ At(p, "run") /\ p # Idle /\ p \notin exiting
  /\ state[current] = "READY"
  /\ proc_deq(current, "BLOCKED")
  /\ arg' = [arg EXCEPT ![p] = current]
  /\ Goto(p, "slept")
  /\ UNCHANGED <<current, lastPid, running, exiting, pick>>

\* Mutant of Slept: proc_sleep does not give the processor away.
SleptReturns(p) ==
  /\ At(p, "slept")
  /\ Goto(p, "run")
  /\ arg' = [arg EXCEPT ![p] = NULL]
  /\ UNCHANGED <<queueVars, current, lastPid, running, exiting, pick>>

\* The tail of proc_sleep.
Slept(p) ==
  /\ At(p, "slept")
  /\ Goto(p, IF arg[p] = current THEN "branch" ELSE "run")
  /\ arg' = [arg EXCEPT ![p] = NULL]
  /\ UNCHANGED <<queueVars, current, lastPid, running, exiting, pick>>

\* proc_wakeup(q), the locked part: msg_send, sig_send and proc_exec call it.
Wakeup(p, q) ==
  /\ At(p, "run") /\ p # Idle /\ p \notin exiting
  /\ state[q] = "BLOCKED"
  /\ proc_enq(q)
  /\ arg' = [arg EXCEPT ![p] = q]
  /\ Goto(p, "woke")
  /\ UNCHANGED <<current, lastPid, running, exiting, pick>>

\* The tail of proc_wakeup.
Woke(p) ==
  /\ At(p, "woke")
  /\ Goto(p, IF next[arg[p]] = arg[p] THEN "branch" ELSE "run")
  /\ arg' = [arg EXCEPT ![p] = NULL]
  /\ UNCHANGED <<queueVars, current, lastPid, running, exiting, pick>>

\* do_exit has sent its messages; from here on the process only naps.
Exit(p) ==
  /\ At(p, "run") /\ p \notin {Idle, KERNEL} \cup exiting
  /\ exiting' = exiting \cup {p}
  /\ UNCHANGED <<queueVars, current, lastPid, running, localVars>>

\* The distance from lastPid to q round the process table, at least 1.
Steps(q) == IF q > lastPid THEN q - lastPid ELSE q - lastPid + NumProcs

\* calc_next_pid(): the first free slot after the last one claimed.
calc_next_pid(q) ==
  /\ state[q] = "NONEXIST"
  /\ \A r \in Pids : state[r] = "NONEXIST" => Steps(q) <= Steps(r)

\* proc_create in the kernel process; task_create may fail after the slot has
\* been claimed.
Create(q) ==
  /\ At(KERNEL, "run")
  /\ calc_next_pid(q)
  /\ lastPid' = q
  /\ \/ /\ proc_enq(q)
        /\ exiting' = exiting \ {q}
        /\ pc'   = [pc   EXCEPT ![q] = "run"]
        /\ arg'  = [arg  EXCEPT ![q] = NULL]
        /\ pick' = [pick EXCEPT ![q] = NULL]
     \/ UNCHANGED <<queueVars, exiting, localVars>>
  /\ UNCHANGED <<current, running>>

\* Mutant of Destroy: the process stays in the queue.
DestroyStays(q) ==
  /\ At(KERNEL, "run")
  /\ q \in exiting /\ state[q] # "NONEXIST"
  /\ state' = [state EXCEPT ![q] = "NONEXIST"]
  /\ UNCHANGED <<next, prev, ready_q, current, lastPid, running, exiting, localVars>>

\* proc_destroy in the kernel process, of a process that asked for it.
Destroy(q) ==
  /\ At(KERNEL, "run")
  /\ q \in exiting /\ state[q] # "NONEXIST"
  /\ proc_deq(q, "NONEXIST")
  /\ UNCHANGED <<current, lastPid, running, exiting, localVars>>

-----------------------------------------------------------------------------
(* proc_sched, called by a process. *)

Branch(p) ==
  /\ At(p, "branch")
  /\ IF ready_q = NULL
     THEN Goto(p, "test") /\ pick' = [pick EXCEPT ![p] = next[Idle]]
     ELSE Goto(p, IF FromHead THEN "head" ELSE "rotate") /\ UNCHANGED pick
  /\ UNCHANGED <<queueVars, current, lastPid, running, exiting, arg>>

Head(p) ==
  /\ At(p, "head")
  /\ pick' = [pick EXCEPT ![p] = ready_q]
  /\ Goto(p, "test")
  /\ UNCHANGED <<queueVars, current, lastPid, running, exiting, arg>>

\* ready_q = ready_q->next, in two steps.
Rotate(p) ==
  /\ At(p, "rotate") /\ ready_q # NULL
  /\ pick' = [pick EXCEPT ![p] = next[ready_q]]
  /\ Goto(p, "store")
  /\ UNCHANGED <<queueVars, current, lastPid, running, exiting, arg>>

Store(p) ==
  /\ At(p, "store")
  /\ ready_q' = pick[p]
  /\ Goto(p, "test")
  /\ UNCHANGED <<state, next, prev, current, lastPid, running, exiting, arg, pick>>

\* What happens when proc_sched follows a null ready_q is not modelled.
Test(p) ==
  /\ At(p, "test") /\ pick[p] # NULL
  /\ IF pick[p] = current
     THEN /\ Goto(p, "run")
          /\ pick' = [pick EXCEPT ![p] = NULL]
          /\ UNCHANGED current
     ELSE /\ current' = pick[p]
          /\ Goto(p, "jump")
          /\ UNCHANGED pick
  /\ UNCHANGED <<queueVars, lastPid, running, exiting, arg>>

\* task_switch: the caller continues from here when it is picked again.
Jump(p) ==
  /\ At(p, "jump")
  /\ running' = pick[p]
  /\ pick' = [pick EXCEPT ![p] = NULL]
  /\ Goto(p, "run")
  /\ UNCHANGED <<queueVars, current, lastPid, exiting, arg>>

Sched(p) == Branch(p) \/ Head(p) \/ Rotate(p) \/ Store(p) \/ Test(p) \/ Jump(p)

-----------------------------------------------------------------------------
(* Interrupts. *)

Interruptible == Preemptible \/ pc[running] \notin InSched

\* The end of proc_sched in a handler: switch, unless q is current already.
Switch(q) == IF q = current THEN UNCHANGED <<current, running>>
             ELSE current' = q /\ running' = q

\* Mutant of Tick: the queue is not rotated.
TickNoRotate ==
  /\ Interruptible
  /\ IF ready_q = NULL THEN Switch(next[Idle]) ELSE Switch(ready_q)
  /\ UNCHANGED <<queueVars, lastPid, exiting, localVars>>

\* Mutant of Tick: an empty queue is not recognised.
TickEmptyQueue ==
  /\ Interruptible
  /\ IF FromHead \/ ready_q = NULL
     THEN Switch(ready_q) /\ UNCHANGED ready_q
     ELSE Switch(next[ready_q]) /\ ready_q' = next[ready_q]
  /\ UNCHANGED <<state, next, prev, lastPid, exiting, localVars>>

\* timer_handler's proc_sched.
Tick ==
  /\ Interruptible
  /\ IF ready_q = NULL
     THEN Switch(next[Idle]) /\ UNCHANGED ready_q
     ELSE IF FromHead
     THEN Switch(ready_q) /\ UNCHANGED ready_q
     ELSE Switch(next[ready_q]) /\ ready_q' = next[ready_q]
  /\ UNCHANGED <<state, next, prev, lastPid, exiting, localVars>>

\* Mutant of IrqWakeup: the processor stays where it is.
IrqWakeupStays(q) ==
  /\ Interruptible
  /\ state[q] = "BLOCKED"
  /\ proc_enq(q)
  /\ UNCHANGED <<current, running, lastPid, exiting, localVars>>

\* irq_handler and timer_handler wake a process; proc_sched follows when it is
\* the only one in the queue, and then picks it whatever ran before.
IrqWakeup(q) ==
  /\ Interruptible
  /\ state[q] = "BLOCKED"
  /\ proc_enq(q)
  /\ IF next'[q] = q THEN Switch(q) ELSE UNCHANGED <<current, running>>
  /\ UNCHANGED <<lastPid, exiting, localVars>>

-----------------------------------------------------------------------------

Own(p) == \/ Nap(p) \/ Sleep(p) \/ Slept(p)
          \/ \E q \in Pids : Wakeup(p, q)
          \/ Woke(p) \/ Exit(p)

Kernel == \E q \in Pids : Create(q) \/ Destroy(q)

Next == \/ \E p \in Pids : Own(p) \/ Sched(p)
        \/ Kernel
        \/ Tick
        \/ \E q \in Pids : IrqWakeup(q)

Spec == Init /\ [][Next]_vars

\* The processor executes, and a tick that finds interrupts disabled stays
\* pending in the interrupt controller until they are enabled.
Fairness == /\ \A p \in Pids : /\ WF_vars(Sched(p))
                               /\ WF_vars(Slept(p) \/ Woke(p))
            /\ SF_vars(Tick)

FairSpec == Spec /\ Fairness

-----------------------------------------------------------------------------
(* Properties. *)

PidOrNull == Pids \cup {NULL}

TypeOK ==
  /\ state \in [Pids -> States]
  /\ next \in [Pids -> Pids] /\ prev \in [Pids -> Pids]
  /\ ready_q \in PidOrNull
  /\ current \in Pids /\ running \in Pids /\ lastPid \in Pids
  /\ exiting \subseteq Pids
  /\ pc \in [Pids -> Labels]
  /\ arg \in [Pids -> PidOrNull] /\ pick \in [Pids -> PidOrNull]

\* The ready queue is one ring of the READY processes, doubly linked, that
\* ready_q points into; every other process is linked to itself
\* (process.c:146-175).
RingIsReady ==
  /\ IF Ready = {} THEN ready_q = NULL ELSE ready_q \in Ready
  /\ \A p \in Pids : prev[next[p]] = p /\ next[prev[p]] = p
  /\ \A p \in Pids \ Ready : next[p] = p
  /\ \A S \in SUBSET Ready : S # {} /\ (\A p \in S : next[p] \in S) => S = Ready

\* A process that has gone to sleep or has been destroyed executes nothing
\* after its proc_sleep, and code that runs finds itself in current_proc
\* (do_getpid, msg_alloc and proc_sleep depend on it).
OnlyReadyRun ==
  pc[running] \in {"run", "woke"} => running = current /\ state[running] = "READY"

\* The idle loop does not keep the processor from a ready process: once it has
\* called proc_sched it is back only when there is nothing to run.
WorkConserving == (running = Idle /\ pc[Idle] = "run") => Ready = {}

\* proc_sched never picks a process that is not in the ready queue (process.c:
\* 337-340: "the current process has put itself to sleep (and removed itself
\* from the ready queue).  Pick the first process in the ready queue", 343).
PicksReady ==
  pc[running] = "jump" =>
    IF pick[running] = Idle THEN Ready = {} ELSE pick[running] \in Ready

\* A process is woken after it has left the queue in proc_sleep and before it
\* has called proc_sched.
LateWakeup == \E q \in Pids : /\ pc[q] \in {"slept", "branch"}
                              /\ state[q] = "BLOCKED" /\ state'[q] = "READY"

\* Every process in the ready queue runs, or leaves the queue, as long as such
\* late wakeups do not go on for ever: each makes the queue rotate once too
\* often, and processes that come and go starve no one without them.
NoStarvation ==
  <>[][~LateWakeup]_vars =>
    \A p \in Pids \ {Idle} :
      state[p] = "READY" ~> (running = p \/ state[p] # "READY")
=============================================================================
