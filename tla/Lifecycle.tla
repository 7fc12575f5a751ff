----------------------------- MODULE Lifecycle ------------------------------
(***************************************************************************)
(* The life of user processes (src/kernel/syscall.c, signal.c, process.c,  *)
(* main.c; src/fs/main.c, proc.c): fork and exit, which tell the kernel    *)
(* and the file system apart from each other, and the signals that a tick  *)
(* delivers to whatever process it resumes.                                *)
(*                                                                         *)
(* A PID is used again: each process that has it is a life of its own,     *)
(* numbered in the order of their creation, which is history and guides    *)
(* nothing.  Messages arrive in the order they were sent (Mailbox).        *)
(***************************************************************************)
EXTENDS Integers, Sequences, SequencesExt, FiniteSetsExt

CONSTANTS
  UserPids,  \* the process table's slots for user processes
  Signals,   \* numbers of the signals that are sent
  MaxLives,  \* bound: processes
  MaxCalls   \* bound: calls of user processes

ASSUME LifecycleAssumption ==
  /\ IsFiniteSet(UserPids) /\ UserPids # {} /\ UserPids \subseteq Nat
  /\ Signals \subseteq 0 .. 27

KERNEL == -1
SERVER == -2

SIGCONT == 4
SIGKILL == 9
SIGSTOP == 13
Stops   == {SIGSTOP, 15, 16, 17}
Ignored == {3, 24}     \* SIGCHLD, SIGURG

VARIABLES proc, mail, fsproc, lives, next, calls, history
\* proc[p]: life (0: NONEXIST), pc, exits (history: how often do_exit() was called), its
\*          signals pending, blocked and action, and sig_deliver() at work: delivering,
\*          with the handler of the signal handling running (-1: none)
\* mail[x]: messages to the kernel, the file system or a process
\* fsproc[p]: the life whose directories and files the file system keeps for the PID
\* lives: the youngest life; next: calc_next_pid()'s pid; calls: how many there were
\* history.gone:    lives whose exit the file system has handled
\* history.late:    lives that the file system heard of after that
\* history.orphans: lives that were answered after they were destroyed
\* history.struck:  lives that another one's exit has destroyed
\* history.missed:  lives signalled between do_pause()'s test and proc_sleep()

lifecycleVars == <<proc, mail, fsproc, lives, next, calls, history>>

\* life is the sender's, or that of the process which a message answers; a fork's answer
\* also names the child and its life.
Msg(from, life, op) == [from |-> from, life |-> life, op |-> op, child |-> 0, born |-> 0]
Forked(from, life, child, born) ==
  [Msg(from, life, "fork") EXCEPT !.child = child, !.born = born]
Post(b, x, m) == [b EXCEPT ![x] = Append(@, m)]

Nobody == [life |-> 0, pc |-> "none", exits |-> 0, pending |-> {}, blocked |-> {},
           action |-> [s \in Signals |-> "default"], delivering |-> FALSE, handling |-> -1]

\* sig_init(), in proc_create(): a slot starts afresh.
sig_init(r) == [r EXCEPT !.pending = {}, !.blocked = {}, !.action = [s \in Signals |-> "default"]]

\* The first process is the only one at first.
LifecycleInit ==
  /\ proc = [p \in UserPids |-> IF p = Min(UserPids) THEN [Nobody EXCEPT !.life = 1, !.pc = "run"]
                            ELSE Nobody]
  /\ mail = [x \in UserPids \cup {KERNEL, SERVER} |-> <<>>]
  /\ fsproc = [p \in UserPids |-> IF p = Min(UserPids) THEN 1 ELSE 0]
  /\ lives = 1 /\ next = Min(UserPids) /\ calls = 0
  /\ history = [gone |-> {}, late |-> {}, orphans |-> {}, struck |-> {}, missed |-> {}]

Alive(p)      == proc[p].life # 0
Deliverable(r) == r.pending \ r.blocked
At(p, pc)      == Alive(p) /\ proc[p].pc = pc /\ ~proc[p].delivering

\* msg_receive(from): the first message from there leaves the mailbox.
HasFrom(p, from)   == \E i \in DOMAIN mail[p] : mail[p][i].from = from
FirstFrom(p, from) == SelectInSeq(mail[p], LAMBDA m : m.from = from)
Without(p, from)   == [mail EXCEPT ![p] = RemoveAt(@, FirstFrom(p, from))]

-----------------------------------------------------------------------------
(* The system calls of a process. *)

Calling(p, op, to, pc) ==
  /\ At(p, "run") /\ calls < MaxCalls
  /\ calls' = calls + 1
  /\ mail' = Post(mail, to, Msg(p, proc[p].life, op))
  /\ proc' = [proc EXCEPT ![p].pc = pc]
  /\ UNCHANGED <<fsproc, lives, next, history>>

\* do_fork()'s request; the child starts where its parent waits for the answer.
ForkCall(p) == Calling(p, "fork", KERNEL, "fork")

\* The child returns; the parent keeps the answer, to send it on.
ForkReturns(p) ==
  /\ At(p, "fork") /\ HasFrom(p, KERNEL)
  /\ IF mail[p][FirstFrom(p, KERNEL)].child = 0
     THEN proc' = [proc EXCEPT ![p].pc = "run"] /\ mail' = Without(p, KERNEL)
     ELSE proc' = [proc EXCEPT ![p].pc = "tell"] /\ mail' = mail
  /\ UNCHANGED <<fsproc, lives, next, calls, history>>

Tell(p) ==
  /\ At(p, "tell") /\ HasFrom(p, KERNEL)
  /\ LET m == mail[p][FirstFrom(p, KERNEL)]
     IN mail' = Post(Without(p, KERNEL), SERVER, Forked(p, proc[p].life, m.child, m.born))
  /\ proc' = [proc EXCEPT ![p].pc = "run"]
  /\ UNCHANGED <<fsproc, lives, next, calls, history>>

\* A call that the file system answers, and so do_execve(): it always fails, because
\* do_fs_execve() opens the program with mode 0, which rw_fildes() takes for unreadable.
Call(p) == Calling(p, "call", SERVER, "call")

CallReturns(p) ==
  /\ At(p, "call") /\ HasFrom(p, SERVER)
  /\ proc' = [proc EXCEPT ![p].pc = "run"]
  /\ mail' = Without(p, SERVER)
  /\ UNCHANGED <<fsproc, lives, next, calls, history>>

\* Whom do_exit() tells, in order.
Told_kernel_first == <<KERNEL, SERVER>>
Told == <<SERVER, KERNEL>>

\* do_exit(), to its first msg_send().  Bound: a process exits at most twice.
do_exit(p) ==
  /\ proc[p].exits < 2
  /\ mail' = Post(mail, Told[1], Msg(p, proc[p].life, "exit"))
  /\ proc' = [proc EXCEPT ![p].pc = "exit", ![p].exits = @ + 1, ![p].delivering = FALSE]

ExitCall(p) == At(p, "run") /\ do_exit(p) /\ UNCHANGED <<fsproc, lives, next, calls, history>>

\* The second one; then the process naps until it is destroyed.
ExitNap(p) ==
  /\ At(p, "exit")
  /\ mail' = Post(mail, Told[2], Msg(p, proc[p].life, "exit"))
  /\ proc' = [proc EXCEPT ![p].pc = "nap"]
  /\ UNCHANGED <<fsproc, lives, next, calls, history>>

-----------------------------------------------------------------------------
(* Signals. *)

sig_action(r, s) ==
  IF r.action[s] # "default" THEN r.action[s]
  ELSE IF s \in Ignored THEN "ignore"
  ELSE IF s \in Stops THEN "stop"
  ELSE IF s = SIGCONT THEN "continue"
  ELSE "terminate"

\* proc_wakeup(); a process that waits for a message only looks for it again.
woken(r) == IF r.pc = "asleep" THEN [r EXCEPT !.pc = "pause"] ELSE r

sig_send_wakes_first(r, s) ==
  LET t == [r EXCEPT !.pending = @ \ (IF s \in Stops THEN {SIGCONT}
                                      ELSE IF s = SIGCONT THEN Stops ELSE {})]
      u == IF s = SIGCONT \/ Deliverable(t) # {} THEN woken(t) ELSE t
  IN IF sig_action(u, s) = "ignore" THEN u ELSE [u EXCEPT !.pending = @ \cup {s}]

\* sig_send(); a stop and a continuation take each other back.
sig_send(r, s) ==
  LET t == [r EXCEPT !.pending = @ \ (IF s \in Stops THEN {SIGCONT}
                                      ELSE IF s = SIGCONT THEN Stops ELSE {})]
      u == IF s = SIGCONT THEN woken(t) ELSE t
      v == [u EXCEPT !.pending = @ \cup {s}]
  IN IF sig_action(u, s) = "ignore" THEN u
     ELSE IF Deliverable(v) # {} THEN woken(v) ELSE v

\* do_kill() of one process.  Every process has user ID 0, the kernel process', so that
\* sig_perm() grants it.
Kill(p, q, s) ==
  /\ At(p, "run") /\ Alive(q) /\ calls < MaxCalls
  /\ calls' = calls + 1
  /\ proc' = [proc EXCEPT ![q] = sig_send(@, s)]
  /\ history' = [history EXCEPT !.missed = IF proc[q].pc = "window" THEN @ \cup {proc[q].life}
                                           ELSE IF proc'[q].pc = "asleep" THEN @
                                           ELSE @ \ {proc[q].life}]
  /\ UNCHANGED <<mail, fsproc, lives, next>>

\* do_sigaction() and do_sigprocmask()
Settings(p) ==
  /\ At(p, "run") /\ calls < MaxCalls
  /\ calls' = calls + 1
  /\ \/ \E s \in Signals \ {SIGKILL, SIGSTOP}, a \in {"default", "ignore", "catch"} :
          proc' = [proc EXCEPT ![p].action[s] = a]
     \/ \E B \in SUBSET Signals : proc' = [proc EXCEPT ![p].blocked = B \ {SIGKILL, SIGSTOP}]
  /\ UNCHANGED <<mail, fsproc, lives, next, history>>

\* timer_handler(), at its end, on the process that it has resumed.
Tick(p) ==
  /\ Alive(p) /\ proc[p].pc # "asleep" /\ ~proc[p].delivering
  /\ Deliverable(proc[p]) # {}
  /\ proc' = [proc EXCEPT ![p].delivering = TRUE]
  /\ UNCHANGED <<mail, fsproc, lives, next, calls, history>>

\* A turn of sig_deliver()'s loop; a signal of a lower number that comes in while the loop
\* is past it is delivered by the sig_deliver() of the next tick.  A handler makes no calls.
Deliver(p) ==
  /\ Alive(p) /\ proc[p].delivering /\ proc[p].handling = -1
  /\ LET r == proc[p] IN
     IF Deliverable(r) = {}
     THEN proc' = [proc EXCEPT ![p].delivering = FALSE] /\ mail' = mail
     ELSE LET s == Min(Deliverable(r)) IN
          CASE sig_action(r, s) = "terminate" -> do_exit(p)
            [] sig_action(r, s) = "catch" ->
                 proc' = [proc EXCEPT ![p].handling = s] /\ mail' = mail
            [] OTHER -> proc' = [proc EXCEPT ![p].pending = @ \ {s}] /\ mail' = mail
  /\ UNCHANGED <<fsproc, lives, next, calls, history>>

\* The handler returns, and only then is the signal not pending any more.
Handled(p) ==
  /\ Alive(p) /\ proc[p].handling # -1
  /\ proc' = [proc EXCEPT ![p].pending = @ \ {proc[p].handling}, ![p].handling = -1]
  /\ UNCHANGED <<mail, fsproc, lives, next, calls, history>>

Pause(p) ==
  /\ At(p, "run") /\ calls < MaxCalls
  /\ calls' = calls + 1
  /\ proc' = [proc EXCEPT ![p].pc = "pause"]
  /\ UNCHANGED <<mail, fsproc, lives, next, history>>

PauseTest(p) ==
  /\ At(p, "pause")
  /\ proc' = [proc EXCEPT ![p] = IF Deliverable(@) = {} THEN [@ EXCEPT !.pc = "window"]
                                 ELSE [@ EXCEPT !.pc = "run", !.delivering = TRUE]]
  /\ UNCHANGED <<mail, fsproc, lives, next, calls, history>>

PauseSleep(p) ==
  /\ At(p, "window")
  /\ proc' = [proc EXCEPT ![p].pc = "asleep"]
  /\ UNCHANGED <<mail, fsproc, lives, next, calls, history>>

-----------------------------------------------------------------------------
(* The kernel process. *)

Request(x, op) == mail[x] # <<>> /\ Head(mail[x]).op = op
Handle(x)      == [mail EXCEPT ![x] = Tail(@)]

\* A message to a process other than the one it answers.
Orphans(m) == IF proc[m.from].life = m.life THEN history.orphans ELSE history.orphans \cup {m.life}

\* The first free slot after the last one used.
calc_next_pid ==
  LET N == Max(UserPids) + 1
  IN CHOOSE q \in UserPids : /\ ~Alive(q)
                         /\ \A r \in UserPids : ~Alive(r) => (q - next - 1) % N <= (r - next - 1) % N

\* proc_fork().  Where no slot is free it writes to proc[-1]: the model ends there.
KernelFork ==
  /\ Request(KERNEL, "fork") /\ lives < MaxLives /\ \E q \in UserPids : ~Alive(q)
  /\ LET m == Head(mail[KERNEL])
         c == calc_next_pid
         w == [proc EXCEPT ![m.from] = woken(@)]
     IN /\ proc' = [w EXCEPT ![c] = [sig_init(w[c]) EXCEPT !.life = lives + 1, !.pc = "fork", !.exits = 0,
                                       !.delivering = FALSE, !.handling = -1]]
        /\ mail' = Post(Post(Handle(KERNEL), c, Forked(KERNEL, lives + 1, 0, 0)),
                        m.from, Forked(KERNEL, m.life, c, lives + 1))
        /\ next' = c
        /\ history' = [history EXCEPT !.orphans = Orphans(m)]
  /\ lives' = lives + 1
  /\ UNCHANGED <<fsproc, calls>>

msg_empty_not(box, p) == box

\* msg_empty()
msg_empty(box, p) == [box EXCEPT ![p] = <<>>]

\* proc_exit(): the process of that PID is destroyed, if there is one.
KernelExit ==
  /\ Request(KERNEL, "exit")
  /\ LET m == Head(mail[KERNEL]) IN
     /\ proc' = [proc EXCEPT ![m.from].life = 0, ![m.from].pc = "none"]
     /\ mail' = msg_empty(Handle(KERNEL), m.from)
     /\ history' = [history EXCEPT !.struck = IF proc[m.from].life \in {0, m.life} THEN @
                                              ELSE @ \cup {proc[m.from].life}]
  /\ UNCHANGED <<fsproc, lives, next, calls>>

-----------------------------------------------------------------------------
(* The file system process. *)

\* do_fs_fork().  The entry of a parent the file system has not heard of is NULL, and
\* the model ends there.
FsFork ==
  /\ Request(SERVER, "fork")
  /\ LET m == Head(mail[SERVER]) IN
     /\ fsproc[m.from] # 0
     /\ fsproc' = [fsproc EXCEPT ![m.child] = m.born]
     /\ history' = [history EXCEPT !.late = IF m.born \in history.gone THEN @ \cup {m.born} ELSE @]
  /\ mail' = Handle(SERVER)
  /\ UNCHANGED <<proc, lives, next, calls>>

FsReply ==
  /\ Request(SERVER, "call")
  /\ LET m == Head(mail[SERVER]) IN
     /\ mail' = Post(Handle(SERVER), m.from, Msg(SERVER, m.life, m.op))
     /\ proc' = [proc EXCEPT ![m.from] = woken(@)]
     /\ history' = [history EXCEPT !.orphans = Orphans(m)]
  /\ UNCHANGED <<fsproc, lives, next, calls>>

FsExit ==
  /\ Request(SERVER, "exit")
  /\ fsproc' = [fsproc EXCEPT ![Head(mail[SERVER]).from] = 0]
  /\ history' = [history EXCEPT !.gone = @ \cup {Head(mail[SERVER]).life}]
  /\ mail' = Handle(SERVER)
  /\ UNCHANGED <<proc, lives, next, calls>>

-----------------------------------------------------------------------------

LifecycleNext ==
  \/ KernelFork \/ KernelExit \/ FsFork \/ FsReply \/ FsExit
  \/ \E p \in UserPids : \/ ForkCall(p) \/ ForkReturns(p) \/ Tell(p) \/ Call(p)
                     \/ CallReturns(p) \/ ExitCall(p) \/ ExitNap(p) \/ Settings(p) \/ Tick(p)
                     \/ Deliver(p) \/ Handled(p) \/ Pause(p) \/ PauseTest(p) \/ PauseSleep(p)
  \/ \E p, q \in UserPids, s \in Signals : Kill(p, q, s)

LifecycleSpec == LifecycleInit /\ [][LifecycleNext]_lifecycleVars

-----------------------------------------------------------------------------
(* Properties *)

\* The file system's entry for a PID is the living process' own, or its late owner's, and
\* then the exit that clears it is on its way, ahead of all that the new owner says: the
\* entry is neither inherited nor taken away.  Two things break this, and are excepted: a
\* child that exits before its parent has told the file system of it, and a process that
\* is terminated twice by the same signal, the second time in the place of its successor.
OwnEntry ==
  \A p \in UserPids : fsproc[p] \notin {0, proc[p].life} \cup history.late \cup history.struck =>
    \E i \in DOMAIN mail[SERVER] :
      /\ mail[SERVER][i].op = "exit" /\ mail[SERVER][i].life = fsproc[p]
      /\ \A j \in 1 .. i - 1 : mail[SERVER][j].life # proc[p].life

\* What lies in a process' mailbox is for itself, never for an earlier owner of its PID,
\* unless that one was killed in a call and destroyed before the call was answered.
OwnAnswer ==
  \A p \in UserPids : \A i \in DOMAIN mail[p] :
    mail[p][i].life \in {proc[p].life} \cup history.orphans

\* A process does not sleep in pause() over a signal it could take, except for one that
\* came between the test and the sleep, and then only until the next signal.
SleepsUnsignalled ==
  \A p \in UserPids : proc[p].pc = "asleep" /\ Deliverable(proc[p]) # {} => proc[p].life \in history.missed
=============================================================================
